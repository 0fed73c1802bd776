-------------------------- MODULE TransactionsProofs --------------------------
(* Proofs about QueryScheduler, for any number of callers and slots, and about Transactions,
   its callbacks, and MediaMutation, whose files the callbacks remove, for any nesting of
   savepoints. *)
EXTENDS MediaMutation, FiniteSetTheorems, SequenceTheorems, TLAPS

USE SchedulerAssumption

-------------------------------------------------------------------------------
(* The query scheduler, which the transactions run on *)

(* The invariant, of phases "ph": first those in a state, then those between two steps of
   an action that changes several things. *)

(* "waiters" lists the callers of S at "place", each of them once. *)
Queue(ph, S, waiters, place) ==
    /\ waiters \in Seq(S)
    /\ \A i \in 1 .. Len(waiters) : ph[waiters[i]] = place
    /\ \A i, j \in 1 .. Len(waiters) : waiters[i] = waiters[j] => i = j
    /\ \A p \in S : ph[p] = place => \E i \in 1 .. Len(waiters) : waiters[i] = p

Holding(ph) == {q \in Queries : ph[q] \in {"admitted", "slot", "running"}}

Places == {"idle", "waiting", "handed", "exclusive", "admitted", "slot", "running"}

Phases(ph) ==
    /\ ph \in [Roots \cup Queries -> Places]
    /\ \A r \in Roots : ph[r] \in {"idle", "waiting", "handed", "exclusive"}
    /\ \A q \in Queries : ph[q] \in {"idle", "waiting", "admitted", "slot", "running"}

(* The gate belongs to one root transaction, or to the statements it counts. *)
Owned(ph, act) ==
    /\ act \in BOOLEAN
    /\ act <=> \E r \in Roots : ph[r] \in {"handed", "exclusive"}
    /\ \A r, s \in Roots :
          ph[r] \in {"handed", "exclusive"} /\ ph[s] \in {"handed", "exclusive"} => r = s
    /\ act => Holding(ph) = {}

Gate(ph, act, operations, waiters) ==
    /\ Phases(ph)
    /\ Owned(ph, act)
    /\ operations = Cardinality(Holding(ph))
    /\ Queue(ph, Roots, waiters, "waiting")

Taken(ph, taken, waiters) ==
    /\ taken = Cardinality({q \in Queries : ph[q] = "running"})
    /\ taken <= Limit
    /\ Queue(ph, Queries, waiters, "slot")
    /\ waiters # <<>> => taken = Limit

Awake(ph, act, operations) ==
    ~ act /\ operations = 0 => \A p \in Roots \cup Queries : ph[p] # "waiting"

SchedulerInv ==
    /\ Gate(phase, exclusiveActive, activeOperations, exclusiveWaiters)
    /\ Taken(phase, slots, slotWaiters)
    /\ Awake(phase, exclusiveActive, activeOperations)

-----------------------------------------------------------------------------
(* Queues *)

LEMMA QueueSame ==
  ASSUME NEW S, NEW w, NEW place, NEW ph, NEW ph2,
         Queue(ph, S, w, place), \A p \in S : ph2[p] = place <=> ph[p] = place
  PROVE  Queue(ph2, S, w, place)
<1>1. \A i \in 1 .. Len(w) : w[i] \in S
  BY ElementOfSeq DEF Queue
<1> QED
  BY <1>1 DEF Queue

LEMMA QueueAppend ==
  ASSUME NEW S, NEW w, NEW place, NEW ph, NEW ph2, NEW e \in S,
         Queue(ph, S, w, place), ph[e] # place, ph2[e] = place,
         \A p \in S \ {e} : ph2[p] = place <=> ph[p] = place
  PROVE  Queue(ph2, S, Append(w, e), place)
<1> DEFINE x == Append(w, e)
<1>1. w \in Seq(S) /\ Len(w) \in Nat /\ \A i \in 1 .. Len(w) : w[i] \in S /\ w[i] # e
  BY ElementOfSeq DEF Queue
<1>2. /\ x \in Seq(S) /\ Len(x) = Len(w) + 1
      /\ \A i \in 1 .. Len(w) : x[i] = w[i]
      /\ x[Len(w) + 1] = e
  BY <1>1, AppendProperties
<1> HIDE DEF x
<1>3. \A i \in 1 .. Len(x) : ph2[x[i]] = place
  BY <1>1, <1>2 DEF Queue
<1>4. \A i, j \in 1 .. Len(x) : x[i] = x[j] => i = j
  BY <1>1, <1>2 DEF Queue
<1>5. ASSUME NEW p \in S, ph2[p] = place PROVE \E i \in 1 .. Len(x) : x[i] = p
  <2>1. CASE p = e
    BY <2>1, <1>1, <1>2
  <2>2. CASE p # e
    <3>1. PICK i \in 1 .. Len(w) : w[i] = p
      BY <1>5, <2>2 DEF Queue
    <3> QED
      BY <3>1, <1>1, <1>2
  <2> QED
    BY <2>1, <2>2
<1>6. Queue(ph2, S, x, place)
  BY <1>2, <1>3, <1>4, <1>5 DEF Queue
<1> QED
  BY <1>6 DEF x

LEMMA QueueTail ==
  ASSUME NEW S, NEW w, NEW place, NEW ph, NEW ph2,
         Queue(ph, S, w, place), w # <<>>, ph2[Head(w)] # place,
         \A p \in S \ {Head(w)} : ph2[p] = place <=> ph[p] = place
  PROVE  Queue(ph2, S, Tail(w), place)
<1> DEFINE x == Tail(w)
<1>1. w \in Seq(S) /\ Len(w) \in Nat /\ Len(w) > 0 /\ Head(w) = w[1] /\ \A i \in 1 .. Len(w) : w[i] \in S
  BY ElementOfSeq DEF Queue
<1>2. /\ x \in Seq(S) /\ Len(x) = Len(w) - 1
      /\ \A i \in 1 .. Len(x) : x[i] = w[i + 1]
  BY <1>1, HeadTailProperties
<1> HIDE DEF x
<1>3. \A i \in 1 .. Len(x) : i + 1 \in 1 .. Len(w) /\ w[i + 1] # w[1]
  BY <1>1, <1>2 DEF Queue
<1>4. \A i \in 1 .. Len(x) : ph2[x[i]] = place
  <2> SUFFICES ASSUME NEW i \in 1 .. Len(x) PROVE ph2[x[i]] = place
    OBVIOUS
  <2>1. x[i] \in S \ {Head(w)}
    BY <1>1, <1>2, <1>3
  <2>2. ph[x[i]] = place
    BY <1>2, <1>3 DEF Queue
  <2> QED
    BY <2>1, <2>2
<1>5. \A i, j \in 1 .. Len(x) : x[i] = x[j] => i = j
  <2> SUFFICES ASSUME NEW i \in 1 .. Len(x), NEW j \in 1 .. Len(x), x[i] = x[j] PROVE i = j
    OBVIOUS
  <2>1. i + 1 = j + 1
    BY <1>2, <1>3 DEF Queue
  <2> QED
    BY <2>1, <1>1, <1>2
<1>6. ASSUME NEW p \in S, ph2[p] = place PROVE \E i \in 1 .. Len(x) : x[i] = p
  <2>1. PICK i \in 1 .. Len(w) : w[i] = p
    BY <1>1, <1>6 DEF Queue
  <2>2. i # 1
    BY <2>1, <1>1, <1>6
  <2>3. i - 1 \in 1 .. Len(x) /\ x[i - 1] = w[i]
    BY <2>2, <1>1, <1>2
  <2> QED
    BY <2>1, <2>3
<1>7. Queue(ph2, S, x, place)
  BY <1>2, <1>4, <1>5, <1>6 DEF Queue
<1> QED
  BY <1>7 DEF x

LEMMA QueueHead ==
  ASSUME NEW S, NEW w, NEW place, NEW ph, Queue(ph, S, w, place), w # <<>>
  PROVE  Head(w) \in S /\ ph[Head(w)] = place
<1>1. w \in Seq(S) /\ Len(w) \in Nat /\ Len(w) > 0 /\ Head(w) = w[1]
  BY DEF Queue
<1> QED
  BY <1>1, ElementOfSeq DEF Queue

LEMMA QueueEmpty ==
  ASSUME NEW S, NEW place, NEW ph, Queue(ph, S, <<>>, place)
  PROVE  \A p \in S : ph[p] # place
BY DEF Queue

-----------------------------------------------------------------------------
(* Counting *)

LEMMA Finite ==
  ASSUME NEW S, S \subseteq Queries
  PROVE  IsFiniteSet(S) /\ Cardinality(S) \in Nat
BY FS_Subset, FS_CardinalityType

LEMMA CountAdd ==
  ASSUME NEW S, NEW T, NEW q \in Queries, S \subseteq Queries, q \notin S, T = S \cup {q}
  PROVE  Cardinality(T) = Cardinality(S) + 1
BY Finite, FS_AddElement

LEMMA CountRemove ==
  ASSUME NEW S, NEW T, NEW q \in S, S \subseteq Queries, T = S \ {q}
  PROVE  Cardinality(T) = Cardinality(S) - 1
BY Finite, FS_RemoveElement

LEMMA CountEmpty ==
  ASSUME NEW S, S \subseteq Queries
  PROVE  Cardinality(S) = 0 <=> S = {}
BY Finite, FS_EmptySet

-----------------------------------------------------------------------------
(* Steps *)

LEMMA TakenSame ==
  ASSUME NEW ph, NEW ph2, NEW n, NEW w, Taken(ph, n, w),
         \A q \in Queries : (ph2[q] = "running" <=> ph[q] = "running") /\ (ph2[q] = "slot" <=> ph[q] = "slot")
  PROVE  Taken(ph2, n, w)
<1>1. {q \in Queries : ph2[q] = "running"} = {q \in Queries : ph[q] = "running"}
  OBVIOUS
<1>2. Queue(ph2, Queries, w, "slot")
  BY QueueSame DEF Taken
<1> QED
  BY <1>1, <1>2 DEF Taken

(* wake() leaves the gate to one root transaction or to statements, and nobody asleep. *)
LEMMA WakeStep ==
  ASSUME NEW moved, NEW act, NEW operations,
         Gate(moved, act, operations, exclusiveWaiters),
         \A q \in Queries : moved[q] = "waiting" <=> phase[q] = "waiting",
         Wake(moved, act, operations)
  PROVE  /\ Gate(phase', exclusiveActive', activeOperations', exclusiveWaiters')
         /\ Awake(phase', exclusiveActive', activeOperations')
         /\ \A q \in Queries : (phase'[q] = "running" <=> moved[q] = "running")
                               /\ (phase'[q] = "slot" <=> moved[q] = "slot")
<1>1. Holding(moved) \subseteq Queries /\ operations \in Nat
  BY Finite DEF Gate, Holding
<1>2. CASE act \/ operations > 0
  BY <1>1, <1>2 DEF Wake, Gate, Owned, Awake
<1>3. CASE ~ (act \/ operations > 0) /\ exclusiveWaiters # <<>>
  <2> DEFINE h == Head(exclusiveWaiters)
  <2>1. h \in Roots /\ moved[h] = "waiting"
    BY <1>3, QueueHead DEF Gate
  <2>2. /\ phase' = [moved EXCEPT ![h] = "handed"] /\ exclusiveActive' = TRUE
        /\ activeOperations' = operations /\ exclusiveWaiters' = Tail(exclusiveWaiters)
    BY <1>3 DEF Wake
  <2>3. /\ phase'[h] = "handed"
        /\ \A p \in (Roots \cup Queries) \ {h} : phase'[p] = moved[p]
    BY <2>1, <2>2 DEF Gate, Phases, Places
  <2>4. Queue(phase', Roots, exclusiveWaiters', "waiting")
    <3> HIDE DEF h
    <3>1. phase'[h] # "waiting" /\ \A p \in Roots \ {h} : phase'[p] = moved[p]
      BY <2>3
    <3> QED
      BY <1>3, <2>2, <3>1, QueueTail DEF Gate, h
  <2> HIDE DEF h
  <2>5. Holding(phase') = Holding(moved) /\ Holding(moved) = {}
    BY <1>1, <1>3, <2>1, <2>3, CountEmpty DEF Holding, Gate
  <2>6. Phases(phase')
    BY <2>1, <2>2, <2>3 DEF Gate, Phases, Places
  <2>7. Owned(phase', exclusiveActive')
    <3>1. \A r \in Roots : moved[r] \notin {"handed", "exclusive"}
      BY <1>3 DEF Gate, Owned
    <3>2. \A r \in Roots : phase'[r] \in {"handed", "exclusive"} <=> r = h
      BY <2>1, <2>3, <3>1
    <3>3. /\ \E r \in Roots : phase'[r] \in {"handed", "exclusive"}
          /\ \A r, s \in Roots :
                phase'[r] \in {"handed", "exclusive"} /\ phase'[s] \in {"handed", "exclusive"} => r = s
      BY <2>1, <3>2
    <3>4. exclusiveActive' = TRUE /\ Holding(phase') = {}
      BY <2>2, <2>5
    <3> QED
      BY <3>3, <3>4, Zenon DEF Owned
  <2> QED
    BY <2>1, <2>2, <2>3, <2>4, <2>5, <2>6, <2>7 DEF Gate, Awake
<1>4. CASE ~ (act \/ operations > 0) /\ exclusiveWaiters = <<>>
  <2>1. /\ phase' = [p \in Roots \cup Queries |->
                        IF p \in OperationWaiters THEN "admitted" ELSE moved[p]]
        /\ exclusiveActive' = FALSE /\ exclusiveWaiters' = exclusiveWaiters
        /\ activeOperations' = operations + Cardinality(OperationWaiters)
    BY <1>4 DEF Wake
  <2>2. OperationWaiters = {q \in Queries : moved[q] = "waiting"}
    BY DEF OperationWaiters, At
  <2>3. \A r \in Roots : phase'[r] = moved[r]
    BY <2>1, <2>2
  <2>4. Holding(moved) = {} /\ operations = 0
    BY <1>1, <1>4, CountEmpty DEF Gate
  <2>5. Holding(phase') = OperationWaiters
    BY <2>1, <2>2, <2>4 DEF Holding
  <2>6. activeOperations' = Cardinality(Holding(phase'))
    BY <2>1, <2>2, <2>4, <2>5, Finite
  <2>7. Phases(phase')
    BY <2>1, <2>2 DEF Gate, Phases, Places
  <2>8. Owned(phase', exclusiveActive')
    BY <1>4, <2>1, <2>3 DEF Gate, Owned
  <2>9. Queue(phase', Roots, exclusiveWaiters', "waiting")
    BY <2>1, <2>3, QueueSame DEF Gate
  <2>10. \A p \in Roots \cup Queries : phase'[p] # "waiting"
    <3>1. \A r \in Roots : phase'[r] # "waiting"
      BY <1>4, <2>1, <2>9, QueueEmpty
    <3> QED
      BY <2>1, <2>2, <3>1
  <2> QED
    BY <2>1, <2>2, <2>6, <2>7, <2>8, <2>9, <2>10 DEF Gate, Awake
<1> QED
  BY <1>2, <1>3, <1>4

LEMMA InitStep == SchedulerInit => SchedulerInv
<1> SUFFICES ASSUME SchedulerInit PROVE SchedulerInv
  OBVIOUS
<1> USE DEF SchedulerInit
<1>1. Holding(phase) = {} /\ {q \in Queries : phase[q] = "running"} = {}
  BY DEF Holding
<1>2. Cardinality({}) = 0
  BY FS_EmptySet
<1>3. Queue(phase, Roots, exclusiveWaiters, "waiting") /\ Queue(phase, Queries, slotWaiters, "slot")
  BY DEF Queue
<1>4. Phases(phase) /\ Owned(phase, exclusiveActive) /\ Awake(phase, exclusiveActive, activeOperations)
  BY DEF Phases, Places, Owned, Awake
<1>5. Gate(phase, exclusiveActive, activeOperations, exclusiveWaiters)
  BY <1>1, <1>2, <1>3, <1>4 DEF Gate
<1>6. Taken(phase, slots, slotWaiters)
  <2>1. slots = 0 /\ slotWaiters = <<>> /\ 0 <= Limit
    BY SchedulerAssumption
  <2> QED
    BY <1>1, <1>2, <1>3, <2>1 DEF Taken
<1> QED
  BY <1>4, <1>5, <1>6 DEF SchedulerInv

LEMMA RequestExclusiveStep ==
  ASSUME SchedulerInv, NEW r \in Roots, RequestExclusive(r)
  PROVE  SchedulerInv'
<1>1. /\ Phases(phase) /\ phase[r] = "idle" /\ UNCHANGED <<activeOperations, slots, slotWaiters>>
      /\ \A q \in Queries : phase'[q] = phase[q]
      /\ \A s \in Roots \ {r} : phase'[s] = phase[s]
      /\ phase'[r] \in {"waiting", "exclusive"}
      /\ Phases(phase')
  BY DEF SchedulerInv, Gate, Phases, Places, RequestExclusive
<1>2. Taken(phase', slots', slotWaiters')
  BY <1>1, TakenSame DEF SchedulerInv
<1>3. Holding(phase') = Holding(phase)
  BY <1>1 DEF Holding
<1>4. activeOperations \in Nat /\ Holding(phase) \subseteq Queries
  BY Finite DEF SchedulerInv, Gate, Holding
<1>5. CASE exclusiveActive \/ activeOperations > 0
  <2>1. /\ phase'[r] = "waiting" /\ exclusiveWaiters' = Append(exclusiveWaiters, r)
        /\ exclusiveActive' = exclusiveActive
    BY <1>1, <1>5 DEF RequestExclusive, Phases, Places
  <2>2. Queue(phase', Roots, exclusiveWaiters', "waiting")
    BY <1>1, <2>1, QueueAppend DEF SchedulerInv, Gate
  <2>3. Owned(phase', exclusiveActive')
    BY <1>1, <1>3, <2>1 DEF SchedulerInv, Gate, Owned
  <2> QED
    BY <1>1, <1>2, <1>3, <1>4, <1>5, <2>1, <2>2, <2>3 DEF SchedulerInv, Gate, Awake
<1>6. CASE ~ (exclusiveActive \/ activeOperations > 0)
  <2>1. /\ phase'[r] = "exclusive" /\ exclusiveWaiters' = exclusiveWaiters
        /\ exclusiveActive' = TRUE
    BY <1>1, <1>6 DEF RequestExclusive, Phases, Places
  <2>2. Queue(phase', Roots, exclusiveWaiters', "waiting")
    <3>1. \A s \in Roots : phase'[s] = "waiting" <=> phase[s] = "waiting"
      BY <1>1, <2>1
    <3> QED
      BY <2>1, <3>1, QueueSame DEF SchedulerInv, Gate
  <2>3. Holding(phase) = {}
    BY <1>4, <1>6, CountEmpty DEF SchedulerInv, Gate
  <2>4. Owned(phase', exclusiveActive')
    BY <1>1, <1>3, <1>6, <2>1, <2>3 DEF SchedulerInv, Gate, Owned
  <2> QED
    BY <1>1, <1>2, <1>3, <2>1, <2>2, <2>4 DEF SchedulerInv, Gate, Awake
<1> QED
  BY <1>5, <1>6

LEMMA ResumeExclusiveStep ==
  ASSUME SchedulerInv, NEW r \in Roots, ResumeExclusive(r)
  PROVE  SchedulerInv'
<1>1. /\ phase[r] = "handed" /\ phase'[r] = "exclusive"
      /\ UNCHANGED <<exclusiveActive, activeOperations, exclusiveWaiters, slots, slotWaiters>>
      /\ \A p \in (Roots \cup Queries) \ {r} : phase'[p] = phase[p]
      /\ Phases(phase')
  BY DEF SchedulerInv, Gate, Phases, Places, ResumeExclusive
<1>2. Taken(phase', slots', slotWaiters')
  BY <1>1, TakenSame DEF SchedulerInv
<1>3. Holding(phase') = Holding(phase)
  BY <1>1 DEF Holding
<1>4. Queue(phase', Roots, exclusiveWaiters', "waiting")
  <2>1. \A s \in Roots : phase'[s] = "waiting" <=> phase[s] = "waiting"
    BY <1>1
  <2> QED
    BY <1>1, <2>1, QueueSame DEF SchedulerInv, Gate
<1>5. exclusiveActive /\ Owned(phase', exclusiveActive')
  BY <1>1, <1>3 DEF SchedulerInv, Gate, Owned
<1> QED
  BY <1>1, <1>2, <1>3, <1>4, <1>5 DEF SchedulerInv, Gate, Awake

LEMMA LeaveExclusiveStep ==
  ASSUME SchedulerInv, NEW r \in Roots, LeaveExclusive(r)
  PROVE  SchedulerInv'
<1> DEFINE moved == [phase EXCEPT ![r] = "idle"]
<1>1. /\ phase[r] = "exclusive" /\ moved[r] = "idle"
      /\ \A p \in (Roots \cup Queries) \ {r} : moved[p] = phase[p]
      /\ Phases(moved)
  BY DEF SchedulerInv, Gate, Phases, Places, LeaveExclusive
<1>2. Wake(moved, FALSE, activeOperations) /\ UNCHANGED <<slots, slotWaiters>>
  BY DEF LeaveExclusive
<1> HIDE DEF moved
<1>3. Holding(moved) = Holding(phase)
  BY <1>1 DEF Holding
<1>4. Queue(moved, Roots, exclusiveWaiters, "waiting")
  <2>1. \A s \in Roots : moved[s] = "waiting" <=> phase[s] = "waiting"
    BY <1>1
  <2> QED
    BY <2>1, QueueSame DEF SchedulerInv, Gate
<1>5. Owned(moved, FALSE)
  BY <1>1 DEF SchedulerInv, Gate, Owned
<1>6. Gate(moved, FALSE, activeOperations, exclusiveWaiters)
  BY <1>1, <1>3, <1>4, <1>5 DEF SchedulerInv, Gate
<1>7. /\ Gate(phase', exclusiveActive', activeOperations', exclusiveWaiters')
      /\ Awake(phase', exclusiveActive', activeOperations')
      /\ \A q \in Queries : (phase'[q] = "running" <=> phase[q] = "running")
                            /\ (phase'[q] = "slot" <=> phase[q] = "slot")
  BY <1>1, <1>2, <1>6, WakeStep
<1>8. Taken(phase', slots', slotWaiters')
  BY <1>2, <1>7, TakenSame DEF SchedulerInv
<1> QED
  BY <1>7, <1>8 DEF SchedulerInv

(* A statement that has passed the gate takes a slot, waits for one, or leaves. *)
LEMMA TakeSlotStep ==
  ASSUME NEW q \in Queries, NEW operations, phase[q] \in {"idle", "admitted"}, ~ exclusiveActive,
         NEW passed, passed[q] = "admitted",
         \A p \in (Roots \cup Queries) \ {q} : passed[p] = phase[p],
         Gate(passed, exclusiveActive, operations, exclusiveWaiters),
         phase \in [Roots \cup Queries -> Places],
         Taken(phase, slots, slotWaiters), TakeSlot(q, operations)
  PROVE  SchedulerInv'
<1>1. /\ passed[q] = "admitted" /\ Phases(passed) /\ exclusiveActive = FALSE
      /\ \A p \in (Roots \cup Queries) \ {q} : passed[p] = phase[p]
  BY DEF Gate, Owned
<1>2. /\ q \in Holding(passed) /\ Holding(passed) \subseteq Queries
      /\ operations = Cardinality(Holding(passed)) /\ operations \in Nat /\ operations > 0
      /\ slots \in Nat
  <2>1. q \in Holding(passed) /\ Holding(passed) \subseteq Queries
    BY <1>1 DEF Holding
  <2>2. operations \in Nat /\ operations # 0 /\ operations = Cardinality(Holding(passed))
    BY <2>1, Finite, CountEmpty DEF Gate
  <2>3. slots \in Nat
    BY Finite DEF Taken
  <2> QED
    BY <2>1, <2>2, <2>3
<1>3. Gate(passed, FALSE, operations, exclusiveWaiters)
  BY <1>1
<1>4. ASSUME NEW ph2, ph2 \in [Roots \cup Queries -> Places],
             \A p \in (Roots \cup Queries) \ {q} : ph2[p] = phase[p],
             ph2[q] \in {"running", "slot"}
      PROVE  Gate(ph2, FALSE, operations, exclusiveWaiters)
  <2>1. Phases(ph2)
    BY <1>1, <1>4 DEF Phases, Places
  <2>2. Holding(ph2) = Holding(passed)
    BY <1>1, <1>4 DEF Holding
  <2>3. \A r \in Roots : ph2[r] = passed[r]
    BY <1>1, <1>4
  <2>4. Queue(ph2, Roots, exclusiveWaiters, "waiting")
    BY <1>3, <2>3, QueueSame DEF Gate
  <2>5. Owned(ph2, FALSE)
    BY <1>3, <2>2, <2>3 DEF Gate, Owned
  <2> QED
    BY <1>3, <2>1, <2>2, <2>4, <2>5 DEF Gate
<1>5. CASE /\ slots < Limit /\ slots' = slots + 1 /\ phase' = [phase EXCEPT ![q] = "running"]
           /\ activeOperations' = operations
           /\ UNCHANGED <<exclusiveActive, exclusiveWaiters, slotWaiters>>
  <2>1. /\ phase'[q] = "running" /\ phase' \in [Roots \cup Queries -> Places]
        /\ \A p \in (Roots \cup Queries) \ {q} : phase'[p] = phase[p]
    BY <1>5 DEF Places
  <2>2. Gate(phase', FALSE, operations, exclusiveWaiters)
    BY <2>1, <1>4
  <2>3. Queue(phase', Queries, slotWaiters, "slot")
    <3>1. \A p \in Queries : phase'[p] = "slot" <=> phase[p] = "slot"
      BY <2>1
    <3> QED
      BY <3>1, QueueSame DEF Taken
  <2>4. slots + 1 = Cardinality({p \in Queries : phase'[p] = "running"})
    <3> DEFINE S == {p \in Queries : phase[p] = "running"}
               T == {p \in Queries : phase'[p] = "running"}
    <3>1. S \subseteq Queries /\ q \notin S /\ T = S \cup {q}
      BY <2>1
    <3> HIDE DEF S, T
    <3>2. Cardinality(T) = Cardinality(S) + 1
      BY <3>1, CountAdd
    <3> QED
      BY <3>2 DEF S, T, Taken
  <2>5. slotWaiters = <<>>
    BY <1>5, <1>2 DEF Taken
  <2>6. Taken(phase', slots', slotWaiters')
    BY <1>2, <1>5, <2>3, <2>4, <2>5 DEF Taken
  <2>7. exclusiveActive' = FALSE /\ activeOperations' = operations /\ exclusiveWaiters' = exclusiveWaiters
    BY <1>1, <1>5
  <2>8. Gate(phase', exclusiveActive', activeOperations', exclusiveWaiters')
    BY <2>2, <2>7
  <2>9. Awake(phase', exclusiveActive', activeOperations')
    BY <1>2, <2>7 DEF Awake
  <2> QED
    BY <2>6, <2>8, <2>9 DEF SchedulerInv
<1>6. CASE /\ slots >= Limit /\ Len(slotWaiters) < QueueLimit
           /\ slotWaiters' = Append(slotWaiters, q) /\ phase' = [phase EXCEPT ![q] = "slot"]
           /\ activeOperations' = operations
           /\ UNCHANGED <<exclusiveActive, exclusiveWaiters, slots>>
  <2>1. /\ phase'[q] = "slot" /\ phase' \in [Roots \cup Queries -> Places]
        /\ \A p \in (Roots \cup Queries) \ {q} : phase'[p] = phase[p]
    BY <1>6 DEF Places
  <2>2. Gate(phase', FALSE, operations, exclusiveWaiters)
    BY <2>1, <1>4
  <2>3. Queue(phase', Queries, slotWaiters', "slot")
    BY <1>6, <2>1, QueueAppend DEF Taken
  <2>4. {p \in Queries : phase'[p] = "running"} = {p \in Queries : phase[p] = "running"}
    BY <2>1
  <2>5. slots = Limit
    BY <1>2, <1>6 DEF Taken
  <2>6. Taken(phase', slots', slotWaiters')
    BY <1>6, <2>3, <2>4, <2>5 DEF Taken
  <2>7. exclusiveActive' = FALSE /\ activeOperations' = operations /\ exclusiveWaiters' = exclusiveWaiters
    BY <1>1, <1>6
  <2>8. Gate(phase', exclusiveActive', activeOperations', exclusiveWaiters')
    BY <2>2, <2>7
  <2>9. Awake(phase', exclusiveActive', activeOperations')
    BY <1>2, <2>7 DEF Awake
  <2> QED
    BY <2>6, <2>8, <2>9 DEF SchedulerInv
<1>7. CASE /\ Wake([phase EXCEPT ![q] = "idle"], exclusiveActive, operations - 1)
           /\ UNCHANGED <<slots, slotWaiters>>
  <2> DEFINE moved == [phase EXCEPT ![q] = "idle"]
  <2>1. /\ moved[q] = "idle" /\ moved \in [Roots \cup Queries -> Places]
        /\ \A p \in (Roots \cup Queries) \ {q} : moved[p] = phase[p]
    BY DEF Places
  <2>2. Wake(moved, FALSE, operations - 1)
    BY <1>1, <1>7
  <2> HIDE DEF moved
  <2>3. Holding(moved) = Holding(passed) \ {q}
    BY <1>1, <2>1 DEF Holding
  <2>4. operations - 1 = Cardinality(Holding(moved))
    BY <1>2, <2>3, CountRemove
  <2>5. \A r \in Roots : moved[r] = passed[r]
    BY <1>1, <2>1
  <2>6. Phases(moved) /\ Owned(moved, FALSE)
    BY <1>1, <1>3, <2>1, <2>5 DEF Gate, Phases, Places, Owned
  <2>7. Queue(moved, Roots, exclusiveWaiters, "waiting")
    BY <1>3, <2>5, QueueSame DEF Gate
  <2>8. Gate(moved, FALSE, operations - 1, exclusiveWaiters)
    BY <2>4, <2>6, <2>7 DEF Gate
  <2>9. \A p \in Queries : moved[p] = "waiting" <=> phase[p] = "waiting"
    BY <2>1
  <2>10. /\ Gate(phase', exclusiveActive', activeOperations', exclusiveWaiters')
         /\ Awake(phase', exclusiveActive', activeOperations')
         /\ \A p \in Queries : (phase'[p] = "running" <=> moved[p] = "running")
                               /\ (phase'[p] = "slot" <=> moved[p] = "slot")
    BY <2>2, <2>8, <2>9, WakeStep
  <2>11. Taken(phase', slots', slotWaiters')
    <3>1. \A p \in Queries : (phase'[p] = "running" <=> phase[p] = "running")
                            /\ (phase'[p] = "slot" <=> phase[p] = "slot")
      BY <2>1, <2>10
    <3> QED
      BY <1>7, <3>1, TakenSame
  <2> QED
    BY <2>10, <2>11 DEF SchedulerInv
<1> QED
  BY <1>5, <1>6, <1>7 DEF TakeSlot

LEMMA RequestOperationStep ==
  ASSUME SchedulerInv, NEW q \in Queries, RequestOperation(q)
  PROVE  SchedulerInv'
<1>1. /\ phase[q] = "idle" /\ Phases(phase) /\ phase \in [Roots \cup Queries -> Places]
      /\ Holding(phase) \subseteq Queries /\ q \notin Holding(phase)
      /\ exclusiveActive \in BOOLEAN
  BY DEF SchedulerInv, Gate, Phases, Owned, Holding, RequestOperation
<1>2. CASE exclusiveActive \/ ExclusivePending
  <2>1. /\ phase' = [phase EXCEPT ![q] = "waiting"]
        /\ UNCHANGED <<exclusiveActive, activeOperations, exclusiveWaiters, slots, slotWaiters>>
    BY <1>2 DEF RequestOperation
  <2>2. /\ phase'[q] = "waiting" /\ Phases(phase')
        /\ \A p \in (Roots \cup Queries) \ {q} : phase'[p] = phase[p]
    BY <1>1, <2>1 DEF Phases, Places
  <2>3. \A r \in Roots : phase'[r] = phase[r]
    BY <2>2, SchedulerAssumption
  <2>4. Holding(phase') = Holding(phase)
    BY <1>1, <2>2 DEF Holding
  <2>5. Queue(phase', Roots, exclusiveWaiters, "waiting")
    BY <2>3, QueueSame DEF SchedulerInv, Gate
  <2>6. Owned(phase', exclusiveActive)
    BY <2>3, <2>4 DEF SchedulerInv, Gate, Owned
  <2>7. Taken(phase', slots, slotWaiters)
    <3>1. \A p \in Queries : (phase'[p] = "running" <=> phase[p] = "running")
                            /\ (phase'[p] = "slot" <=> phase[p] = "slot")
      BY <1>1, <2>2
    <3> QED
      BY <3>1, TakenSame DEF SchedulerInv
  <2>8. exclusiveActive \/ activeOperations # 0
    <3>1. CASE exclusiveActive
      BY <3>1
    <3>2. CASE ~ exclusiveActive
      <4>1. PICK r \in Roots : phase[r] \in {"waiting", "handed"}
        BY <1>2, <3>2 DEF ExclusivePending, At
      <4>2. phase[r] = "waiting"
        BY <3>2, <4>1 DEF SchedulerInv, Gate, Owned
      <4> QED
        BY <3>2, <4>2 DEF SchedulerInv, Awake
    <3> QED
      BY <3>1, <3>2
  <2> QED
    BY <2>1, <2>2, <2>4, <2>5, <2>6, <2>7, <2>8 DEF SchedulerInv, Gate, Awake
<1>3. CASE ~ (exclusiveActive \/ ExclusivePending)
  <2> DEFINE passed == [phase EXCEPT ![q] = "admitted"]
  <2>1. /\ passed[q] = "admitted" /\ Phases(passed)
        /\ \A p \in (Roots \cup Queries) \ {q} : passed[p] = phase[p]
    BY <1>1 DEF Phases, Places
  <2>2. TakeSlot(q, activeOperations + 1)
    BY <1>3 DEF RequestOperation
  <2> HIDE DEF passed
  <2>3. Holding(passed) = Holding(phase) \cup {q}
    BY <2>1 DEF Holding
  <2>4. activeOperations + 1 = Cardinality(Holding(passed))
    BY <1>1, <2>3, CountAdd DEF SchedulerInv, Gate
  <2>5. \A r \in Roots : passed[r] = phase[r]
    BY <2>1, SchedulerAssumption
  <2>6. Owned(passed, exclusiveActive)
    BY <1>1, <1>3, <2>5 DEF SchedulerInv, Gate, Owned
  <2>7. Queue(passed, Roots, exclusiveWaiters, "waiting")
    BY <2>5, QueueSame DEF SchedulerInv, Gate
  <2>8. Gate(passed, exclusiveActive, activeOperations + 1, exclusiveWaiters)
    BY <2>1, <2>4, <2>6, <2>7 DEF Gate
  <2> QED
    <3>1. Taken(phase, slots, slotWaiters) /\ ~ exclusiveActive /\ phase[q] \in {"idle", "admitted"}
      BY <1>1, <1>3 DEF SchedulerInv
    <3>2. passed[q] = "admitted" /\ \A p \in (Roots \cup Queries) \ {q} : passed[p] = phase[p]
      BY <2>1
    <3>3. phase \in [Roots \cup Queries -> Places]
      BY <1>1
    <3> QED
      BY <2>2, <2>8, <3>1, <3>2, <3>3, TakeSlotStep
<1> QED
  BY <1>2, <1>3

LEMMA EnterOperationStep ==
  ASSUME SchedulerInv, NEW q \in Queries, EnterOperation(q)
  PROVE  SchedulerInv'
<1>1. /\ phase[q] = "admitted" /\ phase \in [Roots \cup Queries -> Places]
      /\ TakeSlot(q, activeOperations)
      /\ Gate(phase, exclusiveActive, activeOperations, exclusiveWaiters)
      /\ Taken(phase, slots, slotWaiters)
  BY DEF SchedulerInv, Gate, Phases, EnterOperation
<1>2. [phase EXCEPT ![q] = "admitted"] = phase
  BY <1>1
<1>3. ~ exclusiveActive
  BY <1>1 DEF Gate, Owned, Holding
<1> QED
  BY <1>1, <1>2, <1>3, TakeSlotStep

(* A statement leaves: "moved" are the phases before wake(). *)
LEMMA LeaveOperationStep ==
  ASSUME SchedulerInv, NEW q \in Queries, phase[q] = "running", NEW moved, Phases(moved),
         moved[q] = "idle",
         \A p \in Roots \cup Queries : p # q => (moved[p] = "waiting" <=> phase[p] = "waiting"),
         \A r \in Roots : moved[r] = phase[r],
         Holding(moved) = Holding(phase) \ {q},
         Taken(moved, slots', slotWaiters'),
         Wake(moved, exclusiveActive, activeOperations - 1)
  PROVE  SchedulerInv'
<1>1. Holding(phase) \subseteq Queries /\ q \in Holding(phase)
  BY DEF Holding
<1>2. activeOperations - 1 = Cardinality(Holding(moved))
  BY <1>1, CountRemove DEF SchedulerInv, Gate
<1>3. Queue(moved, Roots, exclusiveWaiters, "waiting")
  BY QueueSame DEF SchedulerInv, Gate
<1>4. Owned(moved, exclusiveActive)
  BY <1>1 DEF SchedulerInv, Gate, Owned
<1>5. Gate(moved, exclusiveActive, activeOperations - 1, exclusiveWaiters)
  BY <1>2, <1>3, <1>4 DEF Gate
<1>6. \A p \in Queries : moved[p] = "waiting" <=> phase[p] = "waiting"
  OBVIOUS
<1>7. /\ Gate(phase', exclusiveActive', activeOperations', exclusiveWaiters')
      /\ Awake(phase', exclusiveActive', activeOperations')
      /\ \A p \in Queries : (phase'[p] = "running" <=> moved[p] = "running")
                            /\ (phase'[p] = "slot" <=> moved[p] = "slot")
  BY <1>5, <1>6, WakeStep
<1>8. Taken(phase', slots', slotWaiters')
  BY <1>7, TakenSame
<1> QED
  BY <1>7, <1>8 DEF SchedulerInv

LEMMA FinishOperationStep ==
  ASSUME SchedulerInv, NEW q \in Queries, FinishOperation(q)
  PROVE  SchedulerInv'
<1> DEFINE S == {p \in Queries : phase[p] = "running"}
<1>1. /\ phase[q] = "running" /\ phase \in [Roots \cup Queries -> Places] /\ Phases(phase)
      /\ q \in S /\ S \subseteq Queries /\ q \notin Roots
      /\ slots = Cardinality(S) /\ slots <= Limit
      /\ Queue(phase, Queries, slotWaiters, "slot")
      /\ slotWaiters # <<>> => slots = Limit
  BY DEF SchedulerInv, Gate, Phases, Taken, FinishOperation
<1>2. slots \in Nat
  BY <1>1, Finite
<1> HIDE DEF S
<1>3. CASE slotWaiters = <<>>
  <2> DEFINE moved == [phase EXCEPT ![q] = "idle"]
  <2>1. /\ moved[q] = "idle" /\ Phases(moved)
        /\ \A p \in (Roots \cup Queries) \ {q} : moved[p] = phase[p]
    BY <1>1 DEF Phases, Places
  <2>2. /\ slots' = slots - 1 /\ slotWaiters' = slotWaiters
        /\ Wake(moved, exclusiveActive, activeOperations - 1)
    BY <1>3 DEF FinishOperation
  <2> HIDE DEF moved
  <2>3. Holding(moved) = Holding(phase) \ {q}
    BY <2>1 DEF Holding
  <2>4. {p \in Queries : moved[p] = "running"} = S \ {q}
    BY <2>1 DEF S
  <2>5. slots - 1 = Cardinality({p \in Queries : moved[p] = "running"})
    BY <1>1, <2>4, CountRemove
  <2>6. Queue(moved, Queries, slotWaiters, "slot")
    <3>1. \A p \in Queries : moved[p] = "slot" <=> phase[p] = "slot"
      BY <1>1, <2>1
    <3> QED
      BY <1>1, <3>1, QueueSame
  <2>7. Taken(moved, slots', slotWaiters')
    BY <1>1, <1>2, <1>3, <2>2, <2>5, <2>6 DEF Taken
  <2> QED
    BY <1>1, <2>1, <2>2, <2>3, <2>7, LeaveOperationStep
<1>4. CASE slotWaiters # <<>>
  <2> DEFINE h == Head(slotWaiters)
             moved == [phase EXCEPT ![q] = "idle", ![h] = "running"]
  <2>1. h \in Queries /\ phase[h] = "slot" /\ h # q
    BY <1>1, <1>4, QueueHead
  <2>2. /\ slotWaiters' = Tail(slotWaiters) /\ slots' = slots
        /\ Wake(moved, exclusiveActive, activeOperations - 1)
    BY <1>4 DEF FinishOperation
  <2> HIDE DEF h
  <2>3. /\ moved[q] = "idle" /\ moved[h] = "running" /\ Phases(moved)
        /\ \A p \in (Roots \cup Queries) \ {q, h} : moved[p] = phase[p]
    BY <1>1, <2>1 DEF Phases, Places
  <2> HIDE DEF moved
  <2>4. Holding(moved) = Holding(phase) \ {q}
    BY <2>1, <2>3 DEF Holding
  <2>5. {p \in Queries : moved[p] = "running"} = (S \ {q}) \cup {h}
    BY <2>1, <2>3 DEF S
  <2>6. slots = Cardinality({p \in Queries : moved[p] = "running"})
    <3> DEFINE R == S \ {q}
    <3>1. Cardinality(R) = slots - 1 /\ R \subseteq Queries /\ h \notin R
      BY <1>1, <2>1, CountRemove DEF S
    <3> HIDE DEF R
    <3>2. Cardinality(R \cup {h}) = Cardinality(R) + 1
      BY <2>1, <3>1, CountAdd
    <3> QED
      BY <1>2, <2>5, <3>1, <3>2 DEF R
  <2>7. Queue(moved, Queries, Tail(slotWaiters), "slot")
    <3>1. /\ moved[h] # "slot"
          /\ \A p \in Queries \ {h} : moved[p] = "slot" <=> phase[p] = "slot"
      BY <1>1, <2>3
    <3> QED
      BY <1>1, <1>4, <3>1, QueueTail DEF h
  <2>8. Taken(moved, slots', slotWaiters')
    BY <1>1, <1>4, <2>2, <2>6, <2>7 DEF Taken
  <2>9. \A r \in Roots : moved[r] = phase[r]
    BY <1>1, <2>1, <2>3, SchedulerAssumption
  <2>10. \A p \in Roots \cup Queries : p # q => (moved[p] = "waiting" <=> phase[p] = "waiting")
    BY <2>1, <2>3
  <2> QED
    BY <1>1, <2>2, <2>3, <2>4, <2>8, <2>9, <2>10, LeaveOperationStep
<1> QED
  BY <1>3, <1>4

LEMMA StutterStep ==
  ASSUME SchedulerInv, UNCHANGED gateVars
  PROVE  SchedulerInv'
<1>1. UNCHANGED <<phase, exclusiveActive, activeOperations, exclusiveWaiters, slots, slotWaiters>>
  BY DEF gateVars
<1> QED
  BY <1>1 DEF SchedulerInv, Gate, Taken, Awake, Phases, Owned, Queue, Holding

(* The invariant holds in every state: one owner, counted statements, ordered queues. *)
THEOREM SchedulerInvariant == SchedulerSpec => []SchedulerInv
<1>1. SchedulerInv /\ [SchedulerNext]_gateVars => SchedulerInv'
  <2> SUFFICES ASSUME SchedulerInv, [SchedulerNext]_gateVars PROVE SchedulerInv'
    OBVIOUS
  <2>1. CASE \E r \in Roots : RequestExclusive(r) \/ ResumeExclusive(r) \/ LeaveExclusive(r)
    BY <2>1, RequestExclusiveStep, ResumeExclusiveStep, LeaveExclusiveStep
  <2>2. CASE \E q \in Queries : RequestOperation(q) \/ EnterOperation(q) \/ FinishOperation(q)
    BY <2>2, RequestOperationStep, EnterOperationStep, FinishOperationStep
  <2>3. CASE UNCHANGED gateVars
    BY <2>3, StutterStep
  <2> QED
    BY <2>1, <2>2, <2>3 DEF SchedulerNext
<1> QED
  BY <1>1, InitStep, PTL DEF SchedulerSpec

LEMMA SchedulerTyped ==
  ASSUME SchedulerInv
  PROVE  SchedulerTypeOK
<1>1. Holding(phase) \subseteq Queries /\ {q \in Queries : phase[q] = "running"} \subseteq Queries
  BY DEF Holding
<1>2. activeOperations \in Nat /\ slots \in Nat /\ slots <= Limit
  BY <1>1, Finite DEF SchedulerInv, Gate, Taken
<1> QED
  BY <1>2 DEF SchedulerInv, Gate, Taken, Phases, Places, Owned, Queue, SchedulerTypeOK

LEMMA SchedulerTypedNext == SchedulerInv' => SchedulerTypeOK'
<1>1. SchedulerInv => SchedulerTypeOK
  BY SchedulerTyped
<1> QED
  BY <1>1, PTL

(* SchedulerTypeOK, from the same invariant. *)
THEOREM SchedulerTypes == SchedulerSpec => []SchedulerTypeOK
BY SchedulerTyped, SchedulerInvariant, PTL

(* Isolation: one root transaction inside the gate, and no plain statement beside it. *)
THEOREM Isolated == SchedulerSpec => []Isolation
<1>1. SchedulerInv => Isolation
  <2> SUFFICES ASSUME SchedulerInv, NEW r \in Inside PROVE Inside = {r} /\ Holders = {}
    BY DEF Isolation
  <2>1. Inside = {s \in Roots : phase[s] \in {"handed", "exclusive"}}
    BY DEF Inside, At
  <2>2. Holders = Holding(phase)
    BY DEF Holders, Holding
  <2> QED
    BY <2>1, <2>2 DEF SchedulerInv, Gate, Owned
<1> QED
  BY <1>1, SchedulerInvariant, PTL

(* NoLostWakeup: nobody waits at a gate that nobody holds, nor while a slot is free. *)
THEOREM NobodyForgotten == SchedulerSpec => []NoLostWakeup
<1>1. SchedulerInv => NoLostWakeup
  <2> SUFFICES ASSUME SchedulerInv PROVE NoLostWakeup
    OBVIOUS
  <2>1. Inside = {s \in Roots : phase[s] \in {"handed", "exclusive"}}
    BY DEF Inside, At
  <2>2. Holders = Holding(phase) /\ Holders \subseteq Queries
    BY DEF Holders, Holding
  <2>3. ASSUME Inside = {}, Holders = {} PROVE At(Roots \cup Queries, "waiting") = {}
    <3>1. ~ exclusiveActive
      BY <2>1, <2>3 DEF SchedulerInv, Gate, Owned
    <3>2. activeOperations = 0
      BY <2>2, <2>3, CountEmpty DEF SchedulerInv, Gate
    <3> QED
      BY <3>1, <3>2 DEF SchedulerInv, Awake, At
  <2>4. ASSUME At(Queries, "slot") # {} PROVE Cardinality(At(Queries, "running")) = Limit
    <3>1. slotWaiters # <<>>
      BY <2>4, QueueEmpty DEF SchedulerInv, Taken, At
    <3> QED
      BY <3>1 DEF SchedulerInv, Taken, At
  <2> QED
    BY <2>3, <2>4 DEF NoLostWakeup
<1> QED
  BY <1>1, SchedulerInvariant, PTL

-----------------------------------------------------------------------------
(* The refinement *)

LEMMA ImplementsInit == SchedulerInit => Access!AccessInit
BY DEF SchedulerInit, Access!AccessInit, At

(* A step that leaves the phases "exclusive" and "running" as they are is a stutter. *)
LEMMA Stutter ==
  ASSUME \A r \in Roots : phase'[r] = "exclusive" <=> phase[r] = "exclusive",
         \A q \in Queries : phase'[q] = "running" <=> phase[q] = "running"
  PROVE  UNCHANGED <<At(Roots, "exclusive"), At(Queries, "running")>>
BY DEF At

(* A step outside any exclusive section that changes only who runs is a Read. *)
LEMMA Reading ==
  ASSUME SchedulerInv, SchedulerInv', ~ exclusiveActive,
         \A r \in Roots : phase'[r] = "exclusive" <=> phase[r] = "exclusive"
  PROVE  Access!AccessNext
<1> DEFINE ended == At(Queries, "running") \ At(Queries, "running")'
           started == At(Queries, "running")' \ At(Queries, "running")
<1>1. ended \in SUBSET Queries /\ started \in SUBSET Queries /\ ended \subseteq At(Queries, "running")
  BY DEF At
<1>2. At(Queries, "running")' = (At(Queries, "running") \ ended) \cup started
  OBVIOUS
<1>3. At(Roots, "exclusive") = {} /\ At(Roots, "exclusive")' = {}
  BY DEF SchedulerInv, Gate, Owned, At
<1>4. Cardinality(At(Queries, "running")') <= Limit
  BY DEF SchedulerInv, Taken, At
<1> HIDE DEF ended, started
<1>5. Access!Read(ended, started)
  BY <1>1, <1>2, <1>3, <1>4 DEF Access!Read, Access!Cardinality, Cardinality, Access!IsFiniteSet, IsFiniteSet
<1> QED
  BY <1>1, <1>5 DEF Access!AccessNext

(* What wake() does to those inside: nothing. *)
LEMMA WakeKeeps ==
  ASSUME NEW moved, NEW act, NEW operations, Wake(moved, act, operations),
         moved \in [Roots \cup Queries -> Places],
         \A q \in Queries : moved[q] = "waiting" <=> phase[q] = "waiting",
         Queue(moved, Roots, exclusiveWaiters, "waiting")
  PROVE  /\ \A r \in Roots : phase'[r] = "exclusive" <=> moved[r] = "exclusive"
         /\ \A q \in Queries : phase'[q] = "running" <=> moved[q] = "running"
<1>1. CASE act \/ operations > 0
  BY <1>1 DEF Wake
<1>2. CASE ~ (act \/ operations > 0) /\ exclusiveWaiters # <<>>
  <2>1. Head(exclusiveWaiters) \in Roots /\ moved[Head(exclusiveWaiters)] = "waiting"
    BY <1>2, QueueHead
  <2>2. phase' = [moved EXCEPT ![Head(exclusiveWaiters)] = "handed"]
    BY <1>2 DEF Wake
  <2> QED
    BY <2>1, <2>2
<1>3. CASE ~ (act \/ operations > 0) /\ exclusiveWaiters = <<>>
  <2>1. phase' = [p \in Roots \cup Queries |-> IF p \in OperationWaiters THEN "admitted" ELSE moved[p]]
    BY <1>3 DEF Wake
  <2>2. OperationWaiters = {q \in Queries : moved[q] = "waiting"}
    BY DEF OperationWaiters, At
  <2> QED
    BY <2>1, <2>2
<1> QED
  BY <1>1, <1>2, <1>3

(* Owning: the root transaction that enters finds the connection empty. *)
LEMMA Owning ==
  ASSUME SchedulerInv, SchedulerInv', NEW r \in Roots, phase[r] # "exclusive",
         exclusiveActive \/ activeOperations = 0,
         phase' = [phase EXCEPT ![r] = "exclusive"]
  PROVE  Access!AccessNext
<1>1. phase \in [Roots \cup Queries -> Places] /\ phase'[r] = "exclusive"
      /\ \A p \in (Roots \cup Queries) \ {r} : phase'[p] = phase[p]
  BY DEF SchedulerInv, Gate, Phases
<1>2. Holding(phase) = {}
  <2>1. Holding(phase) \subseteq Queries
    BY DEF Holding
  <2> QED
    BY <2>1, CountEmpty DEF SchedulerInv, Gate, Owned
<1>3. At(Roots, "exclusive")' = {r}
  BY <1>1 DEF SchedulerInv, Gate, Owned, At
<1>4. At(Roots, "exclusive") = {}
  BY <1>1, <1>3 DEF At
<1>5. At(Queries, "running") = {} /\ At(Queries, "running")' = {}
  BY <1>1, <1>2, SchedulerAssumption DEF At, Holding
<1>6. Access!Own(r)
  BY <1>3, <1>4, <1>5 DEF Access!Own
<1> QED
  BY <1>6 DEF Access!AccessNext

LEMMA LeavingImplements ==
  ASSUME SchedulerInv, NEW r \in Roots, LeaveExclusive(r)
  PROVE  Access!AccessNext
<1> DEFINE moved == [phase EXCEPT ![r] = "idle"]
<1>1. /\ phase[r] = "exclusive" /\ moved[r] = "idle" /\ moved \in [Roots \cup Queries -> Places]
      /\ \A p \in (Roots \cup Queries) \ {r} : moved[p] = phase[p]
  BY DEF SchedulerInv, Gate, Phases, Places, LeaveExclusive
<1>2. Wake(moved, FALSE, activeOperations)
  BY DEF LeaveExclusive
<1> HIDE DEF moved
<1>3. Queue(moved, Roots, exclusiveWaiters, "waiting")
  <2>1. \A s \in Roots : moved[s] = "waiting" <=> phase[s] = "waiting"
    BY <1>1
  <2> QED
    BY <2>1, QueueSame DEF SchedulerInv, Gate
<1>4. \A q \in Queries : moved[q] = phase[q]
  BY <1>1, SchedulerAssumption
<1>5. /\ \A s \in Roots : phase'[s] = "exclusive" <=> moved[s] = "exclusive"
      /\ \A q \in Queries : phase'[q] = "running" <=> moved[q] = "running"
  BY <1>1, <1>2, <1>3, <1>4, WakeKeeps
<1>6. /\ r \in At(Roots, "exclusive")
      /\ At(Roots, "exclusive")' = At(Roots, "exclusive") \ {r}
      /\ At(Queries, "running")' = At(Queries, "running")
  BY <1>1, <1>4, <1>5 DEF At
<1> QED
  BY <1>6 DEF Access!AccessNext, Access!Disown

(* A statement finds the gate open, and whoever it lets in is not inside yet. *)
LEMMA OperationImplements ==
  ASSUME SchedulerInv, SchedulerInv', NEW q \in Queries,
         RequestOperation(q) \/ EnterOperation(q) \/ FinishOperation(q)
  PROVE  Access!AccessNext \/ UNCHANGED <<At(Roots, "exclusive"), At(Queries, "running")>>
<1>1. /\ phase \in [Roots \cup Queries -> Places] /\ q \notin Roots
      /\ Queue(phase, Roots, exclusiveWaiters, "waiting")
      /\ Queue(phase, Queries, slotWaiters, "slot")
  BY SchedulerAssumption DEF SchedulerInv, Gate, Phases, Taken
<1>2. ASSUME NEW operations, NEW moved, Wake(moved, exclusiveActive, operations), ~ exclusiveActive,
             moved \in [Roots \cup Queries -> Places],
             \A r \in Roots : moved[r] = phase[r],
             \A p \in Queries : moved[p] = "waiting" <=> phase[p] = "waiting"
      PROVE  Access!AccessNext
  <2>1. Queue(moved, Roots, exclusiveWaiters, "waiting")
    BY <1>1, <1>2, QueueSame
  <2>2. \A r \in Roots : phase'[r] = "exclusive" <=> phase[r] = "exclusive"
    BY <1>2, <2>1, WakeKeeps
  <2> QED
    BY <1>2, <2>2, Reading
<1>3. ASSUME NEW operations, TakeSlot(q, operations), ~ exclusiveActive, phase[q] # "waiting"
      PROVE  Access!AccessNext
  <2>1. CASE phase' = [phase EXCEPT ![q] = "running"] \/ phase' = [phase EXCEPT ![q] = "slot"]
    <3>1. \A r \in Roots : phase'[r] = phase[r]
      BY <1>1, <2>1
    <3> QED
      BY <1>3, <3>1, Reading
  <2>2. CASE Wake([phase EXCEPT ![q] = "idle"], exclusiveActive, operations - 1)
    <3> DEFINE moved == [phase EXCEPT ![q] = "idle"]
    <3>1. /\ moved \in [Roots \cup Queries -> Places]
          /\ \A r \in Roots : moved[r] = phase[r]
          /\ \A p \in Queries : moved[p] = "waiting" <=> phase[p] = "waiting"
      BY <1>1, <1>3 DEF Places
    <3> HIDE DEF moved
    <3> QED
      BY <1>2, <1>3, <2>2, <3>1 DEF moved
  <2> QED
    BY <1>3, <2>1, <2>2 DEF TakeSlot
<1>4. CASE RequestOperation(q) /\ (exclusiveActive \/ ExclusivePending)
  <2>1. phase' = [phase EXCEPT ![q] = "waiting"] /\ phase[q] = "idle"
    BY <1>4 DEF RequestOperation
  <2> QED
    BY <1>1, <2>1, Stutter
<1>5. CASE RequestOperation(q) /\ ~ (exclusiveActive \/ ExclusivePending)
  <2>1. TakeSlot(q, activeOperations + 1) /\ phase[q] = "idle"
    BY <1>5 DEF RequestOperation
  <2> QED
    BY <1>3, <1>5, <2>1
<1>6. CASE EnterOperation(q)
  <2>1. TakeSlot(q, activeOperations) /\ phase[q] = "admitted"
    BY <1>6 DEF EnterOperation
  <2>2. ~ exclusiveActive
    BY <2>1 DEF SchedulerInv, Gate, Owned, Holding
  <2> QED
    BY <1>3, <2>1, <2>2
<1>7. CASE FinishOperation(q)
  <2>1. phase[q] = "running"
    BY <1>7 DEF FinishOperation
  <2>2. ~ exclusiveActive
    BY <2>1 DEF SchedulerInv, Gate, Owned, Holding
  <2>3. CASE slotWaiters = <<>>
    <3> DEFINE moved == [phase EXCEPT ![q] = "idle"]
    <3>1. Wake(moved, exclusiveActive, activeOperations - 1)
      BY <1>7, <2>3 DEF FinishOperation
    <3>2. /\ moved \in [Roots \cup Queries -> Places]
          /\ \A r \in Roots : moved[r] = phase[r]
          /\ \A p \in Queries : moved[p] = "waiting" <=> phase[p] = "waiting"
      BY <1>1, <2>1 DEF Places
    <3> HIDE DEF moved
    <3> QED
      BY <1>2, <2>2, <3>1, <3>2
  <2>4. CASE slotWaiters # <<>>
    <3> DEFINE h == Head(slotWaiters)
               moved == [phase EXCEPT ![q] = "idle", ![h] = "running"]
    <3>1. Wake(moved, exclusiveActive, activeOperations - 1)
      BY <1>7, <2>4 DEF FinishOperation
    <3>2. h \in Queries /\ phase[h] = "slot" /\ h \notin Roots
      BY <1>1, <2>4, QueueHead, SchedulerAssumption
    <3> HIDE DEF h
    <3>3. /\ moved \in [Roots \cup Queries -> Places]
          /\ \A r \in Roots : moved[r] = phase[r]
          /\ \A p \in Queries : moved[p] = "waiting" <=> phase[p] = "waiting"
      BY <1>1, <2>1, <3>2 DEF Places
    <3> HIDE DEF moved
    <3> QED
      BY <1>2, <2>2, <3>1, <3>3
  <2> QED
    BY <2>3, <2>4
<1> QED
  BY <1>4, <1>5, <1>6, <1>7

(* Implements: the scheduler grants the abstract access to the connection. *)
THEOREM Refinement == SchedulerSpec => Implements
<1>1. SchedulerInv /\ SchedulerInv' /\ [SchedulerNext]_gateVars
        => [Access!AccessNext]_<<At(Roots, "exclusive"), At(Queries, "running")>>
  <2> SUFFICES ASSUME SchedulerInv, SchedulerInv', [SchedulerNext]_gateVars
               PROVE  Access!AccessNext \/ UNCHANGED <<At(Roots, "exclusive"), At(Queries, "running")>>
    OBVIOUS
  <2>1. ASSUME NEW r \in Roots, RequestExclusive(r)
        PROVE  Access!AccessNext \/ UNCHANGED <<At(Roots, "exclusive"), At(Queries, "running")>>
    <3>1. phase \in [Roots \cup Queries -> Places] /\ phase[r] = "idle" /\ r \notin Queries
      BY <2>1, SchedulerAssumption DEF SchedulerInv, Gate, Phases, RequestExclusive
    <3>2. CASE exclusiveActive \/ activeOperations > 0
      <4>1. phase' = [phase EXCEPT ![r] = "waiting"]
        BY <2>1, <3>2 DEF RequestExclusive
      <4> QED
        BY <3>1, <4>1, Stutter
    <3>3. CASE ~ (exclusiveActive \/ activeOperations > 0)
      <4>1. phase' = [phase EXCEPT ![r] = "exclusive"]
        BY <2>1, <3>3 DEF RequestExclusive
      <4>2. Holding(phase) \subseteq Queries
        BY DEF Holding
      <4>3. activeOperations = 0
        BY <3>3, <4>2, Finite DEF SchedulerInv, Gate
      <4> QED
        BY <3>1, <4>1, <4>3, Owning
    <3> QED
      BY <3>2, <3>3
  <2>2. ASSUME NEW r \in Roots, ResumeExclusive(r) PROVE Access!AccessNext
    <3>1. phase' = [phase EXCEPT ![r] = "exclusive"] /\ phase[r] = "handed"
      BY <2>2 DEF ResumeExclusive
    <3>2. exclusiveActive
      BY <3>1 DEF SchedulerInv, Gate, Owned
    <3> QED
      BY <3>1, <3>2, Owning
  <2>3. ASSUME NEW r \in Roots, LeaveExclusive(r) PROVE Access!AccessNext
    BY <2>3, LeavingImplements
  <2>4. CASE UNCHANGED gateVars
    BY <2>4 DEF gateVars, At
  <2> QED
    BY <2>1, <2>2, <2>3, <2>4, OperationImplements DEF SchedulerNext
<1> QED
  BY <1>1, ImplementsInit, SchedulerInvariant, PTL
    DEF SchedulerSpec, Implements, Access!AccessSpec

HIDE SchedulerAssumption
USE TransactionAssumption

-------------------------------------------------------------------------------
(* What makes Separate and Atomic inductive *)

Created == {"open", "returned", "threw"}

(* How often a root transaction has started, and where it runs. *)
RootInv ==
    /\ \A r \in Roots :
         /\ stage[r] \notin {"queued", "saved"}
         /\ stage[r] = "idle" => attempt[r] < MaxAttempts[r]
         /\ stage[r] \notin {"idle", "failed"} => attempt[r] > 0
    /\ \A r \in Running \cap Roots : phase[r] = "exclusive"

(* While a savepoint is under way, the scopes around it are in their callbacks. *)
NestInv ==
    \A s \in Savepoints :
        /\ stage[s] \notin {"conflict", "redo", "committed"}
        /\ stage[s] \notin {"idle", "saved", "failed"}
              => \A t \in Lineage[s] \ {s} : stage[t] = "open"

(* A savepoint is queued in its parent until it ends, and created when it is the first. *)
TurnInv ==
    \A s \in Savepoints :
        /\ stage[s] \in Created \cup {"queued"} => \E i \in DOMAIN turn[Parent[s]] : turn[Parent[s]][i] = s
        /\ stage[s] \in Created => turn[Parent[s]][1] = s

(* Of two created savepoints one is inside the other. *)
ChainInv ==
    \A s, t \in Savepoints :
        {stage[s], stage[t]} \subseteq Created => s \in Lineage[t] \/ t \in Lineage[s]

(* A row of the attempt the scope's root transaction is in, written in the scope. *)
Own(s, row) == row \in Rows /\ s \in Lineage[row[1]] /\ row[2] = attempt[RootOf(s)]

(* A scope that runs has one layer; this layer and those after it hold its own rows. *)
StackInv ==
    /\ \A s \in Running :
         /\ \E i \in DOMAIN layers : layers[i].scope = s
         /\ \A i \in DOMAIN layers : layers[i].scope = s =>
              /\ s \in Roots => i = 1
              /\ \A j \in DOMAIN layers : i <= j =>
                   /\ s \in Lineage[layers[j].scope] /\ (i = j \/ layers[j].scope # s)
                   /\ \A row \in layers[j].rows : Own(s, row)
    /\ \A s \in Savepoints : stage[s] \in {"idle", "queued"} /\ RootOf(s) \in Running =>
         \A i \in DOMAIN layers : layers[i].scope # s

(* A root transaction with a durable row has ended. *)
DurableInv ==
    \A row \in durable :
        LET r == RootOf(row[1])
        IN  /\ row[2] = attempt[r]
            /\ stage[r] = "committed" \/ (stage[r] = "failed" /\ r \notin known)

TransactionInv == RootInv /\ NestInv /\ TurnInv /\ ChainInv /\ StackInv /\ DurableInv

-------------------------------------------------------------------------------
(* The nesting of scopes *)

LEMMA Nested ==
  ASSUME NEW s \in Scopes
  PROVE  Lineage[s] \subseteq Scopes /\ s \in Lineage[s] /\ Enclosing(Lineage[s])
<1>1. \A t \in Scopes : t \in Lineage[s] <=>
        \A C \in SUBSET Scopes : s \in C /\ Enclosing(C) => t \in C
  BY DEF Lineage
<1>2. Lineage[s] \subseteq Scopes /\ s \in Lineage[s]
  BY DEF Lineage
<1>3. ASSUME NEW t \in Lineage[s] \cap Savepoints PROVE Parent[t] \in Lineage[s]
  <2>1. Parent[t] \in Scopes /\ t \in Scopes
    BY <1>2
  <2>2. ASSUME NEW C \in SUBSET Scopes, s \in C, Enclosing(C) PROVE Parent[t] \in C
    <3>1. t \in C
      BY <1>1, <2>1, <2>2
    <3> QED
      BY <2>2, <3>1 DEF Enclosing
  <2> QED
    BY <1>1, <2>1, <2>2
<1> QED
  BY <1>2, <1>3 DEF Enclosing

(* What lies in every enclosing set with s in it: the way to reason about a lineage. *)
LEMMA Least ==
  ASSUME NEW s \in Scopes, NEW C \in SUBSET Scopes, s \in C, Enclosing(C)
  PROVE  Lineage[s] \subseteq C
BY DEF Lineage

LEMMA RootAlone ==
  ASSUME NEW r \in Roots
  PROVE  Lineage[r] = {r}
<1>1. {r} \in SUBSET Scopes /\ Enclosing({r}) /\ r \in Scopes
  BY DEF Scopes, Enclosing
<1> QED
  BY <1>1, Nested, Least

LEMMA LineageStep ==
  ASSUME NEW s \in Savepoints
  PROVE  Parent[s] \in Scopes /\ s \in Scopes /\ Lineage[s] = {s} \cup Lineage[Parent[s]]
<1>1. Parent[s] \in Scopes /\ s \in Scopes
  BY DEF Scopes
<1>2. {s} \cup Lineage[Parent[s]] \in SUBSET Scopes /\ Enclosing({s} \cup Lineage[Parent[s]])
  BY <1>1, Nested DEF Enclosing
<1>3. Parent[s] \in Lineage[s] /\ s \in Lineage[s] /\ Enclosing(Lineage[s]) /\ Lineage[s] \in SUBSET Scopes
  BY <1>1, Nested DEF Enclosing
<1> QED
  BY <1>1, <1>2, <1>3, Least

LEMMA LineageTransitive ==
  ASSUME NEW s \in Scopes, NEW t \in Lineage[s]
  PROVE  t \in Scopes /\ Lineage[t] \subseteq Lineage[s]
<1>1. Lineage[s] \in SUBSET Scopes /\ Enclosing(Lineage[s])
  BY Nested
<1> QED
  BY <1>1, Least

(* The savepoint of s's lineage that was called in t. *)
LEMMA LineageChild ==
  ASSUME NEW s \in Scopes, NEW t \in Lineage[s], t # s
  PROVE  \E c \in Savepoints \cap Lineage[s] : Parent[c] = t
<1> SUFFICES ASSUME \A c \in Savepoints \cap Lineage[s] : Parent[c] # t PROVE FALSE
  OBVIOUS
<1>1. Lineage[s] \ {t} \in SUBSET Scopes /\ s \in Lineage[s] \ {t} /\ Enclosing(Lineage[s] \ {t})
  BY Nested DEF Enclosing
<1> QED
  BY <1>1, Least

LEMMA OneRoot ==
  ASSUME NEW s \in Scopes
  PROVE  /\ RootOf(s) \in Roots /\ RootOf(s) \in Lineage[s]
         /\ \A r \in Roots : r \in Lineage[s] => r = RootOf(s)
<1>1. RootOf(s) \in Roots /\ RootOf(s) \in Lineage[s]
  BY NestingAssumption DEF RootOf
<1> DEFINE C == {t \in Scopes : Lineage[t] \cap Roots = Lineage[s] \cap Roots}
<1>2. C \in SUBSET Scopes /\ s \in C
  OBVIOUS
<1>3. Enclosing(C)
  <2> SUFFICES ASSUME NEW t \in C \cap Savepoints PROVE Parent[t] \in C
    BY DEF Enclosing
  <2>1. Lineage[t] \cap Roots = Lineage[Parent[t]] \cap Roots
    BY LineageStep
  <2> QED
    BY <2>1, LineageStep
<1>4. ASSUME NEW r \in Roots, r \in Lineage[s] PROVE r = RootOf(s)
  <2>1. r \in C
    BY <1>2, <1>3, <1>4, Least
  <2>2. Lineage[s] \cap Roots = {r}
    BY <2>1, RootAlone
  <2> QED
    BY <1>1, <2>2
<1> QED
  BY <1>1, <1>4

LEMMA RootOfRoot ==
  ASSUME NEW r \in Roots
  PROVE  RootOf(r) = r /\ r \in Scopes
BY OneRoot, RootAlone DEF Scopes

LEMMA RootOfInside ==
  ASSUME NEW s \in Scopes, NEW t \in Lineage[s]
  PROVE  t \in Scopes /\ RootOf(t) = RootOf(s)
<1>1. t \in Scopes /\ Lineage[t] \subseteq Lineage[s]
  BY LineageTransitive
<1> QED
  BY <1>1, OneRoot

(* No savepoint is inside itself, for it would be inside no root transaction. *)
LEMMA NoCycle ==
  ASSUME NEW s \in Savepoints
  PROVE  s \notin Lineage[Parent[s]]
<1> SUFFICES ASSUME s \in Lineage[Parent[s]] PROVE FALSE
  OBVIOUS
<1> DEFINE C == {t \in Scopes : s \in Lineage[t]}
<1>1. s \in Scopes /\ C \in SUBSET Scopes /\ s \in C
  BY Nested, LineageStep
<1>2. Enclosing(C)
  <2> SUFFICES ASSUME NEW t \in C \cap Savepoints PROVE Parent[t] \in C
    BY DEF Enclosing
  <2>1. Parent[t] \in Scopes /\ (s = t \/ s \in Lineage[Parent[t]])
    BY LineageStep
  <2> QED
    BY <2>1
<1>3. RootOf(s) \in C /\ RootOf(s) \in Roots
  BY <1>1, <1>2, Least, OneRoot
<1> QED
  BY <1>3, RootAlone

LEMMA Antisymmetric ==
  ASSUME NEW s \in Scopes, NEW t \in Lineage[s], s \in Lineage[t]
  PROVE  s = t
<1> SUFFICES ASSUME s # t PROVE FALSE
  OBVIOUS
<1>1. t \in Scopes /\ Lineage[t] \subseteq Lineage[s]
  BY LineageTransitive
<1>2. s \in Savepoints
  BY RootAlone DEF Scopes
<1>3. t \in Lineage[Parent[s]]
  BY <1>2, LineageStep
<1>4. s \in Lineage[Parent[s]]
  BY <1>2, <1>3, LineageStep, LineageTransitive
<1> QED
  BY <1>2, <1>4, NoCycle

-------------------------------------------------------------------------------
(* The driver's layers *)

Layer == [scope : Scopes, rows : SUBSET (Rows \cup Queries)]

LEMMA PutStep ==
  ASSUME layers \in Seq(Layer), layers # <<>>, NEW row \in Rows \cup Queries, Put(row)
  PROVE  /\ layers' \in Seq(Layer) /\ Len(layers') = Len(layers) /\ durable' = durable
         /\ Len(layers) \in Nat \ {0}
         /\ \A i \in 1 .. Len(layers) :
              /\ layers'[i].scope = layers[i].scope
              /\ layers'[i].rows = IF i = Len(layers) THEN layers[i].rows \cup {row} ELSE layers[i].rows
<1> DEFINE n == Len(layers)
           top == [layers[n] EXCEPT !.rows = @ \cup {row}]
<1>1. n \in Nat \ {0} /\ \A i \in 1 .. n : layers[i] \in Layer
  BY ElementOfSeq, EmptySeq
<1>2. top \in Layer /\ top.scope = layers[n].scope /\ top.rows = layers[n].rows \cup {row}
  BY <1>1 DEF Layer
<1>3. layers' = [layers EXCEPT ![n] = top] /\ durable' = durable
  BY DEF Put
<1> HIDE DEF top
<1>4. layers' \in Seq(Layer) /\ Len(layers') = n
      /\ \A i \in 1 .. n : layers'[i] = IF i = n THEN top ELSE layers[i]
  BY <1>1, <1>2, <1>3, ExceptSeq
<1>7. ASSUME NEW i \in 1 .. Len(layers)
      PROVE  /\ layers'[i].scope = layers[i].scope
             /\ layers'[i].rows = IF i = Len(layers) THEN layers[i].rows \cup {row} ELSE layers[i].rows
  <2>1. CASE i = Len(layers)
    BY <1>1, <1>2, <1>4, <2>1
  <2>2. CASE i # Len(layers)
    BY <1>1, <1>2, <1>4, <2>2
  <2> QED
    BY <2>1, <2>2
<1> QED
  BY <1>1, <1>3, <1>4, <1>7

LEMMA OpenStep ==
  ASSUME layers \in Seq(Layer), NEW s \in Scopes, OpenLayer(s)
  PROVE  /\ layers' \in Seq(Layer) /\ Len(layers) \in Nat /\ Len(layers') = Len(layers) + 1
         /\ \A i \in 1 .. Len(layers) : layers'[i] = layers[i]
         /\ layers'[Len(layers')] = [scope |-> s, rows |-> {}]
         /\ durable' = durable
<1>1. [scope |-> s, rows |-> {}] \in Layer /\ Len(layers) \in Nat
  BY DEF Layer
<1> QED
  BY <1>1, AppendProperties DEF OpenLayer

LEMMA MergeStep ==
  ASSUME layers \in Seq(Layer), NEW i \in DOMAIN layers, i # 1, MergeLayer(i)
  PROVE  /\ layers' \in Seq(Layer) /\ Len(layers) \in Nat /\ i \in 2 .. Len(layers)
         /\ Len(layers') = i - 1 /\ durable' = durable
         /\ \A j \in 1 .. i - 1 :
              /\ layers'[j].scope = layers[j].scope
              /\ layers'[j].rows = IF j = i - 1 THEN layers[j].rows \cup LayerRows(i) ELSE layers[j].rows
<1> DEFINE kept == SubSeq(layers, 1, i - 1)
           top == [kept[i - 1] EXCEPT !.rows = @ \cup LayerRows(i)]
<1>1. Len(layers) \in Nat /\ i \in 2 .. Len(layers) /\ \A j \in 1 .. Len(layers) : layers[j] \in Layer
  BY ElementOfSeq
<1>2. kept \in Seq(Layer) /\ Len(kept) = i - 1 /\ \A j \in 1 .. i - 1 : kept[j] = layers[j]
  BY <1>1, SubSeqProperties
<1>3. layers' = [kept EXCEPT ![i - 1] = top] /\ durable' = durable
  BY <1>1 DEF MergeLayer
<1>4. LayerRows(i) \subseteq Rows \cup Queries
  BY <1>1 DEF LayerRows, Layer
<1> HIDE DEF kept
<1>5. top \in Layer /\ top.scope = layers[i - 1].scope /\ top.rows = layers[i - 1].rows \cup LayerRows(i)
  <2>1. kept[i - 1] = layers[i - 1] /\ layers[i - 1] \in Layer
    BY <1>1, <1>2
  <2> QED
    BY <1>4, <2>1 DEF Layer
<1> HIDE DEF top
<1>6. layers' \in Seq(Layer) /\ Len(layers') = i - 1
      /\ \A j \in 1 .. i - 1 : layers'[j] = IF j = i - 1 THEN top ELSE layers[j]
  BY <1>1, <1>2, <1>3, <1>5, ExceptSeq
<1>7. ASSUME NEW j \in 1 .. i - 1
      PROVE  /\ layers'[j].scope = layers[j].scope
             /\ layers'[j].rows = IF j = i - 1 THEN layers[j].rows \cup LayerRows(i) ELSE layers[j].rows
  <2>1. CASE j = i - 1
    BY <1>1, <1>2, <1>5, <1>6, <2>1
  <2>2. CASE j # i - 1
    BY <1>1, <1>2, <1>5, <1>6, <2>2
  <2> QED
    BY <2>1, <2>2
<1> QED
  BY <1>1, <1>3, <1>5, <1>6, <1>7

LEMMA EmptyStep ==
  ASSUME layers \in Seq(Layer), NEW i \in DOMAIN layers, EmptyLayer(i)
  PROVE  /\ layers' \in Seq(Layer) /\ Len(layers) \in Nat /\ i \in 1 .. Len(layers)
         /\ Len(layers') = i /\ durable' = durable
         /\ \A j \in 1 .. i :
              /\ layers'[j].scope = layers[j].scope
              /\ layers'[j].rows = IF j = i THEN {} ELSE layers[j].rows
<1> DEFINE kept == SubSeq(layers, 1, i)
           top == [kept[i] EXCEPT !.rows = {}]
<1>1. Len(layers) \in Nat /\ i \in 1 .. Len(layers) /\ \A j \in 1 .. Len(layers) : layers[j] \in Layer
  BY ElementOfSeq
<1>2. kept \in Seq(Layer) /\ Len(kept) = i /\ \A j \in 1 .. i : kept[j] = layers[j]
  BY <1>1, SubSeqProperties
<1>3. layers' = [kept EXCEPT ![i] = top] /\ durable' = durable
  BY DEF EmptyLayer
<1> HIDE DEF kept
<1>4. top \in Layer /\ top.scope = layers[i].scope /\ top.rows = {}
  BY <1>1, <1>2 DEF Layer
<1> HIDE DEF top
<1>5. layers' \in Seq(Layer) /\ Len(layers') = i
      /\ \A j \in 1 .. i : layers'[j] = IF j = i THEN top ELSE layers[j]
  BY <1>1, <1>2, <1>3, <1>4, ExceptSeq
<1>7. ASSUME NEW j \in 1 .. i
      PROVE  /\ layers'[j].scope = layers[j].scope
             /\ layers'[j].rows = IF j = i THEN {} ELSE layers[j].rows
  <2>1. CASE j = i
    BY <1>1, <1>2, <1>4, <1>5, <2>1
  <2>2. CASE j # i
    BY <1>1, <1>2, <1>4, <1>5, <2>2
  <2> QED
    BY <2>1, <2>2
<1> QED
  BY <1>1, <1>3, <1>4, <1>5, <1>7

-------------------------------------------------------------------------------
(* The inductive invariant *)

Inv == SchedulerInv /\ TypeOK /\ TransactionInv

Stages == {"idle", "queued", "open", "returned", "threw", "conflict", "undone",
           "redo", "saved", "committed", "failed"}

(* The parts of TypeOK that speak of what the steps below move. *)
Shapes ==
    /\ stage \in [Scopes -> Stages] /\ attempt \in [Roots -> Nat]
    /\ \A r \in Roots : attempt[r] <= MaxAttempts[r]
    /\ turn \in [Scopes -> Seq(Savepoints)]
    /\ layers \in Seq(Layer)

LEMMA Shaped ==
  ASSUME TypeOK
  PROVE  Shapes
BY DEF TypeOK, Shapes, Layer, Stages

LEMMA InitInv == Init => Inv
<1> SUFFICES ASSUME Init PROVE Inv
  OBVIOUS
<1>1. SchedulerInv
  BY InitStep DEF Init
<1>2. TypeOK
  <2>1. SchedulerTypeOK
    <3>1. <<>> \in Seq(Roots) /\ <<>> \in Seq(Queries) /\ 0 \in 0 .. Limit
      BY SchedulerAssumption
    <3> QED
      BY <3>1 DEF Init, SchedulerInit, SchedulerTypeOK
  <2>2. <<>> \in Seq(Savepoints) /\ <<>> \in Seq(Rows) /\ layers \in Seq(Layer)
    BY DEF Init
  <2> QED
    BY <2>1, <2>2 DEF Init, TypeOK, Layer
<1>3. /\ stage \in [Scopes -> {"idle"}] /\ attempt \in [Roots -> {0}] /\ durable = {} /\ Running = {}
      /\ Roots \subseteq Scopes /\ Savepoints \subseteq Scopes
  BY DEF Init, Running, Scopes
<1>4. RootInv
  BY <1>3 DEF RootInv
<1>5. NestInv /\ TurnInv /\ ChainInv
  BY <1>3 DEF NestInv, TurnInv, ChainInv, Created
<1>6. StackInv /\ DurableInv
  BY <1>3 DEF StackInv, DurableInv, Init
<1> QED
  BY <1>1, <1>2, <1>4, <1>5, <1>6 DEF Inv, TransactionInv

(* Every step does to the gate what one of the scheduler's does, or nothing. *)
LEMMA GateStep ==
  ASSUME SchedulerInv, [Next]_vars
  PROVE  SchedulerInv'
<1>1. UNCHANGED gateVars => SchedulerInv'
  BY StutterStep
<1>2. ASSUME NEW r \in Roots, LeaveExclusive(r) \/ RequestExclusive(r) \/ ResumeExclusive(r)
      PROVE  SchedulerInv'
  BY <1>2, LeaveExclusiveStep, RequestExclusiveStep, ResumeExclusiveStep
<1>3. ASSUME NEW r \in Roots, RootStep(r) PROVE SchedulerInv'
  BY <1>1, <1>2, <1>3 DEF RootStep, Request, Resume, BeginTransaction, BeginFails, Commit, CommitFails,
     Rollback, RollbackFails, AfterCommit
<1>4. ASSUME NEW s \in Scopes, ScopeStep(s) PROVE SchedulerInv'
  BY <1>1, <1>4 DEF ScopeStep, RegisterRollback, Write, RegisterCommit, End, AfterRollback, Settled
<1>5. ASSUME NEW s \in Savepoints, SavepointStep(s) PROVE SchedulerInv'
  BY <1>1, <1>5 DEF SavepointStep, Start, CreateSavepoint, ReleaseSavepoint, ReleaseFails,
     RollbackToSavepoint, RollbackToFails
<1>6. ASSUME NEW q \in Queries, Statement(q) PROVE SchedulerInv'
  BY <1>6, RequestOperationStep, EnterOperationStep, FinishOperationStep DEF Statement
<1>7. CASE UNCHANGED vars
  BY <1>1, <1>7 DEF vars
<1> QED
  BY <1>3, <1>4, <1>5, <1>6, <1>7 DEF Next

-------------------------------------------------------------------------------
(* What the invariant says of the scopes that run *)

LEMMA UnderWay ==
  ASSUME Inv, NEW s \in Savepoints, stage[s] \notin {"idle", "saved", "failed"}
  PROVE  /\ stage[Parent[s]] = "open" /\ \A t \in Lineage[Parent[s]] : stage[t] = "open"
         /\ stage[RootOf(s)] = "open" /\ RootOf(s) \in Running \cap Roots
         /\ RootOf(s) = RootOf(Parent[s])
<1>1. /\ Lineage[s] = {s} \cup Lineage[Parent[s]] /\ s \notin Lineage[Parent[s]]
      /\ Parent[s] \in Lineage[Parent[s]] /\ s \in Scopes
  BY LineageStep, NoCycle, Nested
<1>2. \A t \in Lineage[Parent[s]] : stage[t] = "open"
  BY <1>1 DEF Inv, TransactionInv, NestInv
<1>3. RootOf(s) \in Roots /\ RootOf(s) \in Lineage[s] /\ RootOf(s) # s
  BY <1>1, OneRoot
<1>4. RootOf(Parent[s]) = RootOf(s)
  BY <1>1, RootOfInside
<1> QED
  BY <1>1, <1>2, <1>3, <1>4 DEF Running, Scopes

LEMMA RootRuns ==
  ASSUME Inv, NEW s \in Running
  PROVE  s \in Scopes /\ RootOf(s) \in Running \cap Roots
<1>1. s \in Scopes
  BY DEF Running
<1>2. CASE s \in Roots
  BY <1>1, <1>2, RootOfRoot
<1>3. CASE s \in Savepoints
  BY <1>3, UnderWay DEF Running
<1> QED
  BY <1>1, <1>2, <1>3 DEF Scopes

(* The gate lets one root transaction run. *)
LEMMA OneRuns ==
  ASSUME Inv, NEW r \in Roots, phase[r] = "exclusive", NEW s \in Running
  PROVE  RootOf(s) = r
<1>1. RootOf(s) \in Roots /\ phase[RootOf(s)] = "exclusive"
  BY RootRuns DEF Inv, TransactionInv, RootInv
<1> QED
  BY <1>1 DEF Inv, SchedulerInv, Gate, Owned

LEMMA NoStatement ==
  ASSUME Inv, NEW s \in Running, NEW q \in Queries
  PROVE  phase[q] \in {"idle", "waiting"} /\ exclusiveActive
<1>1. RootOf(s) \in Roots /\ phase[RootOf(s)] = "exclusive"
  BY RootRuns DEF Inv, TransactionInv, RootInv
<1> QED
  BY <1>1 DEF Inv, SchedulerInv, Gate, Owned, Holding, Phases

(* The name of a scope that runs is a row, of the attempt its root is in. *)
LEMMA NameIsRow ==
  ASSUME Inv, NEW s \in Running
  PROVE  Name(s) \in Rows /\ Own(s, Name(s))
<1>1. s \in Scopes /\ RootOf(s) \in Running \cap Roots
  BY RootRuns
<1>2. attempt[RootOf(s)] \in 1 .. MaxAttempts[RootOf(s)]
  <2>1. attempt[RootOf(s)] \in Nat /\ attempt[RootOf(s)] <= MaxAttempts[RootOf(s)]
    BY <1>1, Shaped DEF Inv, Shapes
  <2>2. attempt[RootOf(s)] > 0
    BY <1>1 DEF Inv, TransactionInv, RootInv, Running
  <2>3. MaxAttempts[RootOf(s)] \in Nat
    BY <1>1
  <2> QED
    BY <2>1, <2>2, <2>3
<1>3. Name(s) \in {s} \X (1 .. MaxAttempts[RootOf(s)])
  BY <1>2 DEF Name
<1>4. Name(s) \in Rows
  BY <1>1, <1>3 DEF Rows
<1> QED
  BY <1>1, <1>4, Nested DEF Own, Name

(* The next attempt starts with every scope of the transaction idle. *)
LEMMA RetryStage ==
  ASSUME Inv, NEW r \in Roots, NEW n, Retry(r, n)
  PROVE  /\ stage' \in [Scopes -> Stages] /\ stage'[r] = "idle" /\ turn' = turn
         /\ \A s \in Scopes : stage'[s] = IF r \in Lineage[s] THEN "idle" ELSE stage[s]
         /\ \A s \in Roots \ {r} : stage'[s] = stage[s]
<1>1. stage \in [Scopes -> Stages] /\ r \in Scopes
  BY Shaped DEF Inv, Shapes, Scopes
<1>2. r \in Lineage[r]
  BY <1>1, Nested
<1>3. stage' = [Reset(r, stage, "idle") EXCEPT ![r] = "idle"] /\ turn' = turn
  BY DEF Retry
<1>4. \A s \in Scopes : stage'[s] = IF r \in Lineage[s] THEN "idle" ELSE stage[s]
  BY <1>1, <1>2, <1>3 DEF Reset
<1>5. stage' \in [Scopes -> Stages]
  BY <1>1, <1>3 DEF Reset, Stages
<1>6. \A s \in Roots \ {r} : r \notin Lineage[s] /\ s \in Scopes
  BY RootAlone DEF Scopes
<1> QED
  BY <1>1, <1>2, <1>3, <1>4, <1>5, <1>6

LEMMA GiveUpStage ==
  ASSUME Inv, NEW s \in Scopes, GiveUp(s)
  PROVE  /\ stage' \in [Scopes -> Stages] /\ stage'[s] = "failed" /\ turn' = turn
         /\ \A t \in Scopes \ {s} : stage'[t] = stage[t]
BY Shaped DEF Inv, Shapes, GiveUp, Stages

(* A root transaction that leaves the gate has stopped, and no other one runs. *)
LEMMA LeavesNone ==
  ASSUME Inv, NEW r \in Roots,
         BeginFails(r) \/ Commit(r) \/ CommitFails(r) \/ Rollback(r) \/ RollbackFails(r)
  PROVE  /\ LeaveExclusive(r) /\ phase[r] = "exclusive" /\ stage'[r] \notin {"open", "returned", "threw", "conflict"}
         /\ \A s \in Roots \ {r} : stage'[s] = stage[s] /\ s \notin Running
         /\ \A s \in Roots : s \notin Running'
<1>1. LeaveExclusive(r) /\ phase[r] = "exclusive"
  BY DEF BeginFails, Commit, CommitFails, Rollback, RollbackFails, LeaveExclusive
<1>2. \A s \in Roots : s \in Scopes
  BY DEF Scopes
<1>3. /\ stage'[r] \notin {"open", "returned", "threw", "conflict"}
      /\ \A s \in Roots \ {r} : stage'[s] = stage[s]
  <2>1. CASE \E n : Retry(r, n)
    BY <2>1, RetryStage
  <2>2. CASE GiveUp(r)
    BY <1>2, <2>2, GiveUpStage
  <2>3. CASE Commit(r) \/ Rollback(r)
    BY <1>2, <2>3, Shaped DEF Commit, Rollback, Inv, Shapes
  <2> QED
    BY <2>1, <2>2, <2>3 DEF BeginFails, CommitFails, RollbackFails
<1>4. \A s \in Roots \ {r} : s \notin Running
  BY <1>1, OneRuns, RootOfRoot
<1> QED
  BY <1>1, <1>2, <1>3, <1>4 DEF Running

LEMMA RootStays ==
  ASSUME Inv, [Next]_vars
  PROVE  RootInv'
<1>1. /\ stage \in [Scopes -> Stages] /\ attempt \in [Roots -> Nat] /\ Roots \subseteq Scopes
      /\ \A s \in Savepoints : s \notin Roots /\ s \in Scopes
      /\ \A r \in Roots : MaxAttempts[r] \in Nat /\ attempt[r] <= MaxAttempts[r]
      /\ phase \in [Roots \cup Queries -> Places] /\ Roots \cap Queries = {}
  BY Shaped, SchedulerAssumption DEF Inv, Shapes, Scopes, SchedulerInv, Gate, Phases
<1>2. \A r \in Roots :
        /\ stage[r] \notin {"queued", "saved"}
        /\ stage[r] = "idle" => attempt[r] < MaxAttempts[r]
        /\ stage[r] \notin {"idle", "failed"} => attempt[r] > 0
        /\ r \in Running => phase[r] = "exclusive"
  BY DEF Inv, TransactionInv, RootInv
<1> DEFINE Unmoved == UNCHANGED attempt /\ \A r \in Roots : stage'[r] = stage[r]
<1>3. ASSUME Unmoved, \A r \in Running \cap Roots : phase'[r] = "exclusive" PROVE RootInv'
  BY <1>1, <1>2, <1>3 DEF RootInv, Running
<1>4. ASSUME UNCHANGED <<phase, attempt, stage>> PROVE RootInv'
  BY <1>2, <1>3, <1>4
<1>5. ASSUME NEW r \in Roots, Request(r) \/ Resume(r) PROVE RootInv'
  <2>1. /\ UNCHANGED <<stage, attempt>>
        /\ \A s \in Roots : phase[s] = "exclusive" => phase'[s] = "exclusive"
    BY <1>1, <1>5 DEF Request, Resume, RequestExclusive, ResumeExclusive, scopeVars
  <2> QED
    BY <1>2, <1>3, <2>1
<1>6. ASSUME NEW r \in Roots, BeginTransaction(r) PROVE RootInv'
  BY <1>1, <1>2, <1>6 DEF BeginTransaction, RootInv, Running, gateVars
<1>7. ASSUME NEW r \in Roots,
             BeginFails(r) \/ Commit(r) \/ CommitFails(r) \/ Rollback(r) \/ RollbackFails(r)
      PROVE  RootInv'
  <2>1. \A s \in Roots : s \notin Running' /\ (s # r => stage'[s] = stage[s])
    BY <1>7, LeavesNone
  <2>2. CASE BeginFails(r)
    <3>1. attempt' = [attempt EXCEPT ![r] = @ + 1] /\ stage[r] = "idle"
      BY <2>2 DEF BeginFails
    <3>2. \/ stage'[r] = "failed"
          \/ stage'[r] = "idle" /\ attempt[r] + 1 < MaxAttempts[r]
      BY <1>1, <2>2, RetryStage, GiveUpStage DEF BeginFails, Retry
    <3> QED
      BY <1>1, <1>2, <2>1, <3>1, <3>2 DEF RootInv
  <2>3. CASE CommitFails(r) \/ RollbackFails(r)
    <3>1. UNCHANGED attempt
      BY <2>3 DEF CommitFails, RollbackFails
    <3>2. \/ stage'[r] = "failed"
          \/ stage'[r] = "idle" /\ attempt[r] < MaxAttempts[r]
      BY <1>1, <2>3, RetryStage, GiveUpStage DEF CommitFails, RollbackFails, Retry
    <3> QED
      BY <1>1, <1>2, <2>1, <3>1, <3>2 DEF RootInv
  <2>4. CASE Commit(r) \/ Rollback(r)
    <3>1. /\ UNCHANGED attempt /\ stage[r] \notin {"idle", "failed"}
          /\ stage'[r] \in {"committed", "undone", "redo"}
      BY <1>1, <2>4 DEF Commit, Rollback
    <3> QED
      BY <1>1, <1>2, <2>1, <3>1 DEF RootInv
  <2> QED
    BY <1>7, <2>2, <2>3, <2>4
<1>8. ASSUME NEW s \in Scopes, RegisterRollback(s) \/ Write(s) \/ RegisterCommit(s) PROVE RootInv'
  BY <1>4, <1>8 DEF RegisterRollback, Write, RegisterCommit, gateVars
<1>9. ASSUME NEW s \in Scopes, End(s) \/ AfterRollback(s) PROVE RootInv'
  BY <1>1, <1>2, <1>9 DEF End, AfterRollback, InCallback, RootInv, Running, gateVars
<1>10. ASSUME NEW s \in Scopes, Settled(s) PROVE RootInv'
  <2>1. UNCHANGED <<phase, attempt>> /\ stage[s] \in {"undone", "redo"}
    BY <1>10 DEF Settled, gateVars
  <2>2. CASE s \in Roots
    <3>1. /\ \A t \in Roots \ {s} : stage'[t] = stage[t]
          /\ \/ stage'[s] = "failed"
             \/ stage'[s] = "idle" /\ attempt[s] < MaxAttempts[s]
      BY <1>1, <1>10, <2>2, RetryStage, GiveUpStage DEF Settled, Retry
    <3> QED
      BY <1>1, <1>2, <2>1, <3>1 DEF RootInv, Running
  <2>3. CASE s \in Savepoints
    <3>1. stage[s] # "redo"
      BY <2>3 DEF Inv, TransactionInv, NestInv
    <3>2. GiveUp(s)
      BY <1>10, <3>1 DEF Settled
    <3>3. \A t \in Roots : stage'[t] = stage[t]
      BY <1>1, <2>3, <3>2, GiveUpStage
    <3> QED
      BY <1>2, <1>3, <2>1, <3>3
  <2> QED
    BY <2>2, <2>3 DEF Scopes
<1>11. ASSUME NEW s \in Savepoints, SavepointStep(s) PROVE RootInv'
  <2>1. UNCHANGED <<phase, attempt>> /\ \A r \in Roots : stage'[r] = stage[r]
    BY <1>1, <1>11 DEF SavepointStep, Start, CreateSavepoint, ReleaseSavepoint, ReleaseFails,
       RollbackToSavepoint, RollbackToFails, gateVars
  <2> QED
    BY <1>2, <1>3, <2>1
<1>12. ASSUME NEW q \in Queries, Statement(q) PROVE RootInv'
  <2>1. UNCHANGED <<attempt, stage>>
    BY <1>12 DEF Statement, scopeVars
  <2>2. ASSUME NEW r \in Running \cap Roots PROVE phase'[r] = "exclusive"
    <3>1. phase[q] \in {"idle", "waiting"} /\ exclusiveActive
      BY <2>2, NoStatement
    <3>2. phase' = [phase EXCEPT ![q] = "waiting"]
      BY <1>12, <3>1 DEF Statement, RequestOperation, EnterOperation, FinishOperation
    <3> QED
      BY <1>1, <1>2, <3>2
  <2> QED
    BY <1>3, <2>1, <2>2
<1>13. ASSUME NEW r \in Roots, AfterCommit(r) PROVE RootInv'
  BY <1>4, <1>13 DEF AfterCommit, gateVars, scopeVars
<1>14. CASE UNCHANGED vars
  BY <1>4, <1>14 DEF vars, gateVars, scopeVars
<1> QED
  BY <1>5, <1>6, <1>7, <1>8, <1>9, <1>10, <1>11, <1>12, <1>13, <1>14 DEF Next, RootStep, ScopeStep

Over == {"idle", "saved", "failed"}

(* A callback that goes on awaited the savepoints it had called. *)
LEMMA NoneInside ==
  ASSUME Inv, NEW t \in Scopes, stage[t] # "open" \/ \A c \in Savepoints : Parent[c] = t => stage[c] \in Over,
         NEW s \in Savepoints, t \in Lineage[s], t # s
  PROVE  stage[s] \in Over
<1> SUFFICES ASSUME stage[s] \notin Over PROVE FALSE
  OBVIOUS
<1>1. s \in Scopes /\ \A u \in Lineage[s] \ {s} : stage[u] = "open"
  BY LineageStep DEF Inv, TransactionInv, NestInv, Over
<1>2. PICK c \in Savepoints \cap Lineage[s] : Parent[c] = t
  BY <1>1, LineageChild
<1>3. stage[c] \in Over
  BY <1>1, <1>2
<1> QED
  BY <1>1, <1>3 DEF Over

(* One scope goes on to another stage. *)
LEMMA NestMove ==
  ASSUME Inv, NEW x \in Scopes, NEW v, stage' = [stage EXCEPT ![x] = v],
         x \in Savepoints => /\ v \notin {"conflict", "redo", "committed"}
                             /\ v \in Over \/ stage[x] \notin Over \/ \A t \in Lineage[x] \ {x} : stage[t] = "open",
         stage[x] = "open" => v = "open" \/ \A c \in Savepoints : Parent[c] = x => stage[c] \in Over
  PROVE  NestInv'
<1>1. /\ stage'[x] = v /\ \A s \in Scopes \ {x} : stage'[s] = stage[s]
      /\ \A s \in Savepoints : s \in Scopes /\ Lineage[s] \subseteq Scopes
  BY Shaped, Nested DEF Inv, Shapes, Scopes
<1>2. ASSUME NEW s \in Savepoints, stage'[s] \notin Over, NEW t \in Lineage[s] \ {s}
      PROVE  stage'[t] = "open"
  <2>1. stage[t] = "open"
    <3>1. CASE s = x /\ stage[x] \in Over
      BY <1>1, <1>2, <3>1
    <3>2. CASE s # x \/ stage[x] \notin Over
      BY <1>1, <1>2, <3>2 DEF Inv, TransactionInv, NestInv, Over
    <3> QED
      BY <3>1, <3>2
  <2>2. t = x => v = "open"
    <3> SUFFICES ASSUME t = x, v # "open" PROVE FALSE
      OBVIOUS
    <3>1. stage[s] \in Over
      BY <2>1, <1>2, NoneInside
    <3> QED
      BY <1>1, <1>2, <3>1
  <2> QED
    BY <1>1, <1>2, <2>1, <2>2
<1>3. \A s \in Savepoints : stage'[s] \notin {"conflict", "redo", "committed"}
  BY <1>1 DEF Inv, TransactionInv, NestInv
<1> QED
  BY <1>2, <1>3 DEF NestInv, Over

(* All of a transaction that had stopped is idle again. *)
LEMMA NestRetry ==
  ASSUME Inv, NEW r \in Roots, NEW n, Retry(r, n), stage[r] # "open"
  PROVE  NestInv'
<1>1. \A s \in Scopes : stage'[s] = IF r \in Lineage[s] THEN "idle" ELSE stage[s]
  BY RetryStage
<1>2. ASSUME NEW s \in Savepoints, NEW t \in Lineage[s] \ {s}, stage'[s] \notin Over
      PROVE  stage'[t] = "open"
  <2>1. s \in Scopes /\ t \in Scopes /\ Lineage[t] \subseteq Lineage[s]
    BY LineageTransitive DEF Scopes
  <2>2. r \notin Lineage[s] /\ stage[s] \notin Over
    BY <1>1, <1>2, <2>1 DEF Over
  <2>3. stage[t] = "open"
    BY <1>2, <2>2 DEF Inv, TransactionInv, NestInv, Over
  <2> QED
    BY <1>1, <2>1, <2>2, <2>3
<1>3. \A s \in Savepoints : stage'[s] \notin {"conflict", "redo", "committed"}
  BY <1>1 DEF Inv, TransactionInv, NestInv, Scopes
<1> QED
  BY <1>2, <1>3 DEF NestInv, Over

LEMMA NestStays ==
  ASSUME Inv, Structured, [Next]_vars
  PROVE  NestInv'
<1>1. /\ stage \in [Scopes -> Stages] /\ Roots \subseteq Scopes
      /\ \A s \in Savepoints : s \notin Roots /\ s \in Scopes /\ Parent[s] \in Scopes
      /\ \A s \in Savepoints : stage[s] \notin {"conflict", "redo", "committed"}
      /\ \A r \in Roots : stage[r] \notin {"queued", "saved"}
  BY Shaped DEF Inv, Shapes, Scopes, TransactionInv, NestInv, RootInv
<1>2. ASSUME UNCHANGED stage PROVE NestInv'
  BY <1>2 DEF Inv, TransactionInv, NestInv
<1>3. ASSUME NEW r \in Roots,
             \/ Request(r) \/ Resume(r) \/ AfterCommit(r)
      PROVE  NestInv'
  BY <1>2, <1>3 DEF Request, Resume, AfterCommit, scopeVars
<1>4. ASSUME NEW r \in Roots, NEW n, Retry(r, n), stage[r] # "open" PROVE NestInv'
  BY <1>4, NestRetry
<1>5. ASSUME NEW s \in Scopes, GiveUp(s), stage[s] # "open" PROVE NestInv'
  BY <1>5, NestMove DEF GiveUp, Over
<1>6. ASSUME NEW r \in Roots, BeginTransaction(r) \/ Commit(r) \/ Rollback(r) PROVE NestInv'
  <2>1. PICK v \in Stages : stage' = [stage EXCEPT ![r] = v]
    BY <1>6 DEF BeginTransaction, Commit, Rollback, Stages
  <2>2. stage[r] # "open" /\ r \notin Savepoints
    BY <1>1, <1>6 DEF BeginTransaction, Commit, Rollback
  <2> QED
    BY <1>1, <2>1, <2>2, NestMove
<1>7. ASSUME NEW r \in Roots, BeginFails(r) \/ CommitFails(r) \/ RollbackFails(r) PROVE NestInv'
  <2>1. stage[r] # "open" /\ (GiveUp(r) \/ \E n : Retry(r, n))
    BY <1>7 DEF BeginFails, CommitFails, RollbackFails
  <2> QED
    BY <1>1, <1>4, <1>5, <2>1
<1>8. ASSUME NEW s \in Scopes, RegisterRollback(s) \/ Write(s) \/ RegisterCommit(s) PROVE NestInv'
  BY <1>2, <1>8 DEF RegisterRollback, Write, RegisterCommit
<1>9. ASSUME NEW s \in Scopes, End(s) PROVE NestInv'
  <2>1. PICK v \in {"returned", "threw"} \cup (IF s \in Roots THEN {"conflict"} ELSE {}) :
          stage' = [stage EXCEPT ![s] = v]
    BY <1>9 DEF End
  <2>2. stage[s] = "open" /\ \A c \in Savepoints : Parent[c] = s => stage[c] \in Over
    BY <1>9 DEF End, InCallback, Over
  <2> QED
    BY <1>1, <2>1, <2>2, NestMove DEF Over
<1>10. ASSUME NEW s \in Scopes, AfterRollback(s) PROVE NestInv'
  <2>1. stage' = stage \/ stage' = [stage EXCEPT ![s] = "undone"]
    BY <1>10 DEF AfterRollback
  <2>2. stage[s] \in {"undone", "redo"}
    BY <1>10 DEF AfterRollback
  <2> QED
    BY <1>2, <2>1, <2>2, NestMove DEF Over
<1>11. ASSUME NEW s \in Scopes, Settled(s) PROVE NestInv'
  <2>1. stage[s] # "open" /\ (GiveUp(s) \/ (s \in Roots /\ \E n : Retry(s, n)))
    BY <1>1, <1>11 DEF Settled, Scopes
  <2> QED
    BY <1>4, <1>5, <2>1
<1>12. ASSUME NEW s \in Savepoints, Start(s) PROVE NestInv'
  <2>1. /\ stage[Parent[s]] = "open" /\ Lineage[s] = {s} \cup Lineage[Parent[s]]
        /\ stage' = [stage EXCEPT ![s] = "queued"] /\ stage[s] = "idle"
    BY <1>12, LineageStep DEF Start
  <2>2. \A t \in Lineage[Parent[s]] : stage[t] = "open"
    <3>1. CASE Parent[s] \in Roots
      BY <2>1, <3>1, RootAlone
    <3>2. CASE Parent[s] \in Savepoints
      BY <2>1, <3>2 DEF Inv, TransactionInv, NestInv
    <3> QED
      BY <1>1, <3>1, <3>2 DEF Scopes
  <2> QED
    BY <1>1, <2>1, <2>2, NestMove
<1>13. ASSUME NEW s \in Savepoints,
             \/ CreateSavepoint(s) \/ ReleaseSavepoint(s) \/ ReleaseFails(s)
             \/ RollbackToSavepoint(s) \/ RollbackToFails(s)
      PROVE  NestInv'
  <2>1. stage[s] \in {"queued", "returned", "threw"}
    BY <1>13 DEF CreateSavepoint, ReleaseSavepoint, ReleaseFails, RollbackToSavepoint, RollbackToFails
  <2>2. \E v \in {"open", "failed", "saved", "threw", "undone"} : stage' = [stage EXCEPT ![s] = v]
    BY <1>13 DEF CreateSavepoint, ReleaseSavepoint, ReleaseFails, RollbackToSavepoint, RollbackToFails
  <2> QED
    BY <1>1, <2>1, <2>2, NestMove DEF Over
<1>14. ASSUME NEW q \in Queries, Statement(q) PROVE NestInv'
  BY <1>2, <1>14 DEF Statement, scopeVars
<1>15. CASE UNCHANGED vars
  BY <1>2, <1>15 DEF vars, scopeVars
<1> QED
  BY <1>3, <1>6, <1>7, <1>8, <1>9, <1>10, <1>11, <1>12, <1>13, <1>14, <1>15
     DEF Next, RootStep, ScopeStep, SavepointStep

Placed == Created \cup {"queued"}

(* A queue that stays as it is. *)
LEMMA TurnKept ==
  ASSUME Inv, turn' = turn,
         \A s \in Savepoints : /\ stage'[s] \in Placed => stage[s] \in Placed
                               /\ stage'[s] \in Created => stage[s] \in Created \/ turn[Parent[s]][1] = s
  PROVE  TurnInv'
BY DEF Inv, TransactionInv, TurnInv, Placed

(* The savepoint that runs is the first in its parent's queue, and leaves it. *)
LEMMA TurnLeft ==
  ASSUME Inv, NEW u \in Savepoints, stage[u] \in Placed, turn[Parent[u]][1] = u,
         turn' = [turn EXCEPT ![Parent[u]] = Tail(@)],
         NEW v, v \notin Placed, stage' = [stage EXCEPT ![u] = v]
  PROVE  TurnInv'
<1>1. /\ stage'[u] = v /\ \A s \in Scopes \ {u} : stage'[s] = stage[s]
      /\ turn \in [Scopes -> Seq(Savepoints)] /\ \A s \in Savepoints : Parent[s] \in Scopes /\ s \in Scopes
  BY Shaped DEF Inv, Shapes, Scopes
<1>2. /\ turn'[Parent[u]] = Tail(turn[Parent[u]])
      /\ \A p \in Scopes \ {Parent[u]} : turn'[p] = turn[p]
  BY <1>1
<1> DEFINE w == turn[Parent[u]]
<1>3. w \in Seq(Savepoints) /\ Len(w) \in Nat \ {0} /\ w[1] = u
  <2>1. \E i \in DOMAIN w : w[i] = u
    BY DEF Inv, TransactionInv, TurnInv, Placed
  <2>2. w \in Seq(Savepoints) /\ Len(w) \in Nat /\ DOMAIN w = 1 .. Len(w)
    BY <1>1
  <2> QED
    BY <2>1, <2>2
<1>4. DOMAIN Tail(w) = 1 .. (Len(w) - 1) /\ \A i \in 1 .. (Len(w) - 1) : Tail(w)[i] = w[i + 1]
  BY <1>3
<1>5. ASSUME NEW s \in Savepoints, stage'[s] \in Placed
      PROVE  /\ \E i \in DOMAIN turn'[Parent[s]] : turn'[Parent[s]][i] = s
             /\ stage'[s] \in Created => turn'[Parent[s]][1] = s
  <2>1. s # u /\ stage'[s] = stage[s]
    BY <1>1, <1>5
  <2>2. PICK i \in DOMAIN turn[Parent[s]] : turn[Parent[s]][i] = s
    BY <1>5, <2>1 DEF Inv, TransactionInv, TurnInv, Placed
  <2>3. stage[s] \in Created => turn[Parent[s]][1] = s
    BY DEF Inv, TransactionInv, TurnInv
  <2>4. CASE Parent[s] # Parent[u]
    BY <1>1, <1>2, <2>1, <2>2, <2>3, <2>4
  <2>5. CASE Parent[s] = Parent[u]
    <3>1. i \in 1 .. Len(w) /\ w[i] = s /\ i # 1
      BY <1>3, <2>1, <2>2, <2>5
    <3>2. i - 1 \in 1 .. (Len(w) - 1) /\ Tail(w)[i - 1] = s
      BY <1>3, <1>4, <3>1
    <3> HIDE DEF w
    <3>3. \E j \in DOMAIN turn'[Parent[s]] : turn'[Parent[s]][j] = s
      BY <1>2, <1>4, <2>5, <3>2 DEF w
    <3> QED
      BY <1>3, <2>1, <2>3, <2>5, <3>3 DEF w
  <2> QED
    BY <2>4, <2>5
<1> QED
  BY <1>5 DEF TurnInv, Placed

LEMMA TurnJoined ==
  ASSUME Inv, NEW u \in Savepoints, Start(u)
  PROVE  TurnInv'
<1>1. /\ stage'[u] = "queued" /\ \A s \in Scopes \ {u} : stage'[s] = stage[s]
      /\ turn \in [Scopes -> Seq(Savepoints)] /\ \A s \in Savepoints : Parent[s] \in Scopes /\ s \in Scopes
  BY Shaped DEF Inv, Shapes, Scopes, Start
<1> DEFINE w == turn[Parent[u]]
<1>2. /\ turn'[Parent[u]] = Append(w, u)
      /\ \A p \in Scopes \ {Parent[u]} : turn'[p] = turn[p]
  BY <1>1 DEF Start
<1>3. w \in Seq(Savepoints) /\ Len(w) \in Nat
  BY <1>1
<1>4. /\ DOMAIN Append(w, u) = 1 .. (Len(w) + 1) /\ DOMAIN w = 1 .. Len(w)
      /\ \A i \in 1 .. Len(w) : Append(w, u)[i] = w[i]
      /\ Append(w, u)[Len(w) + 1] = u
  BY <1>3
<1>5. ASSUME NEW s \in Savepoints, stage'[s] \in Placed
      PROVE  /\ \E i \in DOMAIN turn'[Parent[s]] : turn'[Parent[s]][i] = s
             /\ stage'[s] \in Created => turn'[Parent[s]][1] = s
  <2>1. CASE s = u
    <3>1. Len(w) + 1 \in DOMAIN turn'[Parent[s]] /\ turn'[Parent[s]][Len(w) + 1] = s
      BY <1>2, <1>3, <1>4, <2>1
    <3> QED
      BY <1>1, <2>1, <3>1 DEF Created
  <2>2. CASE s # u
    <3>1. PICK i \in DOMAIN turn[Parent[s]] : turn[Parent[s]][i] = s
      BY <1>1, <1>5, <2>2 DEF Inv, TransactionInv, TurnInv, Placed
    <3>2. stage[s] \in Created => turn[Parent[s]][1] = s
      BY DEF Inv, TransactionInv, TurnInv
    <3>3. CASE Parent[s] # Parent[u]
      BY <1>1, <1>2, <2>2, <3>1, <3>2, <3>3
    <3>4. CASE Parent[s] = Parent[u]
      <4>1. i \in 1 .. Len(w) /\ 1 \in 1 .. Len(w)
        BY <1>3, <1>4, <3>1, <3>4
      <4>2. turn'[Parent[s]] = Append(w, u) /\ turn[Parent[s]] = w
        BY <1>2, <3>4
      <4> HIDE DEF w
      <4>3. \A j \in 1 .. Len(w) : turn'[Parent[s]][j] = turn[Parent[s]][j] /\ j \in DOMAIN turn'[Parent[s]]
        <5>1. \A j \in 1 .. Len(w) : j \in 1 .. (Len(w) + 1)
          BY <1>3
        <5> QED
          BY <1>4, <4>2, <5>1, Zenon
      <4> QED
        BY <1>1, <2>2, <3>1, <3>2, <4>1, <4>3
    <3> QED
      BY <3>3, <3>4
  <2> QED
    BY <2>1, <2>2
<1> QED
  BY <1>5 DEF TurnInv, Placed

(* The stages of savepoints, but for one of them and for a retry. *)
LEMMA SavepointStages ==
  ASSUME Inv, [Next]_vars, NEW s \in Savepoints, stage'[s] # stage[s], ~ SavepointStep(s)
  PROVE  stage'[s] \in {"idle", "returned", "threw", "failed"} /\ (stage'[s] \in Created => stage[s] = "open")
<1>1. /\ stage \in [Scopes -> Stages] /\ Roots \subseteq Scopes
      /\ s \notin Roots /\ s \in Scopes /\ \A u \in Savepoints : u \in Scopes
      /\ stage[s] \notin {"conflict", "redo", "committed"}
  BY Shaped DEF Inv, Shapes, Scopes, TransactionInv, NestInv
<1>2. ASSUME NEW r \in Roots, RootStep(r) PROVE stage'[s] = "idle"
  <2>1. ASSUME NEW n, Retry(r, n) PROVE stage'[s] = "idle"
    BY <1>1, <2>1, RetryStage
  <2>2. ~ GiveUp(r)
    BY <1>1, GiveUpStage
  <2> QED
    BY <1>1, <1>2, <2>1, <2>2 DEF RootStep, Request, Resume, BeginTransaction, BeginFails, Commit,
       CommitFails, Rollback, RollbackFails, AfterCommit, scopeVars
<1>3. ASSUME NEW t \in Scopes, ScopeStep(t)
      PROVE  stage'[s] \in {"idle", "returned", "threw", "failed"} /\ (stage'[s] \in Created => stage[s] = "open")
  <2>1. CASE RegisterRollback(t) \/ Write(t) \/ RegisterCommit(t)
    BY <2>1 DEF RegisterRollback, Write, RegisterCommit
  <2>2. CASE End(t)
    BY <1>1, <2>2 DEF End, InCallback
  <2>3. CASE AfterRollback(t)
    BY <1>1, <2>3 DEF AfterRollback
  <2>4. CASE Settled(t)
    <3>1. CASE GiveUp(t)
      BY <1>1, <3>1, GiveUpStage DEF Created
    <3>2. ASSUME t \in Roots, NEW n, Retry(t, n)
          PROVE  stage'[s] = "idle"
      BY <1>1, <3>2, RetryStage
    <3>3. t \in Savepoints => GiveUp(t)
      BY <2>4 DEF Settled, Inv, TransactionInv, NestInv
    <3> QED
      BY <2>4, <3>1, <3>2, <3>3 DEF Settled, Scopes, Created
  <2> QED
    BY <1>3, <2>1, <2>2, <2>3, <2>4 DEF ScopeStep
<1>4. ASSUME NEW u \in Savepoints, SavepointStep(u) PROVE FALSE
  <2>1. u # s
    BY <1>4
  <2> QED
    BY <1>1, <1>4, <2>1 DEF SavepointStep, Start, CreateSavepoint, ReleaseSavepoint, ReleaseFails,
       RollbackToSavepoint, RollbackToFails
<1>5. ASSUME NEW q \in Queries, Statement(q) PROVE FALSE
  BY <1>5 DEF Statement, scopeVars
<1>6. ~ UNCHANGED vars
  BY DEF vars, scopeVars
<1> QED
  BY <1>2, <1>3, <1>4, <1>5, <1>6 DEF Next, Created

(* The first of a queue, which has one. *)
LEMMA First ==
  ASSUME Inv, NEW s \in Savepoints, stage[s] \in Placed
  PROVE  /\ turn[Parent[s]] \in Seq(Savepoints) /\ turn[Parent[s]] # <<>>
         /\ Head(turn[Parent[s]]) = turn[Parent[s]][1]
<1>1. turn[Parent[s]] \in Seq(Savepoints)
  BY Shaped DEF Inv, Shapes, Scopes
<1>2. \E i \in DOMAIN turn[Parent[s]] : turn[Parent[s]][i] = s
  BY DEF Inv, TransactionInv, TurnInv, Placed
<1> QED
  BY <1>1, <1>2

LEMMA TurnStays ==
  ASSUME Inv, [Next]_vars
  PROVE  TurnInv'
<1>1. /\ stage \in [Scopes -> Stages] /\ \A s \in Savepoints : s \in Scopes /\ Parent[s] \in Scopes
      /\ turn \in [Scopes -> Seq(Savepoints)]
  BY Shaped DEF Inv, Shapes, Scopes
<1>2. ASSUME NEW u \in Savepoints, SavepointStep(u) PROVE TurnInv'
  <2>1. CASE Start(u)
    BY <2>1, TurnJoined
  <2>2. CASE CreateSavepoint(u)
    <3>1. stage[u] = "queued" /\ turn[Parent[u]][1] = u
      BY <2>2, First DEF CreateSavepoint, Placed
    <3>2. CASE stage' = [stage EXCEPT ![u] = "open"] /\ turn' = turn
      BY <1>1, <3>1, <3>2, TurnKept DEF Placed, Created
    <3>3. CASE /\ stage' = [stage EXCEPT ![u] = "failed"]
               /\ turn' = [turn EXCEPT ![Parent[u]] = Tail(@)]
      BY <3>1, <3>3, TurnLeft DEF Placed, Created
    <3> QED
      BY <2>2, <3>2, <3>3 DEF CreateSavepoint
  <2>3. CASE ReleaseSavepoint(u) \/ RollbackToSavepoint(u) \/ RollbackToFails(u)
    <3>1. stage[u] \in Created /\ turn' = [turn EXCEPT ![Parent[u]] = Tail(@)]
      BY <2>3 DEF ReleaseSavepoint, RollbackToSavepoint, RollbackToFails, Created
    <3>2. turn[Parent[u]][1] = u
      BY <3>1 DEF Inv, TransactionInv, TurnInv
    <3>3. \E v \in {"saved", "undone", "failed"} : stage' = [stage EXCEPT ![u] = v]
      BY <2>3 DEF ReleaseSavepoint, RollbackToSavepoint, RollbackToFails
    <3> QED
      BY <3>1, <3>2, <3>3, TurnLeft DEF Placed, Created
  <2>4. CASE ReleaseFails(u)
    <3>1. turn' = turn /\ stage' = [stage EXCEPT ![u] = "threw"] /\ stage[u] = "returned"
      BY <2>4 DEF ReleaseFails
    <3> QED
      BY <1>1, <3>1, TurnKept DEF Placed, Created
  <2> QED
    BY <1>2, <2>1, <2>2, <2>3, <2>4 DEF SavepointStep
<1>3. ASSUME \A u \in Savepoints : ~ SavepointStep(u) PROVE TurnInv'
  <2>1. turn' = turn
    <3>1. ASSUME NEW r \in Roots, RootStep(r) PROVE turn' = turn
      BY <3>1 DEF RootStep, Request, Resume, BeginTransaction, BeginFails, Commit, CommitFails,
         Rollback, RollbackFails, AfterCommit, GiveUp, Retry, scopeVars
    <3>2. ASSUME NEW s \in Scopes, ScopeStep(s) PROVE turn' = turn
      BY <3>2 DEF ScopeStep, RegisterRollback, Write, RegisterCommit, End, AfterRollback, Settled,
         GiveUp, Retry
    <3>3. ASSUME NEW q \in Queries, Statement(q) PROVE turn' = turn
      BY <3>3 DEF Statement, scopeVars
    <3> QED
      BY <1>3, <3>1, <3>2, <3>3 DEF Next, vars, scopeVars
  <2>2. \A s \in Savepoints : /\ stage'[s] \in Placed => stage[s] \in Placed
                              /\ stage'[s] \in Created => stage[s] \in Created
    BY <1>3, SavepointStages DEF Placed, Created
  <2> QED
    BY <2>1, <2>2, TurnKept
<1> QED
  BY <1>2, <1>3

(* A savepoint is created when no other one in its parent runs: the scopes that run are
   those around it. *)
LEMMA Around ==
  ASSUME Inv, NEW u \in Savepoints, stage[u] = "queued", turn[Parent[u]][1] = u,
         NEW s \in Running
  PROVE  s \in Lineage[Parent[u]]
<1>1. /\ stage[Parent[u]] = "open" /\ Parent[u] \in Scopes /\ s \in Scopes /\ u \in Scopes
      /\ RootOf(u) = RootOf(Parent[u]) /\ RootOf(u) \in Running \cap Roots
  BY UnderWay, LineageStep, RootRuns
<1>2. RootOf(s) = RootOf(u)
  BY <1>1, RootRuns, OneRuns DEF Inv, TransactionInv, RootInv
<1>3. CASE s \in Roots
  BY <1>1, <1>2, <1>3, RootOfRoot, OneRoot
<1>4. CASE s \in Savepoints /\ Parent[u] \in Lineage[s] /\ s # Parent[u]
  <2>1. PICK c \in Savepoints \cap Lineage[s] : Parent[c] = Parent[u]
    BY <1>1, <1>4, LineageChild
  <2>2. stage[c] \in Created
    <3>1. stage[s] \in Created
      BY <1>4 DEF Inv, TransactionInv, NestInv, Running, Created
    <3>2. c # s => stage[c] = "open"
      BY <1>4, <2>1, <3>1 DEF Inv, TransactionInv, NestInv, Created
    <3> QED
      BY <3>1, <3>2 DEF Created
  <2>3. c = u
    BY <2>1, <2>2 DEF Inv, TransactionInv, TurnInv
  <2> QED
    BY <2>2, <2>3 DEF Created
<1>5. CASE s \in Savepoints /\ Parent[u] \notin Lineage[s]
  <2>1. stage[s] \in Created
    BY <1>5 DEF Inv, TransactionInv, NestInv, Running, Created
  <2>2. CASE Parent[u] \in Savepoints
    BY <1>1, <1>5, <2>1, <2>2 DEF Inv, TransactionInv, ChainInv, Created
  <2>3. CASE Parent[u] \in Roots
    BY <1>1, <1>2, <1>5, <2>3, OneRoot, RootOfRoot
  <2> QED
    BY <1>1, <2>2, <2>3 DEF Scopes
<1>6. s = Parent[u] => s \in Lineage[Parent[u]]
  BY <1>1, Nested
<1> QED
  BY <1>1, <1>3, <1>4, <1>5, <1>6 DEF Scopes

LEMMA ChainStays ==
  ASSUME Inv, [Next]_vars
  PROVE  ChainInv'
<1>1. /\ stage \in [Scopes -> Stages] /\ \A s \in Savepoints : s \in Scopes /\ Parent[s] \in Scopes
  BY Shaped DEF Inv, Shapes, Scopes
<1>2. ASSUME \A s \in Savepoints : stage'[s] \in Created => stage[s] \in Created PROVE ChainInv'
  BY <1>2 DEF Inv, TransactionInv, ChainInv
<1>3. ASSUME NEW u \in Savepoints, CreateSavepoint(u), stage' = [stage EXCEPT ![u] = "open"]
      PROVE  ChainInv'
  <2>1. stage[u] = "queued" /\ turn[Parent[u]][1] = u
    BY <1>3, First DEF CreateSavepoint, Placed
  <2>2. ASSUME NEW s \in Savepoints, s # u, stage'[s] \in Created PROVE s \in Lineage[u]
    <3>1. stage[s] \in Created /\ s \in Running
      BY <1>1, <1>3, <2>2 DEF Running, Created
    <3>2. s \in Lineage[Parent[u]]
      BY <2>1, <3>1, Around
    <3> QED
      BY <3>2, LineageStep
  <2>3. u \in Lineage[u]
    BY <1>1, Nested
  <2>4. ASSUME NEW s \in Savepoints, NEW t \in Savepoints, s # u, t # u,
               stage'[s] \in Created, stage'[t] \in Created
        PROVE  s \in Lineage[t] \/ t \in Lineage[s]
    BY <1>1, <1>3, <2>4 DEF Inv, TransactionInv, ChainInv
  <2> QED
    BY <2>2, <2>3, <2>4 DEF ChainInv
<1>4. ASSUME NEW u \in Savepoints, SavepointStep(u), ~ (CreateSavepoint(u) /\ stage' = [stage EXCEPT ![u] = "open"])
      PROVE  ChainInv'
  <2>1. \A s \in Savepoints : stage'[s] \in Created => stage[s] \in Created
    BY <1>1, <1>4 DEF SavepointStep, Start, CreateSavepoint, ReleaseSavepoint, ReleaseFails,
       RollbackToSavepoint, RollbackToFails, Created
  <2> QED
    BY <1>2, <2>1
<1>5. ASSUME \A u \in Savepoints : ~ SavepointStep(u) PROVE ChainInv'
  <2>1. \A s \in Savepoints : stage'[s] \in Created => stage[s] \in Created
    BY <1>5, SavepointStages DEF Created
  <2> QED
    BY <1>2, <2>1
<1> QED
  BY <1>3, <1>4, <1>5

-------------------------------------------------------------------------------
(* The layers of the scopes that run *)

(* A layer of its own, and nobody else's rows from there on. *)
LEMMA Position ==
  ASSUME Inv, NEW s \in Running
  PROVE  /\ Len(layers) \in Nat /\ layers \in Seq(Layer)
         /\ \E i \in 1 .. Len(layers) : layers[i].scope = s
         /\ \A i \in 1 .. Len(layers) : layers[i].scope = s =>
              /\ s \in Roots => i = 1
              /\ \A j \in 1 .. Len(layers) : i <= j =>
                   /\ s \in Lineage[layers[j].scope] /\ (i = j \/ layers[j].scope # s)
                   /\ \A row \in layers[j].rows : Own(s, row)
<1>1. layers \in Seq(Layer) /\ Len(layers) \in Nat /\ DOMAIN layers = 1 .. Len(layers)
  BY Shaped DEF Inv, Shapes
<1> QED
  BY <1>1 DEF Inv, TransactionInv, StackInv

(* The root transaction that runs has the first layer. *)
LEMMA RootLayer ==
  ASSUME Inv, NEW s \in Running
  PROVE  /\ layers # <<>> /\ Len(layers) \in Nat \ {0} /\ layers[1].scope = RootOf(s)
         /\ \A i \in 1 .. Len(layers) : \A row \in layers[i].rows : Own(RootOf(s), row)
<1>1. RootOf(s) \in Running /\ RootOf(s) \in Roots
  BY RootRuns
<1>2. PICK i \in 1 .. Len(layers) : layers[i].scope = RootOf(s)
  BY <1>1, Position
<1>3. i = 1 /\ Len(layers) \in Nat
  BY <1>1, <1>2, Position
<1> QED
  BY <1>1, <1>2, <1>3, Position, RootOfRoot

(* No scope runs inside one that has left its callback or awaited what it called. *)
LEMMA Innermost ==
  ASSUME Inv, NEW s \in Running,
         stage[s] # "open" \/ \A c \in Savepoints : Parent[c] = s => stage[c] \in Over,
         NEW t \in Running
  PROVE  t \in Lineage[s] /\ RootOf(t) = RootOf(s)
<1>1. s \in Scopes /\ t \in Scopes /\ RootOf(s) \in Running \cap Roots
  BY RootRuns
<1>2. RootOf(t) = RootOf(s)
  BY <1>1, OneRuns DEF Inv, TransactionInv, RootInv
<1>3. t \in Savepoints /\ t # s => s \notin Lineage[t]
  BY <1>1, NoneInside DEF Running, Over
<1>4. CASE t = s
  BY <1>1, <1>4, Nested
<1>5. CASE t \in Roots
  BY <1>1, <1>2, <1>5, OneRoot, RootOfRoot
<1>6. CASE t \in Savepoints /\ t # s
  <2>1. CASE s \in Roots
    BY <1>1, <1>2, <1>3, <1>6, <2>1, OneRoot, RootOfRoot
  <2>2. CASE s \in Savepoints
    <3>1. {stage[s], stage[t]} \subseteq Created
      BY <1>6, <2>2 DEF Inv, TransactionInv, NestInv, Running, Created
    <3>2. s \in Lineage[t] \/ t \in Lineage[s]
      BY <1>6, <2>2, <3>1 DEF Inv, TransactionInv, ChainInv
    <3> QED
      BY <1>2, <1>3, <1>6, <3>2
  <2> QED
    BY <1>1, <2>1, <2>2 DEF Scopes
<1> QED
  BY <1>1, <1>2, <1>4, <1>5, <1>6 DEF Scopes

LEMMA StackKept ==
  ASSUME Inv, UNCHANGED <<layers, attempt>>, Running' \subseteq Running,
         \A s \in Savepoints : stage'[s] \in {"idle", "queued"} /\ RootOf(s) \in Running'
                               => stage[s] \in {"idle", "queued"}
  PROVE  StackInv'
BY DEF Inv, TransactionInv, StackInv, Own

LEMMA StackNone ==
  ASSUME Running' = {}
  PROVE  StackInv'
BY DEF StackInv

(* A row goes to the layer of the scope that writes it, which is the innermost. *)
LEMMA StackWrite ==
  ASSUME Inv, Structured, NEW s \in Scopes, Write(s)
  PROVE  StackInv' /\ layers' \in Seq(Layer) /\ durable' = durable
<1>1. /\ s \in Running /\ UNCHANGED <<stage, attempt>> /\ Put(Name(s))
      /\ \A c \in Savepoints : Parent[c] = s => stage[c] \in Over
  BY DEF Write, InCallback, Running, Over
<1>2. layers # <<>> /\ layers \in Seq(Layer) /\ Name(s) \in Rows
  BY <1>1, RootLayer, Position, NameIsRow
<1>3. /\ layers' \in Seq(Layer) /\ Len(layers') = Len(layers) /\ durable' = durable
      /\ Len(layers) \in Nat \ {0}
      /\ \A i \in 1 .. Len(layers) :
           /\ layers'[i].scope = layers[i].scope
           /\ layers'[i].rows \subseteq layers[i].rows \cup {Name(s)}
  BY <1>1, <1>2, PutStep
<1>4. DOMAIN layers = 1 .. Len(layers) /\ DOMAIN layers' = 1 .. Len(layers)
  BY <1>2, <1>3
<1>5. Running' = Running /\ \A t, row : Own(t, row)' <=> Own(t, row)
  BY <1>1 DEF Running, Own
<1>6. ASSUME NEW t \in Running PROVE Own(t, Name(s))
  BY <1>1, <1>6, Innermost, NameIsRow DEF Own, Name
<1>7. ASSUME NEW t \in Running
      PROVE  /\ \E i \in DOMAIN layers' : layers'[i].scope = t
             /\ \A i \in DOMAIN layers' : layers'[i].scope = t =>
                  /\ t \in Roots => i = 1
                  /\ \A j \in DOMAIN layers' : i <= j =>
                       /\ t \in Lineage[layers'[j].scope] /\ (i = j \/ layers'[j].scope # t)
                       /\ \A row \in layers'[j].rows : Own(t, row)
  <2>1. \E i \in DOMAIN layers' : layers'[i].scope = t
    BY <1>3, <1>4, <1>7, Position
  <2>2. ASSUME NEW i \in DOMAIN layers', layers'[i].scope = t PROVE t \in Roots => i = 1
    BY <1>3, <1>4, <1>7, <2>2, Position
  <2>3. ASSUME NEW i \in DOMAIN layers', layers'[i].scope = t, NEW j \in DOMAIN layers', i <= j
        PROVE  /\ t \in Lineage[layers'[j].scope] /\ (i = j \/ layers'[j].scope # t)
               /\ \A row \in layers'[j].rows : Own(t, row)
    <3>1. i \in 1 .. Len(layers) /\ j \in 1 .. Len(layers) /\ layers[i].scope = t
      BY <1>3, <1>4, <2>3
    <3>2. /\ t \in Lineage[layers[j].scope] /\ (i = j \/ layers[j].scope # t)
          /\ \A row \in layers[j].rows : Own(t, row)
      BY <1>7, <2>3, <3>1, Position
    <3>3. layers'[j].scope = layers[j].scope /\ layers'[j].rows \subseteq layers[j].rows \cup {Name(s)}
      BY <1>3, <3>1
    <3>4. Own(t, Name(s))
      BY <1>6, <1>7
    <3> QED
      BY <3>2, <3>3, <3>4
  <2> QED
    BY <2>1, <2>2, <2>3
<1>8. \A t \in Savepoints : stage'[t] \in {"idle", "queued"} /\ RootOf(t) \in Running' =>
         \A i \in DOMAIN layers' : layers'[i].scope # t
  BY <1>1, <1>3, <1>4, <1>5 DEF Inv, TransactionInv, StackInv
<1> QED
  BY <1>3, <1>5, <1>7, <1>8 DEF StackInv

LEMMA StackBegin ==
  ASSUME Inv, NEW r \in Roots, BeginTransaction(r)
  PROVE  StackInv' /\ layers' \in Seq(Layer) /\ durable' = durable
<1>1. /\ stage \in [Scopes -> Stages] /\ r \in Scopes /\ phase[r] = "exclusive" /\ stage[r] = "idle"
      /\ layers = <<>> /\ layers \in Seq(Layer) /\ OpenLayer(r) /\ stage' = [stage EXCEPT ![r] = "open"]
  BY Shaped DEF Inv, Shapes, Scopes, BeginTransaction
<1>2. Running = {}
  BY <1>1, OneRuns, RootRuns DEF Running
<1>3. Running' = {r}
  BY <1>1, <1>2 DEF Running
<1>4. /\ layers' \in Seq(Layer) /\ Len(layers') = 1 /\ durable' = durable
      /\ layers'[1] = [scope |-> r, rows |-> {}]
  BY <1>1, OpenStep
<1>5. DOMAIN layers' = {1} /\ layers'[1].scope = r /\ layers'[1].rows = {} /\ r \in Lineage[r]
      /\ r \notin Savepoints
  BY <1>1, <1>4, Nested
<1> QED
  BY <1>3, <1>4, <1>5 DEF StackInv

LEMMA StackCreate ==
  ASSUME Inv, NEW u \in Savepoints, CreateSavepoint(u), stage' = [stage EXCEPT ![u] = "open"]
  PROVE  StackInv' /\ layers' \in Seq(Layer) /\ durable' = durable
<1>1. /\ stage \in [Scopes -> Stages] /\ u \in Scopes /\ stage[u] = "queued" /\ turn[Parent[u]][1] = u
      /\ layers \in Seq(Layer) /\ attempt' = attempt
  BY Shaped, First DEF Inv, Shapes, Scopes, CreateSavepoint, Placed
<1>2. OpenLayer(u)
  <2>1. stage' # [stage EXCEPT ![u] = "failed"]
    <3>1. stage'[u] = "open" /\ [stage EXCEPT ![u] = "failed"][u] = "failed"
      BY <1>1
    <3> QED
      BY <3>1
  <2> QED
    BY <2>1 DEF CreateSavepoint
<1>3. /\ layers' \in Seq(Layer) /\ Len(layers) \in Nat /\ Len(layers') = Len(layers) + 1
      /\ \A i \in 1 .. Len(layers) : layers'[i] = layers[i]
      /\ layers'[Len(layers) + 1].scope = u /\ layers'[Len(layers) + 1].rows = {}
      /\ durable' = durable
  <2>1. layers'[Len(layers')] = [scope |-> u, rows |-> {}]
    BY <1>1, <1>2, OpenStep
  <2> QED
    BY <1>1, <1>2, <2>1, OpenStep
<1>4. DOMAIN layers = 1 .. Len(layers) /\ DOMAIN layers' = 1 .. (Len(layers) + 1)
  BY <1>1, <1>3
<1>5. Running' = Running \cup {u} /\ u \notin Running /\ \A t, row : Own(t, row)' <=> Own(t, row)
  BY <1>1 DEF Running, Own
<1>6. /\ u \in Lineage[u] /\ u \notin Roots
      /\ \A t \in Running : t \in Lineage[u] /\ t # u
  BY <1>1, <1>5, Around, LineageStep, Nested
<1> DEFINE n == Len(layers)
<1>7. \A i \in 1 .. Len(layers) : layers[i].scope # u
  <2>1. RootOf(u) \in Running
    BY <1>1, UnderWay
  <2> QED
    BY <1>1, <1>4, <2>1 DEF Inv, TransactionInv, StackInv
<1>8. ASSUME NEW t \in Running
      PROVE  /\ \E i \in DOMAIN layers' : layers'[i].scope = t
             /\ \A i \in DOMAIN layers' : layers'[i].scope = t =>
                  /\ t \in Roots => i = 1
                  /\ \A j \in DOMAIN layers' : i <= j =>
                       /\ t \in Lineage[layers'[j].scope] /\ (i = j \/ layers'[j].scope # t)
                       /\ \A row \in layers'[j].rows : Own(t, row)
  <2>1. PICK i \in 1 .. Len(layers) : layers[i].scope = t
    BY <1>8, Position
  <2>2. i \in DOMAIN layers' /\ layers'[i].scope = t
    BY <1>3, <1>4, <2>1
  <2>3. ASSUME NEW k \in DOMAIN layers', layers'[k].scope = t PROVE k \in 1 .. Len(layers) /\ layers[k].scope = t
    <3>1. k \in 1 .. (n + 1) /\ n \in Nat
      BY <1>3, <1>4, <2>3
    <3>2. k # n + 1
      BY <1>3, <1>6, <1>8, <2>3
    <3>3. k \in 1 .. n
      <4> HIDE DEF n
      <4> QED
        BY <3>1, <3>2
    <3> QED
      BY <1>3, <2>3, <3>3
  <2>4. ASSUME NEW k \in DOMAIN layers', layers'[k].scope = t, NEW j \in DOMAIN layers', k <= j
        PROVE  /\ t \in Lineage[layers'[j].scope] /\ (k = j \/ layers'[j].scope # t)
               /\ \A row \in layers'[j].rows : Own(t, row)
    <3>1. CASE j = Len(layers) + 1
      BY <1>3, <1>6, <3>1
    <3>2. CASE j \in 1 .. Len(layers)
      BY <1>3, <1>8, <2>3, <2>4, <3>2, Position
    <3>3. j \in 1 .. n \/ j = n + 1
      <4>1. j \in 1 .. (n + 1) /\ n \in Nat
        BY <1>3, <1>4
      <4> HIDE DEF n
      <4> QED
        BY <4>1
    <3> QED
      BY <3>1, <3>2, <3>3
  <2>5. ASSUME NEW k \in DOMAIN layers', layers'[k].scope = t, t \in Roots PROVE k = 1
    BY <1>8, <2>3, <2>5, Position
  <2> QED
    BY <2>2, <2>4, <2>5
<1>9. /\ \E i \in DOMAIN layers' : layers'[i].scope = u
      /\ \A i \in DOMAIN layers' : layers'[i].scope = u =>
           /\ u \in Roots => i = 1
           /\ \A j \in DOMAIN layers' : i <= j =>
                /\ u \in Lineage[layers'[j].scope] /\ (i = j \/ layers'[j].scope # u)
                /\ \A row \in layers'[j].rows : Own(u, row)
  <2>1. n \in Nat /\ DOMAIN layers' = 1 .. (n + 1) /\ layers'[n + 1].scope = u /\ layers'[n + 1].rows = {}
        /\ \A i \in 1 .. n : layers'[i].scope # u
    BY <1>3, <1>4, <1>7
  <2> HIDE DEF n
  <2>2. n + 1 \in DOMAIN layers' /\ \A i \in DOMAIN layers' : layers'[i].scope = u <=> i = n + 1
    BY <2>1
  <2>3. \A j \in DOMAIN layers' : n + 1 <= j => j = n + 1
    BY <2>1
  <2> QED
    BY <1>6, <2>1, <2>2, <2>3
<1>10. \A t \in Savepoints : stage'[t] \in {"idle", "queued"} /\ RootOf(t) \in Running' =>
         \A i \in DOMAIN layers' : layers'[i].scope # t
  <2> SUFFICES ASSUME NEW t \in Savepoints, stage'[t] \in {"idle", "queued"}, RootOf(t) \in Running',
                      NEW i \in DOMAIN layers'
               PROVE  layers'[i].scope # t
    OBVIOUS
  <2>1. t # u /\ stage[t] = stage'[t] /\ t \in Scopes
    BY <1>1 DEF Scopes
  <2>2. RootOf(t) \in Running
    BY <1>5, <1>6, <2>1, OneRoot
  <2> QED
    BY <1>3, <1>4, <2>1, <2>2 DEF Inv, TransactionInv, StackInv
<1> QED
  BY <1>3, <1>5, <1>8, <1>9, <1>10 DEF StackInv

(* The layers above the savepoint that ends are nobody's any more; its own keeps what the
   savepoint wrote, or moves it outwards, where it is a row of every scope around it. *)
LEMMA StackCut ==
  ASSUME Inv, NEW u \in Savepoints, stage[u] \in {"returned", "threw"},
         NEW i \in LayersOf(u), MergeLayer(i) \/ EmptyLayer(i),
         UNCHANGED attempt, NEW v \in {"saved", "undone"}, stage' = [stage EXCEPT ![u] = v]
  PROVE  StackInv' /\ layers' \in Seq(Layer) /\ durable' = durable
<1>1. /\ stage \in [Scopes -> Stages] /\ u \in Scopes /\ u \in Running /\ u \notin Roots
      /\ layers \in Seq(Layer) /\ Len(layers) \in Nat /\ DOMAIN layers = 1 .. Len(layers)
  BY Shaped DEF Inv, Shapes, Scopes, Running
<1>2. i \in 1 .. Len(layers) /\ layers[i].scope = u
  BY <1>1 DEF LayersOf
<1>3. Running' = Running \ {u} /\ \A t, row : Own(t, row)' <=> Own(t, row)
  BY <1>1 DEF Running, Own
<1>4. \A t \in Running : t \in Lineage[u] /\ t \in Scopes
  BY <1>1, Innermost, RootRuns
<1>5. RootOf(u) \in Running \cap Roots /\ layers[1].scope = RootOf(u)
  BY <1>1, RootRuns, RootLayer
<1>6. i # 1
  BY <1>1, <1>2, <1>5
<1>7. ASSUME NEW t \in Running' PROVE \A k \in 1 .. Len(layers) : layers[k].scope = t => k < i
  <2> SUFFICES ASSUME NEW k \in 1 .. Len(layers), layers[k].scope = t, i <= k PROVE FALSE
    BY <1>1, <1>2
  <2>1. u \in Lineage[t]
    BY <1>1, <1>2, Position
  <2> QED
    BY <1>1, <1>3, <1>4, <1>7, <2>1, Antisymmetric
<1>8. \E n \in {i - 1, i} :
        /\ layers' \in Seq(Layer) /\ DOMAIN layers' = 1 .. n /\ durable' = durable
        /\ \A j \in 1 .. n :
             /\ layers'[j].scope = layers[j].scope
             /\ \A row \in layers'[j].rows :
                  \E k \in j .. Len(layers) : row \in layers[k].rows
  <2>1. CASE MergeLayer(i)
    <3>1. /\ layers' \in Seq(Layer) /\ Len(layers') = i - 1 /\ durable' = durable
          /\ \A j \in 1 .. i - 1 :
               /\ layers'[j].scope = layers[j].scope
               /\ layers'[j].rows = IF j = i - 1 THEN layers[j].rows \cup LayerRows(i) ELSE layers[j].rows
      BY <1>1, <1>2, <1>6, <2>1, MergeStep
    <3>2. \A j \in 1 .. i - 1 : layers'[j].rows \subseteq layers[j].rows \cup LayerRows(i)
      BY <3>1
    <3>3. ASSUME NEW j \in 1 .. i - 1, NEW row \in layers'[j].rows
          PROVE  \E k \in j .. Len(layers) : row \in layers[k].rows
      <4>1. CASE row \in layers[j].rows
        BY <1>1, <1>2, <3>3, <4>1
      <4>2. CASE row \in LayerRows(i)
        <5>1. PICK k \in i .. Len(layers) : row \in layers[k].rows
          BY <4>2 DEF LayerRows
        <5> QED
          BY <1>1, <1>2, <3>3, <5>1
      <4> QED
        BY <3>2, <3>3, <4>1, <4>2
    <3>4. DOMAIN layers' = 1 .. (i - 1)
      BY <3>1
    <3> QED
      BY <3>1, <3>3, <3>4
  <2>2. CASE EmptyLayer(i)
    <3>1. /\ layers' \in Seq(Layer) /\ Len(layers') = i /\ durable' = durable
          /\ \A j \in 1 .. i :
               /\ layers'[j].scope = layers[j].scope
               /\ layers'[j].rows = IF j = i THEN {} ELSE layers[j].rows
      BY <1>1, <1>2, <2>2, EmptyStep
    <3>2. \A j \in 1 .. i : layers'[j].rows \subseteq layers[j].rows
      BY <3>1
    <3>3. ASSUME NEW j \in 1 .. i, NEW row \in layers'[j].rows
          PROVE  \E k \in j .. Len(layers) : row \in layers[k].rows
      BY <1>1, <1>2, <3>2, <3>3
    <3>4. DOMAIN layers' = 1 .. i
      BY <3>1
    <3> QED
      BY <3>1, <3>3, <3>4
  <2> QED
    BY <2>1, <2>2
<1>9. PICK n \in {i - 1, i} :
        /\ layers' \in Seq(Layer) /\ DOMAIN layers' = 1 .. n /\ durable' = durable
        /\ \A j \in 1 .. n :
             /\ layers'[j].scope = layers[j].scope
             /\ \A row \in layers'[j].rows :
                  \E k \in j .. Len(layers) : row \in layers[k].rows
  BY <1>8
<1>10. ASSUME NEW t \in Running'
       PROVE  /\ \E k \in DOMAIN layers' : layers'[k].scope = t
              /\ \A k \in DOMAIN layers' : layers'[k].scope = t =>
                   /\ t \in Roots => k = 1
                   /\ \A j \in DOMAIN layers' : k <= j =>
                        /\ t \in Lineage[layers'[j].scope] /\ (k = j \/ layers'[j].scope # t)
                        /\ \A row \in layers'[j].rows : Own(t, row)
  <2>1. t \in Running
    BY <1>3, <1>10
  <2>2. PICK k \in 1 .. Len(layers) : layers[k].scope = t
    BY <2>1, Position
  <2>3. k \in DOMAIN layers' /\ layers'[k].scope = t
    BY <1>1, <1>2, <1>7, <1>9, <1>10, <2>2
  <2>4. ASSUME NEW m \in DOMAIN layers', layers'[m].scope = t
        PROVE  m \in 1 .. Len(layers) /\ layers[m].scope = t
    BY <1>1, <1>2, <1>9, <2>4
  <2>5. ASSUME NEW m \in DOMAIN layers', layers'[m].scope = t, NEW j \in DOMAIN layers', m <= j
        PROVE  /\ t \in Lineage[layers'[j].scope] /\ (m = j \/ layers'[j].scope # t)
               /\ \A row \in layers'[j].rows : Own(t, row)
    <3>1. m \in 1 .. Len(layers) /\ layers[m].scope = t /\ j \in 1 .. Len(layers) /\ j \in 1 .. n
      BY <1>1, <1>2, <1>9, <2>4, <2>5
    <3>2. \A p \in 1 .. Len(layers) : m <= p =>
            /\ t \in Lineage[layers[p].scope] /\ (m = p \/ layers[p].scope # t)
            /\ \A row \in layers[p].rows : Own(t, row)
      BY <2>1, <3>1, Position
    <3>3. ASSUME NEW row \in layers'[j].rows PROVE Own(t, row)
      <4>1. PICK p \in j .. Len(layers) : row \in layers[p].rows
        BY <1>9, <3>1
      <4>2. p \in 1 .. Len(layers) /\ m <= p
        BY <1>1, <2>5, <3>1, <4>1
      <4> QED
        BY <3>2, <4>1, <4>2
    <3> QED
      BY <1>9, <2>5, <3>1, <3>2, <3>3
  <2>6. ASSUME NEW m \in DOMAIN layers', layers'[m].scope = t, t \in Roots PROVE m = 1
    BY <2>1, <2>4, <2>6, Position
  <2> QED
    BY <2>3, <2>5, <2>6
<1>11. ASSUME NEW t \in Savepoints, stage'[t] \in {"idle", "queued"}, RootOf(t) \in Running',
              NEW k \in DOMAIN layers'
       PROVE  layers'[k].scope # t
  <2>1. t # u /\ stage[t] = stage'[t] /\ t \in Scopes
    BY <1>1, <1>11 DEF Scopes
  <2>2. k \in DOMAIN layers /\ layers'[k].scope = layers[k].scope
    BY <1>1, <1>2, <1>9
  <2> QED
    BY <1>3, <1>11, <2>1, <2>2 DEF Inv, TransactionInv, StackInv
<1>12. StackInv'
  BY <1>3, <1>10, <1>11 DEF StackInv
<1> QED
  BY <1>9, <1>12

(* A statement that ends was running, and then no transaction did. *)
LEMMA StatementAlone ==
  ASSUME Inv, NEW q \in Queries, Statement(q)
  PROVE  UNCHANGED driverVars \/ (Put(q) /\ Running = {})
<1>1. CASE FinishOperation(q) /\ Put(q)
  BY <1>1, NoStatement DEF FinishOperation
<1> QED
  BY <1>1 DEF Statement

LEMMA StackStays ==
  ASSUME Inv, Structured, [Next]_vars
  PROVE  StackInv' /\ layers' \in Seq(Layer)
<1>1. /\ stage \in [Scopes -> Stages] /\ Roots \subseteq Scopes /\ layers \in Seq(Layer)
      /\ \A s \in Savepoints : s \notin Roots /\ s \in Scopes /\ Parent[s] \in Scopes
      /\ <<>> \in Seq(Layer)
  BY Shaped DEF Inv, Shapes, Scopes
<1>2. ASSUME UNCHANGED <<stage, attempt, layers>> PROVE StackInv' /\ layers' \in Seq(Layer)
  BY <1>1, <1>2, StackKept DEF Running
<1>3. ASSUME NEW r \in Roots, Request(r) \/ Resume(r) \/ AfterCommit(r)
      PROVE  StackInv' /\ layers' \in Seq(Layer)
  BY <1>2, <1>3 DEF Request, Resume, AfterCommit, scopeVars, driverVars
<1>4. ASSUME NEW r \in Roots, BeginTransaction(r) PROVE StackInv' /\ layers' \in Seq(Layer)
  BY <1>4, StackBegin
<1>5. ASSUME NEW r \in Roots,
             BeginFails(r) \/ Commit(r) \/ CommitFails(r) \/ Rollback(r) \/ RollbackFails(r)
      PROVE  StackInv' /\ layers' \in Seq(Layer)
  <2>1. \A s \in Roots : s \notin Running'
    BY <1>5, LeavesNone
  <2>2. NestInv'
    BY NestStays
  <2>3. \A s \in Savepoints : s \notin Running'
    <3> SUFFICES ASSUME NEW s \in Savepoints, s \in Running' PROVE FALSE
      OBVIOUS
    <3>1. RootOf(s) \in Roots /\ RootOf(s) \in Lineage[s] \ {s}
      BY <1>1, OneRoot
    <3>2. stage'[s] \notin {"idle", "saved", "failed"}
      BY DEF Running
    <3>3. stage'[RootOf(s)] = "open"
      BY <2>2, <3>1, <3>2 DEF NestInv
    <3> QED
      BY <1>1, <2>1, <3>1, <3>3 DEF Running
  <2>4. Running' = {}
    BY <2>1, <2>3 DEF Running, Scopes
  <2>5. layers' = layers \/ layers' = <<>>
    BY <1>5 DEF BeginFails, Commit, CommitFails, Rollback, RollbackFails, CommitLayers, DropLayers, driverVars
  <2> QED
    BY <1>1, <2>4, <2>5, StackNone
<1>6. ASSUME NEW s \in Scopes, RegisterRollback(s) \/ RegisterCommit(s)
      PROVE  StackInv' /\ layers' \in Seq(Layer)
  BY <1>2, <1>6 DEF RegisterRollback, RegisterCommit, driverVars
<1>7. ASSUME NEW s \in Scopes, Write(s) PROVE StackInv' /\ layers' \in Seq(Layer)
  BY <1>7, StackWrite
<1>8. ASSUME NEW s \in Scopes, NEW v \in Stages, stage' = [stage EXCEPT ![s] = v], UNCHANGED <<attempt, layers>>,
             v \notin {"open", "returned", "threw", "conflict"} \/ s \in Running, v \notin {"idle", "queued"}
      PROVE  StackInv' /\ layers' \in Seq(Layer)
  <2>1. /\ Running' \subseteq Running
        /\ \A t \in Savepoints : stage'[t] \in {"idle", "queued"} => stage[t] \in {"idle", "queued"}
    BY <1>1, <1>8 DEF Running
  <2> QED
    BY <1>1, <1>8, <2>1, StackKept
<1>9. ASSUME NEW s \in Scopes, End(s) PROVE StackInv' /\ layers' \in Seq(Layer)
  <2>1. PICK v \in {"returned", "threw"} \cup (IF s \in Roots THEN {"conflict"} ELSE {}) :
          stage' = [stage EXCEPT ![s] = v]
    BY <1>9 DEF End
  <2>2. s \in Running /\ UNCHANGED <<attempt, layers>>
    BY <1>9 DEF End, InCallback, Running, driverVars
  <2> QED
    BY <1>8, <2>1, <2>2 DEF Stages
<1>10. ASSUME NEW s \in Scopes, AfterRollback(s) PROVE StackInv' /\ layers' \in Seq(Layer)
  <2>1. /\ stage' = stage \/ stage' = [stage EXCEPT ![s] = "undone"]
        /\ UNCHANGED <<attempt, layers>>
    BY <1>10 DEF AfterRollback, driverVars
  <2> QED
    BY <1>2, <1>8, <2>1 DEF Stages
<1>11. ASSUME NEW s \in Scopes, Settled(s) PROVE StackInv' /\ layers' \in Seq(Layer)
  <2>1. stage[s] \in {"undone", "redo"} /\ UNCHANGED <<attempt, layers>>
    BY <1>11 DEF Settled, driverVars
  <2>2. CASE GiveUp(s)
    BY <1>8, <2>1, <2>2 DEF GiveUp, Stages
  <2>3. ASSUME s \in Roots, NEW n, Retry(s, n) PROVE StackInv' /\ layers' \in Seq(Layer)
    <3>1. \A t \in Scopes : stage'[t] = IF s \in Lineage[t] THEN "idle" ELSE stage[t]
      BY <2>3, RetryStage
    <3>2. Running' \subseteq Running
      BY <3>1 DEF Running
    <3>3. ASSUME NEW t \in Savepoints, stage'[t] \in {"idle", "queued"}, RootOf(t) \in Running'
          PROVE  stage[t] \in {"idle", "queued"}
      <4>1. t \in Scopes /\ RootOf(t) \in Lineage[t] /\ RootOf(t) \in Running
        BY <1>1, <3>2, <3>3, OneRoot
      <4>2. s \notin Running
        BY <2>1 DEF Running
      <4>3. s \notin Lineage[t]
        BY <2>3, <4>1, <4>2, OneRoot
      <4> QED
        BY <3>1, <3>3, <4>1, <4>3
    <3> QED
      BY <1>1, <2>1, <3>2, <3>3, StackKept
  <2>4. s \in Savepoints => GiveUp(s)
    BY <1>11 DEF Settled, Inv, TransactionInv, NestInv
  <2> QED
    BY <1>11, <2>2, <2>3, <2>4 DEF Settled, Scopes
<1>12. ASSUME NEW s \in Savepoints, SavepointStep(s) PROVE StackInv' /\ layers' \in Seq(Layer)
  <2>1. s \in Scopes
    BY <1>1
  <2>2. CASE Start(s)
    <3>1. stage[s] = "idle" /\ stage' = [stage EXCEPT ![s] = "queued"] /\ UNCHANGED <<attempt, layers>>
      BY <2>2 DEF Start, driverVars
    <3>2. /\ Running' \subseteq Running
          /\ \A t \in Savepoints : stage'[t] \in {"idle", "queued"} => stage[t] \in {"idle", "queued"}
      BY <1>1, <3>1 DEF Running
    <3> QED
      BY <1>1, <3>1, <3>2, StackKept
  <2>3. CASE CreateSavepoint(s)
    <3>1. CASE stage' = [stage EXCEPT ![s] = "open"]
      BY <2>3, <3>1, StackCreate
    <3>2. CASE stage' = [stage EXCEPT ![s] = "failed"] /\ UNCHANGED driverVars
      <4>1. UNCHANGED <<attempt, layers>>
        BY <2>3, <3>2 DEF CreateSavepoint, driverVars
      <4> QED
        BY <1>8, <2>1, <3>2, <4>1 DEF Stages
    <3> QED
      BY <2>3, <3>1, <3>2 DEF CreateSavepoint
  <2>4. CASE ReleaseSavepoint(s) \/ RollbackToSavepoint(s)
    <3>1. PICK i \in LayersOf(s) : MergeLayer(i) \/ EmptyLayer(i)
      BY <2>4 DEF ReleaseSavepoint, RollbackToSavepoint
    <3>2. PICK v \in {"saved", "undone"} : stage' = [stage EXCEPT ![s] = v]
      BY <2>4 DEF ReleaseSavepoint, RollbackToSavepoint
    <3>3. stage[s] \in {"returned", "threw"} /\ UNCHANGED attempt
      BY <2>4 DEF ReleaseSavepoint, RollbackToSavepoint
    <3> QED
      BY <3>1, <3>2, <3>3, StackCut
  <2>5. CASE ReleaseFails(s)
    <3>1. /\ s \in Running /\ UNCHANGED <<attempt, layers>>
          /\ stage' = [stage EXCEPT ![s] = "threw"]
      BY <2>1, <2>5 DEF ReleaseFails, Running, driverVars
    <3> QED
      BY <1>8, <2>1, <3>1 DEF Stages
  <2>6. CASE RollbackToFails(s)
    <3>1. UNCHANGED <<attempt, layers>> /\ stage' = [stage EXCEPT ![s] = "failed"]
      BY <2>6 DEF RollbackToFails, driverVars
    <3> QED
      BY <1>8, <2>1, <3>1 DEF Stages
  <2> QED
    BY <1>12, <2>2, <2>3, <2>4, <2>5, <2>6 DEF SavepointStep
<1>13. ASSUME NEW q \in Queries, Statement(q) PROVE StackInv' /\ layers' \in Seq(Layer)
  <2>1. UNCHANGED <<stage, attempt>>
    BY <1>13 DEF Statement, scopeVars
  <2>2. CASE UNCHANGED driverVars
    BY <1>2, <2>1, <2>2 DEF driverVars
  <2>3. CASE Put(q) /\ Running = {}
    <3>1. Running' = {}
      BY <2>1, <2>3 DEF Running
    <3>2. layers # <<>> => layers' \in Seq(Layer)
      BY <1>1, <2>3, PutStep
    <3>3. layers = <<>> => layers' = layers
      BY <2>3 DEF Put
    <3> QED
      BY <1>1, <3>1, <3>2, <3>3, StackNone
  <2> QED
    BY <1>13, <2>2, <2>3, StatementAlone
<1>14. CASE UNCHANGED vars
  BY <1>2, <1>14 DEF vars, scopeVars, driverVars
<1> QED
  BY <1>3, <1>4, <1>5, <1>6, <1>7, <1>9, <1>10, <1>11, <1>12, <1>13, <1>14 DEF Next, RootStep, ScopeStep

-------------------------------------------------------------------------------
(* What is durable *)

(* A transaction that has ended stays so, and no driver error gets better. *)
LEMMA EndedStays ==
  ASSUME Inv, [Next]_vars
  PROVE  /\ known' \subseteq known
         /\ \A r \in Roots : stage[r] \in {"committed", "failed"} =>
              stage'[r] = stage[r] /\ attempt'[r] = attempt[r]
<1>1. /\ stage \in [Scopes -> Stages] /\ Roots \subseteq Scopes /\ attempt \in [Roots -> Nat]
      /\ \A s \in Savepoints : s \notin Roots /\ s \in Scopes
  BY Shaped DEF Inv, Shapes, Scopes
<1> DEFINE Still == /\ known' \subseteq known
                    /\ \A r \in Roots : stage[r] \in {"committed", "failed"} =>
                         stage'[r] = stage[r] /\ attempt'[r] = attempt[r]
<1>2. ASSUME NEW r \in Roots, RootStep(r) PROVE Still
  <2>1. CASE Request(r) \/ Resume(r) \/ AfterCommit(r)
    BY <2>1 DEF Request, Resume, AfterCommit, scopeVars, callbackVars
  <2>2. CASE BeginTransaction(r)
    BY <1>1, <2>2 DEF BeginTransaction, callbackVars
  <2>3. CASE BeginFails(r) \/ Commit(r) \/ CommitFails(r) \/ Rollback(r) \/ RollbackFails(r)
    <3>1. known' \subseteq known /\ stage[r] \notin {"committed", "failed"}
      BY <2>3 DEF BeginFails, Commit, CommitFails, Rollback, RollbackFails
    <3>2. \A s \in Roots \ {r} : stage'[s] = stage[s]
      BY <2>3, LeavesNone
    <3>3. \A s \in Roots \ {r} : attempt'[s] = attempt[s]
      BY <1>1, <2>3 DEF BeginFails, Commit, CommitFails, Rollback, RollbackFails
    <3> QED
      BY <3>1, <3>2, <3>3
  <2> QED
    BY <1>2, <2>1, <2>2, <2>3 DEF RootStep
<1>3. ASSUME NEW s \in Scopes, ScopeStep(s) PROVE Still
  <2>1. CASE RegisterRollback(s) \/ Write(s) \/ RegisterCommit(s)
    BY <2>1 DEF RegisterRollback, Write, RegisterCommit
  <2>2. CASE End(s) \/ AfterRollback(s)
    BY <1>1, <2>2 DEF End, InCallback, AfterRollback, callbackVars
  <2>3. CASE Settled(s)
    <3>1. UNCHANGED <<attempt, known>> /\ stage[s] \in {"undone", "redo"}
      BY <2>3 DEF Settled
    <3>2. \A r \in Roots \ {s} : stage'[r] = stage[r]
      <4>1. CASE s \in Roots
        BY <1>1, <2>3, <4>1, RetryStage, GiveUpStage DEF Settled
      <4>2. CASE s \in Savepoints
        <5>1. GiveUp(s)
          BY <2>3, <4>2 DEF Settled, Inv, TransactionInv, NestInv
        <5> QED
          BY <1>1, <5>1, GiveUpStage
      <4> QED
        BY <4>1, <4>2 DEF Scopes
    <3> QED
      BY <3>1, <3>2
  <2> QED
    BY <1>3, <2>1, <2>2, <2>3 DEF ScopeStep
<1>4. ASSUME NEW s \in Savepoints, SavepointStep(s) PROVE Still
  BY <1>1, <1>4 DEF SavepointStep, Start, CreateSavepoint, ReleaseSavepoint, ReleaseFails,
     RollbackToSavepoint, RollbackToFails, callbackVars
<1>5. ASSUME NEW q \in Queries, Statement(q) PROVE Still
  BY <1>5 DEF Statement, scopeVars, callbackVars
<1>6. CASE UNCHANGED vars
  BY <1>6 DEF vars, scopeVars, callbackVars
<1> QED
  BY <1>2, <1>3, <1>4, <1>5, <1>6 DEF Next

(* Only a commit makes rows durable, and these belong to the attempt that commits. *)
LEMMA DurableGrows ==
  ASSUME Inv, Structured, [Next]_vars
  PROVE  \/ durable' = durable
         \/ \E r \in Roots :
              /\ durable' \subseteq durable \cup {row \in Rows : Own(r, row)}
              /\ attempt' = attempt
              /\ stage'[r] = "committed" \/ (stage'[r] = "failed" /\ r \notin known')
<1>1. /\ stage \in [Scopes -> Stages] /\ Roots \subseteq Scopes /\ Savepoints \subseteq Scopes
  BY Shaped DEF Inv, Shapes, Scopes
<1>2. ASSUME NEW r \in Roots, CommitLayers, stage[r] = "returned", UNCHANGED attempt
      PROVE  durable' \subseteq durable \cup {row \in Rows : Own(r, row)}
  <2>1. r \in Running /\ RootOf(r) = r
    BY <1>1, <1>2, RootOfRoot DEF Running
  <2>2. \A i \in 1 .. Len(layers) : \A row \in layers[i].rows : Own(r, row)
    BY <2>1, RootLayer
  <2> QED
    BY <1>2, <2>2 DEF CommitLayers, LayerRows
<1> DEFINE Goal == \/ durable' = durable
                   \/ \E r \in Roots :
                        /\ durable' \subseteq durable \cup {row \in Rows : Own(r, row)}
                        /\ attempt' = attempt
                        /\ stage'[r] = "committed" \/ (stage'[r] = "failed" /\ r \notin known')
<1>3. ASSUME NEW r \in Roots, RootStep(r) PROVE Goal
  <2>1. CASE Commit(r)
    <3>1. /\ CommitLayers /\ stage[r] = "returned" /\ UNCHANGED attempt /\ stage'[r] = "committed"
      BY <1>1, <2>1 DEF Commit
    <3> QED
      BY <1>2, <3>1
  <2>2. CASE CommitFails(r)
    <3>1. CASE CommitLayers /\ GiveUp(r)
      <4>1. stage[r] = "returned" /\ UNCHANGED attempt /\ stage'[r] = "failed" /\ r \notin known'
        BY <1>1, <2>2, <3>1 DEF CommitFails, GiveUp
      <4> QED
        BY <1>2, <3>1, <4>1
    <3>2. CASE DropLayers \/ UNCHANGED driverVars
      BY <3>2 DEF DropLayers, driverVars
    <3> QED
      BY <2>2, <3>1, <3>2 DEF CommitFails
  <2>3. CASE ~ Commit(r) /\ ~ CommitFails(r)
    <3>1. durable' = durable
      BY <1>3, <2>3 DEF RootStep, Request, Resume, BeginTransaction, BeginFails, Rollback, RollbackFails,
         AfterCommit, OpenLayer, DropLayers, driverVars
    <3> QED
      BY <3>1
  <2> QED
    BY <2>1, <2>2, <2>3
<1>4. ASSUME NEW s \in Scopes, ScopeStep(s) PROVE Goal
  <2>1. CASE Write(s)
    BY <2>1, StackWrite
  <2>2. CASE ~ Write(s)
    <3>1. durable' = durable
      BY <1>4, <2>2 DEF ScopeStep, RegisterRollback, RegisterCommit, End, AfterRollback, Settled, driverVars
    <3> QED
      BY <3>1
  <2> QED
    BY <2>1, <2>2
<1>5. ASSUME NEW s \in Savepoints, SavepointStep(s) PROVE Goal
  <2>1. CASE ReleaseSavepoint(s) \/ RollbackToSavepoint(s)
    <3>1. PICK i \in LayersOf(s) : MergeLayer(i) \/ EmptyLayer(i)
      BY <2>1 DEF ReleaseSavepoint, RollbackToSavepoint
    <3>2. PICK v \in {"saved", "undone"} : stage' = [stage EXCEPT ![s] = v]
      BY <2>1 DEF ReleaseSavepoint, RollbackToSavepoint
    <3>3. stage[s] \in {"returned", "threw"} /\ UNCHANGED attempt
      BY <2>1 DEF ReleaseSavepoint, RollbackToSavepoint
    <3>4. durable' = durable
      BY <3>1, <3>2, <3>3, StackCut
    <3> QED
      BY <3>4
  <2>2. CASE ~ ReleaseSavepoint(s) /\ ~ RollbackToSavepoint(s)
    <3>1. durable' = durable
      BY <1>5, <2>2 DEF SavepointStep, Start, CreateSavepoint, ReleaseFails, RollbackToFails,
         OpenLayer, driverVars
    <3> QED
      BY <3>1
  <2> QED
    BY <2>1, <2>2
<1>6. ASSUME NEW q \in Queries, Statement(q) PROVE Goal
  <2>1. durable' = durable
    <3>1. q \notin Rows
      BY NestingAssumption
    <3> QED
      BY <1>6, <3>1 DEF Statement, Put, driverVars
  <2> QED
    BY <2>1
<1>7. CASE UNCHANGED vars
  BY <1>7 DEF vars, driverVars
<1> QED
  BY <1>3, <1>4, <1>5, <1>6, <1>7 DEF Next

LEMMA DurableStays ==
  ASSUME Inv, Structured, [Next]_vars
  PROVE  DurableInv' /\ durable' \subseteq Rows
<1>1. durable \subseteq Rows /\ \A row \in Rows : row[1] \in Scopes
  BY DEF Inv, TypeOK, Rows
<1>2. /\ known' \subseteq known
      /\ \A r \in Roots : stage[r] \in {"committed", "failed"} =>
           stage'[r] = stage[r] /\ attempt'[r] = attempt[r]
  BY EndedStays
<1>3. ASSUME NEW row \in durable
      PROVE  /\ row[2] = attempt'[RootOf(row[1])]
             /\ \/ stage'[RootOf(row[1])] = "committed"
                \/ stage'[RootOf(row[1])] = "failed" /\ RootOf(row[1]) \notin known'
  <2>1. RootOf(row[1]) \in Roots
    BY <1>1, OneRoot
  <2> QED
    BY <1>2, <2>1 DEF Inv, TransactionInv, DurableInv
<1>4. CASE durable' = durable
  BY <1>1, <1>3, <1>4 DEF DurableInv
<1>5. ASSUME NEW r \in Roots, durable' \subseteq durable \cup {row \in Rows : Own(r, row)}, attempt' = attempt,
             stage'[r] = "committed" \/ (stage'[r] = "failed" /\ r \notin known')
      PROVE  DurableInv' /\ durable' \subseteq Rows
  <2>1. ASSUME NEW row \in Rows, Own(r, row) PROVE RootOf(row[1]) = r /\ row[2] = attempt'[r]
    BY <1>1, <1>5, <2>1, OneRoot, RootOfRoot DEF Own
  <2> QED
    BY <1>1, <1>3, <1>5, <2>1 DEF DurableInv
<1> QED
  BY <1>4, <1>5, DurableGrows

-------------------------------------------------------------------------------
(* The types *)

LEMMA ScopeTypes ==
  ASSUME Inv, [Next]_vars
  PROVE  /\ stage' \in [Scopes -> Stages] /\ turn' \in [Scopes -> Seq(Savepoints)]
         /\ attempt' \in [Roots -> Nat] /\ \A r \in Roots : attempt'[r] <= MaxAttempts[r]
<1>1. /\ stage \in [Scopes -> Stages] /\ turn \in [Scopes -> Seq(Savepoints)]
      /\ attempt \in [Roots -> Nat] /\ \A r \in Roots : attempt[r] <= MaxAttempts[r]
      /\ Roots \subseteq Scopes /\ \A s \in Savepoints : s \in Scopes /\ Parent[s] \in Scopes
      /\ \A r \in Roots : MaxAttempts[r] \in Nat
  BY Shaped DEF Inv, Shapes, Scopes
<1> DEFINE Types == /\ stage' \in [Scopes -> Stages] /\ turn' \in [Scopes -> Seq(Savepoints)]
                    /\ attempt' \in [Roots -> Nat] /\ \A r \in Roots : attempt'[r] <= MaxAttempts[r]
<1>2. ASSUME NEW r \in Roots, stage[r] = "idle", attempt' = [attempt EXCEPT ![r] = @ + 1]
      PROVE  attempt' \in [Roots -> Nat] /\ \A s \in Roots : attempt'[s] <= MaxAttempts[s]
  <2>1. attempt[r] < MaxAttempts[r]
    BY <1>2 DEF Inv, TransactionInv, RootInv
  <2> QED
    BY <1>1, <1>2, <2>1
<1>3. ASSUME NEW r \in Roots, RootStep(r) PROVE Types
  <2>1. CASE Request(r) \/ Resume(r) \/ AfterCommit(r)
    BY <1>1, <2>1 DEF Request, Resume, AfterCommit, scopeVars
  <2>2. CASE BeginTransaction(r)
    BY <1>1, <1>2, <2>2 DEF BeginTransaction, Stages
  <2>3. CASE BeginFails(r)
    BY <1>1, <1>2, <2>3, RetryStage, GiveUpStage DEF BeginFails
  <2>4. CASE CommitFails(r) \/ RollbackFails(r)
    BY <1>1, <2>4, RetryStage, GiveUpStage DEF CommitFails, RollbackFails
  <2>5. CASE Commit(r) \/ Rollback(r)
    BY <1>1, <2>5 DEF Commit, Rollback, Stages
  <2> QED
    BY <1>3, <2>1, <2>2, <2>3, <2>4, <2>5 DEF RootStep
<1>4. ASSUME NEW s \in Scopes, ScopeStep(s) PROVE Types
  <2>1. CASE RegisterRollback(s) \/ Write(s) \/ RegisterCommit(s)
    BY <1>1, <2>1 DEF RegisterRollback, Write, RegisterCommit
  <2>2. CASE End(s) \/ AfterRollback(s)
    BY <1>1, <2>2 DEF End, AfterRollback, Stages
  <2>3. CASE Settled(s)
    <3>1. GiveUp(s) \/ (s \in Roots /\ \E n : Retry(s, n))
      BY <2>3 DEF Settled, Inv, TransactionInv, NestInv, Scopes
    <3>2. attempt' = attempt
      BY <2>3 DEF Settled
    <3> QED
      BY <1>1, <3>1, <3>2, RetryStage, GiveUpStage
  <2> QED
    BY <1>4, <2>1, <2>2, <2>3 DEF ScopeStep
<1>5. ASSUME NEW s \in Savepoints, SavepointStep(s) PROVE Types
  <2>1. attempt' = attempt /\ \E v \in Stages : stage' = [stage EXCEPT ![s] = v]
    BY <1>5 DEF SavepointStep, Start, CreateSavepoint, ReleaseSavepoint, ReleaseFails,
       RollbackToSavepoint, RollbackToFails, Stages
  <2>2. turn' \in [Scopes -> Seq(Savepoints)]
    <3>1. CASE Start(s)
      BY <1>1, <3>1 DEF Start
    <3>2. CASE ReleaseFails(s)
      BY <1>1, <3>2 DEF ReleaseFails
    <3>3. CASE CreateSavepoint(s) \/ ReleaseSavepoint(s) \/ RollbackToSavepoint(s) \/ RollbackToFails(s)
      <4>1. turn' = turn \/ turn' = [turn EXCEPT ![Parent[s]] = Tail(@)]
        BY <3>3 DEF CreateSavepoint, ReleaseSavepoint, RollbackToSavepoint, RollbackToFails
      <4>2. stage[s] \in Placed
        BY <3>3 DEF CreateSavepoint, ReleaseSavepoint, RollbackToSavepoint, RollbackToFails, Placed, Created
      <4>3. Tail(turn[Parent[s]]) \in Seq(Savepoints)
        BY <4>2, First
      <4> QED
        BY <1>1, <4>1, <4>3
    <3> QED
      BY <1>5, <3>1, <3>2, <3>3 DEF SavepointStep
  <2>3. stage' \in [Scopes -> Stages]
    BY <1>1, <2>1
  <2> QED
    BY <1>1, <2>1, <2>2, <2>3
<1>6. ASSUME NEW q \in Queries, Statement(q) PROVE Types
  BY <1>1, <1>6 DEF Statement, scopeVars
<1>7. CASE UNCHANGED vars
  BY <1>1, <1>7 DEF vars, scopeVars
<1> QED
  BY <1>3, <1>4, <1>5, <1>6, <1>7 DEF Next

(* The callbacks a scope holds go to its parent in their order, or are run one by one. *)
LEMMA HandedTypes ==
  ASSUME NEW held \in [Scopes -> Seq(Rows)], NEW s \in Savepoints
  PROVE  Handed(held, s, held[Parent[s]] \o held[s]) \in [Scopes -> Seq(Rows)]
<1>1. s \in Scopes /\ Parent[s] \in Scopes
  BY LineageStep
<1>2. <<>> \in Seq(Rows) /\ held[Parent[s]] \o held[s] \in Seq(Rows)
  BY <1>1
<1> DEFINE both == held[Parent[s]] \o held[s]
<1> HIDE DEF both
<1>3. [held EXCEPT ![Parent[s]] = both, ![s] = <<>>] \in [Scopes -> Seq(Rows)]
  BY <1>2 DEF both
<1> QED
  BY <1>3 DEF Handed, both

LEMMA EndsTypes ==
  ASSUME NEW held \in Seq(Rows), held # <<>>
  PROVE  /\ Head(held) \in Rows /\ Tail(held) \in Seq(Rows)
         /\ Last(held) \in Rows /\ Front(held) \in Seq(Rows)
<1>1. Head(held) \in Rows /\ Tail(held) \in Seq(Rows) /\ Len(held) \in Nat \ {0}
  OBVIOUS
<1>2. \A i \in 1 .. Len(held) : held[i] \in Rows
  BY ElementOfSeq
<1>3. Last(held) \in Rows
  BY <1>1, <1>2 DEF Last
<1>4. Front(held) \in Seq(Rows)
  BY <1>1, <1>2 DEF Front
<1> QED
  BY <1>1, <1>3, <1>4

LEMMA CallbackTypes ==
  ASSUME Inv, [Next]_vars
  PROVE  /\ {onCommit', onRollback'} \subseteq [Scopes -> Seq(Rows)]
         /\ fired' \subseteq {"commit", "rollback"} \X Rows
<1>1. /\ onCommit \in [Scopes -> Seq(Rows)] /\ onRollback \in [Scopes -> Seq(Rows)]
      /\ fired \subseteq {"commit", "rollback"} \X Rows
      /\ Roots \subseteq Scopes /\ \A s \in Savepoints : s \in Scopes /\ Parent[s] \in Scopes
      /\ <<>> \in Seq(Rows)
  BY DEF Inv, TypeOK, Scopes
<1> DEFINE Types == /\ onCommit' \in [Scopes -> Seq(Rows)] /\ onRollback' \in [Scopes -> Seq(Rows)]
                    /\ fired' \subseteq {"commit", "rollback"} \X Rows
<1>2. ASSUME UNCHANGED <<onCommit, onRollback, fired>> PROVE Types
  BY <1>1, <1>2
<1>3. ASSUME NEW s \in Scopes, GiveUp(s) \/ \E n : Retry(s, n), UNCHANGED fired PROVE Types
  <2>1. onCommit' = [onCommit EXCEPT ![s] = <<>>] /\ onRollback' = [onRollback EXCEPT ![s] = <<>>]
    BY <1>3 DEF GiveUp, Retry
  <2> QED
    BY <1>1, <1>3, <2>1
<1>4. ASSUME NEW s \in Scopes, stage[s] = "open" PROVE Name(s) \in Rows
  BY <1>4, NameIsRow DEF Running
<1>5. ASSUME NEW r \in Roots, RootStep(r) PROVE Types
  <2>1. CASE Request(r) \/ Resume(r) \/ BeginTransaction(r) \/ Commit(r) \/ Rollback(r)
    BY <1>2, <2>1 DEF Request, Resume, BeginTransaction, Commit, Rollback, callbackVars
  <2>2. CASE BeginFails(r) \/ CommitFails(r) \/ RollbackFails(r)
    BY <1>1, <1>3, <2>2 DEF BeginFails, CommitFails, RollbackFails
  <2>3. CASE AfterCommit(r)
    <3>1. onCommit[r] \in Seq(Rows) /\ onCommit[r] # <<>> /\ r \in Scopes
      BY <1>1, <2>3 DEF AfterCommit
    <3>2. Head(onCommit[r]) \in Rows /\ Tail(onCommit[r]) \in Seq(Rows)
      BY <3>1, EndsTypes
    <3>3. fired' \subseteq {"commit", "rollback"} \X Rows
      BY <1>1, <2>3, <3>2 DEF AfterCommit
    <3>4. onRollback' = onRollback /\ \E held \in Seq(Rows) : onCommit' = [onCommit EXCEPT ![r] = held]
      BY <1>1, <2>3, <3>2 DEF AfterCommit
    <3> QED
      BY <1>1, <3>3, <3>4
  <2> QED
    BY <1>5, <2>1, <2>2, <2>3 DEF RootStep
<1>6. ASSUME NEW s \in Scopes, ScopeStep(s) PROVE Types
  <2>1. CASE Write(s) \/ End(s)
    BY <1>2, <2>1 DEF Write, End, callbackVars
  <2>2. CASE RegisterRollback(s) \/ RegisterCommit(s)
    <3>1. Name(s) \in Rows
      BY <1>4, <2>2 DEF RegisterRollback, RegisterCommit, InCallback
    <3> DEFINE name == Name(s)
    <3>2. \A held \in Seq(Rows) : Append(held, name) \in Seq(Rows)
      BY <3>1
    <3> HIDE DEF name
    <3>3. \/ UNCHANGED <<onCommit, fired>> /\ onRollback' = [onRollback EXCEPT ![s] = Append(@, name)]
          \/ UNCHANGED <<onRollback, fired>> /\ onCommit' = [onCommit EXCEPT ![s] = Append(@, name)]
      BY <2>2 DEF RegisterRollback, RegisterCommit, name
    <3>4. Append(onRollback[s], name) \in Seq(Rows) /\ Append(onCommit[s], name) \in Seq(Rows)
      BY <1>1, <3>2
    <3>5. CASE UNCHANGED <<onCommit, fired>> /\ onRollback' = [onRollback EXCEPT ![s] = Append(@, name)]
      BY <1>1, <3>4, <3>5
    <3>6. CASE UNCHANGED <<onRollback, fired>> /\ onCommit' = [onCommit EXCEPT ![s] = Append(@, name)]
      BY <1>1, <3>4, <3>6
    <3> QED
      BY <3>3, <3>5, <3>6
  <2>3. CASE AfterRollback(s)
    <3>1. Last(onRollback[s]) \in Rows /\ Front(onRollback[s]) \in Seq(Rows)
      BY <1>1, <2>3, EndsTypes DEF AfterRollback
    <3> QED
      BY <1>1, <2>3, <3>1 DEF AfterRollback
  <2>4. CASE Settled(s)
    BY <1>3, <2>4 DEF Settled
  <2> QED
    BY <1>6, <2>1, <2>2, <2>3, <2>4 DEF ScopeStep
<1>7. ASSUME NEW s \in Savepoints, SavepointStep(s) PROVE Types
  <2>1. CASE Start(s) \/ CreateSavepoint(s) \/ ReleaseFails(s) \/ RollbackToSavepoint(s)
    BY <1>2, <2>1 DEF Start, CreateSavepoint, ReleaseFails, RollbackToSavepoint, callbackVars
  <2>2. CASE ReleaseSavepoint(s)
    BY <1>1, <2>2, HandedTypes DEF ReleaseSavepoint
  <2>3. CASE RollbackToFails(s)
    BY <1>1, <2>3 DEF RollbackToFails
  <2> QED
    BY <1>7, <2>1, <2>2, <2>3 DEF SavepointStep
<1>8. ASSUME NEW q \in Queries, Statement(q) PROVE Types
  BY <1>2, <1>8 DEF Statement, callbackVars
<1>9. CASE UNCHANGED vars
  BY <1>2, <1>9 DEF vars, callbackVars
<1> QED
  BY <1>5, <1>6, <1>7, <1>8, <1>9 DEF Next

LEMMA RestoreTypes ==
  ASSUME Inv, [Next]_vars
  PROVE  restores' \in [Scopes -> SUBSET Rows] /\ progress' \in [Scopes -> 0 .. 3] /\ known' \subseteq Roots
<1>1. /\ restores \in [Scopes -> SUBSET Rows] /\ progress \in [Scopes -> 0 .. 3] /\ known \subseteq Roots
      /\ Roots \subseteq Scopes /\ \A s \in Savepoints : s \in Scopes /\ Parent[s] \in Scopes
  BY DEF Inv, TypeOK, Scopes
<1> DEFINE Types == restores' \in [Scopes -> SUBSET Rows] /\ progress' \in [Scopes -> 0 .. 3]
<1>2. ASSUME UNCHANGED <<restores, progress>> PROVE Types
  BY <1>1, <1>2
<1>3. ASSUME NEW s \in Scopes, GiveUp(s) \/ \E n : Retry(s, n) PROVE Types
  <2>1. restores' = [restores EXCEPT ![s] = {}]
    BY <1>3 DEF GiveUp, Retry
  <2>2. progress' = progress \/ progress' = [Reset(s, progress, 0) EXCEPT ![s] = 0]
    BY <1>3 DEF GiveUp, Retry
  <2>3. Reset(s, progress, 0) \in [Scopes -> 0 .. 3]
    BY <1>1 DEF Reset
  <2> QED
    BY <1>1, <2>1, <2>2, <2>3
<1>4. ASSUME NEW r \in Roots, RootStep(r) PROVE Types
  <2>1. CASE Request(r) \/ Resume(r) \/ BeginTransaction(r) \/ AfterCommit(r)
    BY <1>2, <2>1 DEF Request, Resume, BeginTransaction, AfterCommit, callbackVars, scopeVars
  <2>2. CASE BeginFails(r) \/ CommitFails(r) \/ RollbackFails(r)
    BY <1>1, <1>3, <2>2 DEF BeginFails, CommitFails, RollbackFails
  <2>3. CASE Commit(r) \/ Rollback(r)
    BY <1>1, <2>3 DEF Commit, Rollback
  <2> QED
    BY <1>4, <2>1, <2>2, <2>3 DEF RootStep
<1>5. ASSUME NEW s \in Scopes, ScopeStep(s) PROVE Types
  <2>1. CASE RegisterRollback(s) \/ RegisterCommit(s)
    BY <1>1, <2>1 DEF RegisterRollback, RegisterCommit
  <2>2. CASE Write(s)
    <3>1. Name(s) \in Rows
      BY <2>2, NameIsRow DEF Write, InCallback, Running
    <3> QED
      BY <1>1, <2>2, <3>1 DEF Write
  <2>3. CASE End(s) \/ AfterRollback(s)
    BY <1>2, <2>3 DEF End, AfterRollback, callbackVars
  <2>4. CASE Settled(s)
    BY <1>3, <2>4 DEF Settled
  <2> QED
    BY <1>5, <2>1, <2>2, <2>3, <2>4 DEF ScopeStep
<1>6. ASSUME NEW s \in Savepoints, SavepointStep(s) PROVE Types
  BY <1>1, <1>6 DEF SavepointStep, Start, CreateSavepoint, ReleaseSavepoint, ReleaseFails,
     RollbackToSavepoint, RollbackToFails, RestoresToParent, callbackVars
<1>7. ASSUME NEW q \in Queries, Statement(q) PROVE Types
  BY <1>2, <1>7 DEF Statement, scopeVars, callbackVars
<1>8. known' \subseteq Roots
  BY <1>1, EndedStays
<1>9. CASE UNCHANGED vars
  <2>1. UNCHANGED <<restores, progress>>
    BY <1>9 DEF vars, scopeVars, callbackVars
  <2> QED
    BY <1>1, <1>8, <2>1
<1> QED
  BY <1>4, <1>5, <1>6, <1>7, <1>8, <1>9 DEF Next

LEMMA TypesStay ==
  ASSUME Inv, Structured, [Next]_vars
  PROVE  TypeOK'
<1>1. SchedulerTypeOK'
  BY GateStep, SchedulerTypedNext DEF Inv
<1>2. /\ stage' \in [Scopes -> Stages] /\ turn' \in [Scopes -> Seq(Savepoints)]
      /\ attempt' \in [Roots -> Nat] /\ \A r \in Roots : attempt'[r] <= MaxAttempts[r]
  BY ScopeTypes
<1>3. layers' \in Seq(Layer) /\ durable' \subseteq Rows
  BY StackStays, DurableStays
<1>4. /\ {onCommit', onRollback'} \subseteq [Scopes -> Seq(Rows)]
      /\ fired' \subseteq {"commit", "rollback"} \X Rows
      /\ restores' \in [Scopes -> SUBSET Rows] /\ progress' \in [Scopes -> 0 .. 3] /\ known' \subseteq Roots
  BY CallbackTypes, RestoreTypes
<1> QED
  BY <1>1, <1>2, <1>3, <1>4 DEF TypeOK, Stages, Layer

-------------------------------------------------------------------------------
(* The theorems *)

LEMMA InvStep ==
  ASSUME Structured
  PROVE  Inv /\ [Next]_vars => Inv'
<1> SUFFICES ASSUME Inv, [Next]_vars PROVE Inv'
  OBVIOUS
<1>1. SchedulerInv'
  BY GateStep DEF Inv
<1>2. RootInv' /\ NestInv' /\ TurnInv' /\ ChainInv'
  BY RootStays, NestStays, TurnStays, ChainStays
<1>3. StackInv' /\ DurableInv' /\ TypeOK'
  BY StackStays, DurableStays, TypesStay
<1> QED
  BY <1>1, <1>2, <1>3 DEF Inv, TransactionInv

LEMMA Invariance ==
  ASSUME Structured
  PROVE  Spec => []Inv
<1>1. Inv /\ [Next]_vars => Inv'
  BY InvStep
<1> QED
  BY <1>1, InitInv, PTL DEF Spec

(* Every step of a media mutation is one of its transaction's, or none of it. *)
LEMMA MediaStep == [MediaNext]_<<vars, mediaVars>> => [Next]_vars
<1>1. ASSUME NEW m \in Media, PutFile(m) PROVE UNCHANGED vars
  BY <1>1 DEF PutFile
<1>2. ASSUME NEW r \in Roots, MediaRootStep(r) PROVE RootStep(r)
  BY <1>2 DEF MediaRootStep, MediaAfterCommit, RootStep
<1>3. ASSUME NEW s \in Scopes, MediaScopeStep(s) PROVE ScopeStep(s)
  BY <1>3 DEF MediaScopeStep, MediaAfterRollback, MediaEnd, ScopeStep
<1>4. ASSUME NEW s \in Savepoints, MediaSavepointStep(s) PROVE SavepointStep(s)
  BY <1>4 DEF MediaSavepointStep, MediaFails, SavepointStep
<1> QED
  BY <1>1, <1>2, <1>3, <1>4 DEF MediaNext, Next

LEMMA MediaInvariance ==
  ASSUME Structured
  PROVE  MediaSpec => []Inv
<1>1. MediaInit => Inv
  BY InitInv DEF MediaInit
<1>2. Inv /\ [Next]_vars => Inv'
  BY InvStep
<1> QED
  BY <1>1, <1>2, MediaStep, PTL DEF MediaSpec

(* The rows in the driver's transaction are those of the root transaction that runs. *)
LEMMA InvSeparate == Inv => Separate
<1> SUFFICES ASSUME Inv, NEW r \in Running \cap Roots, NEW row \in LayerRows(1)
             PROVE  row \in Rows /\ r \in Lineage[row[1]]
  BY DEF Separate
<1>1. PICK i \in 1 .. Len(layers) : row \in layers[i].rows
  BY DEF LayerRows
<1>2. Own(RootOf(r), row) /\ RootOf(r) = r
  BY <1>1, RootLayer, RootOfRoot
<1> QED
  BY <1>2 DEF Own

LEMMA InvAtomic == Inv => Atomic
<1> SUFFICES ASSUME Inv, NEW row \in durable
             PROVE  /\ row[2] = attempt[RootOf(row[1])]
                    /\ RootOf(row[1]) \in known => stage[RootOf(row[1])] = "committed"
  BY DEF Atomic
<1> QED
  BY DEF Inv, TransactionInv, DurableInv

(* TypeOK of Transactions: callbacks, layers and queues hold what they are for. *)
THEOREM TransactionTypes ==
  ASSUME Structured
  PROVE  Spec => []TypeOK
<1>1. Inv => TypeOK
  BY DEF Inv
<1> QED
  BY <1>1, Invariance, PTL

(* Separate: in whatever order root transactions, savepoints and plain statements come,
   a root transaction that awaits its savepoints shares the driver's transaction with nobody. *)
THEOREM TransactionsSeparate ==
  ASSUME Structured
  PROVE  Spec => []Separate
BY Invariance, InvSeparate, PTL

(* Atomic: what is durable was written in the last attempt of a root transaction, and this
   committed unless the driver's answer was lost. *)
THEOREM TransactionsAtomic ==
  ASSUME Structured
  PROVE  Spec => []Atomic
BY Invariance, InvAtomic, PTL

(* Separate and Atomic of a transaction with media mutations in it, which add no step to it. *)
THEOREM MediaTransactions ==
  ASSUME Structured
  PROVE  MediaSpec => [](Separate /\ Atomic)
BY MediaInvariance, InvSeparate, InvAtomic, PTL

-------------------------------------------------------------------------------
(* What makes CallbacksTellTruth and NothingForgotten inductive *)

Commits(s) == Range(onCommit[s])

Rollbacks(s) == Range(onRollback[s])

(* A scope that has not started has done nothing. *)
FreshInv ==
    \A s \in Scopes : stage[s] \in {"idle", "queued"} \/ stage[RootOf(s)] = "idle" => progress[s] = 0

(* A callback is held by the scope that registered it, or by one it was released into. *)
HeldInv ==
    /\ \A s \in Scopes : \A row \in Commits(s) \cup Rollbacks(s) :
         /\ stage[s] \notin {"idle", "queued", "saved", "failed"}
         /\ Own(s, row) /\ progress[row[1]] > 0
         /\ row[1] = s \/ stage[row[1]] = "saved"
    /\ \A s \in Running : progress[s] > 0 => Name(s) \in Rollbacks(s)

(* Who holds a row's afterCommit callback holds its afterRollback callback, and the other
   way round if both were registered, until they run. *)
PairInv ==
    \A s \in Scopes :
        /\ s \in Running \/ stage[s] = "committed"
              => Commits(s) \subseteq {row \in Rollbacks(s) : progress[row[1]] = 3}
        /\ \A row \in Rollbacks(s) : progress[row[1]] = 3 =>
              /\ s \in Running => row \in Commits(s)
              /\ stage[s] = "committed" /\ s \in known
                    => row \in Commits(s) \/ <<"commit", row>> \in fired

(* A row is in the layers of the scopes around it that run, and none of these is to start. *)
InsideInv ==
    \A j \in DOMAIN layers : \A row \in layers[j].rows \cap Rows : \A s \in Lineage[row[1]] :
        /\ s \in Running => \A i \in LayersOf(s) : i <= j
        /\ RootOf(s) \in Running => stage[s] \notin {"idle", "queued"}

(* While a scope runs, the rows it holds callbacks of are below every savepoint that runs
   inside it; when it ends, they are durable or gone. *)
KeptInv ==
    \A s \in Scopes : \A row \in Rollbacks(s) :
        /\ progress[row[1]] > 1 =>
             /\ stage[s] = "committed" => row \in durable
             /\ s \in Running =>
                  \E j \in DOMAIN layers :
                      /\ row \in layers[j].rows
                      /\ \A t \in Running \ {s} : s \in Lineage[t] => \A i \in LayersOf(t) : j < i
        /\ stage[s] \in {"undone", "redo"} => row \notin durable \cup LayerRows(1)

(* A row whose afterRollback callback ran is not written again. *)
FiredInv ==
    /\ CallbacksTellTruth
    /\ \A row \in Rows : <<"rollback", row>> \in fired =>
         LET r == RootOf(row[1])
         IN  /\ row[2] <= attempt[r]
             /\ \/ row[2] < attempt[r] \/ stage[r] = "idle"
                \/ stage[row[1]] \in {"undone", "redo", "saved", "failed"}

(* The callbacks of a scope that has registered some are held, or ran. *)
TrackInv ==
    \A s \in Scopes : RootOf(s) \in known /\ progress[s] > 0 =>
        \/ stage[RootOf(s)] = "failed"
        \/ <<"rollback", Name(s)>> \in fired
        \/ \E t \in Lineage[s] : Name(s) \in Rollbacks(t)

CallbackInv == FreshInv /\ HeldInv /\ PairInv /\ InsideInv /\ KeptInv /\ FiredInv /\ TrackInv

-------------------------------------------------------------------------------
(* The callbacks: what the steps do to them, to rows and to attempts *)

LEMMA RangeEmpty == Range(<<>>) = {}
BY DEF Range

LEMMA RangeAppend ==
  ASSUME NEW held \in Seq(Rows), NEW row \in Rows
  PROVE  Range(Append(held, row)) = Range(held) \cup {row}
<1> DEFINE n == Len(held)
<1>1. /\ n \in Nat /\ DOMAIN held = 1 .. n /\ DOMAIN Append(held, row) = 1 .. (n + 1)
      /\ \A i \in 1 .. n : Append(held, row)[i] = held[i]
      /\ Append(held, row)[n + 1] = row
  BY AppendProperties
<1> DEFINE longer == Append(held, row)
<1> HIDE DEF n, longer
<1>2. Range(longer) \subseteq Range(held) \cup {row}
  BY <1>1 DEF Range, longer
<1>3. Range(held) \cup {row} \subseteq Range(longer)
  BY <1>1 DEF Range, longer
<1> QED
  BY <1>2, <1>3 DEF longer

LEMMA RangeEnds ==
  ASSUME NEW held \in Seq(Rows), held # <<>>
  PROVE  /\ Head(held) \in Range(held) /\ Last(held) \in Range(held)
         /\ Range(Tail(held)) \subseteq Range(held) /\ Range(held) \subseteq Range(Tail(held)) \cup {Head(held)}
         /\ Range(Front(held)) \subseteq Range(held) /\ Range(held) \subseteq Range(Front(held)) \cup {Last(held)}
<1> DEFINE n == Len(held)
<1>1. /\ n \in Nat \ {0} /\ DOMAIN held = 1 .. n /\ Head(held) = held[1] /\ Last(held) = held[n]
      /\ DOMAIN Tail(held) = 1 .. (n - 1) /\ \A i \in 1 .. (n - 1) : Tail(held)[i] = held[i + 1]
  BY HeadTailProperties DEF Last
<1>2. /\ DOMAIN Front(held) = 1 .. (n - 1) /\ \A i \in 1 .. (n - 1) : Front(held)[i] = held[i]
  BY <1>1 DEF Front
<1> DEFINE tail == Tail(held)
           front == Front(held)
           first == Head(held)
           last == Last(held)
<1> HIDE DEF n, tail, front, first, last
<1>3. first \in Range(held) /\ last \in Range(held)
  BY <1>1 DEF Range, first, last
<1>4. Range(tail) \subseteq Range(held) /\ Range(front) \subseteq Range(held)
  BY <1>1, <1>2 DEF Range, tail, front
<1>5. Range(held) \subseteq Range(tail) \cup {first}
  <2> SUFFICES ASSUME NEW i \in 1 .. n, i # 1 PROVE held[i] \in Range(tail)
    BY <1>1 DEF Range, first
  <2>1. i - 1 \in 1 .. (n - 1) /\ held[i] = tail[i - 1]
    BY <1>1 DEF tail
  <2> QED
    BY <1>1, <2>1 DEF Range, tail
<1>6. Range(held) \subseteq Range(front) \cup {last}
  BY <1>1, <1>2 DEF Range, front, last
<1> QED
  BY <1>3, <1>4, <1>5, <1>6 DEF tail, front, first, last

LEMMA RowFacts ==
  ASSUME NEW row \in Rows
  PROVE  /\ row[1] \in Scopes /\ row[2] \in Nat /\ row[2] > 0 /\ row = <<row[1], row[2]>>
         /\ RootOf(row[1]) \in Roots /\ RootOf(row[1]) \in Lineage[row[1]]
<1>1. PICK s \in Scopes : row \in {s} \X (1 .. MaxAttempts[RootOf(s)])
  BY DEF Rows
<1>2. RootOf(s) \in Roots /\ RootOf(s) \in Lineage[s]
  BY OneRoot
<1> QED
  BY <1>1, <1>2

LEMMA Shown ==
  ASSUME Inv
  PROVE  /\ stage \in [Scopes -> Stages] /\ attempt \in [Roots -> Nat] /\ progress \in [Scopes -> 0 .. 3]
         /\ onCommit \in [Scopes -> Seq(Rows)] /\ onRollback \in [Scopes -> Seq(Rows)]
         /\ \A s \in Scopes : Commits(s) \subseteq Rows /\ Rollbacks(s) \subseteq Rows
         /\ durable \subseteq Rows /\ fired \subseteq {"commit", "rollback"} \X Rows /\ known \subseteq Roots
         /\ layers \in Seq(Layer) /\ Len(layers) \in Nat /\ DOMAIN layers = 1 .. Len(layers)
         /\ Roots \subseteq Scopes /\ \A s \in Savepoints : s \in Scopes /\ s \notin Roots /\ Parent[s] \in Scopes
<1>1. /\ stage \in [Scopes -> Stages] /\ attempt \in [Roots -> Nat] /\ layers \in Seq(Layer)
      /\ Roots \subseteq Scopes /\ \A s \in Savepoints : s \in Scopes /\ s \notin Roots /\ Parent[s] \in Scopes
  BY Shaped DEF Inv, Shapes, Scopes
<1>2. /\ progress \in [Scopes -> 0 .. 3]
      /\ onCommit \in [Scopes -> Seq(Rows)] /\ onRollback \in [Scopes -> Seq(Rows)]
      /\ durable \subseteq Rows /\ fired \subseteq {"commit", "rollback"} \X Rows /\ known \subseteq Roots
  BY DEF Inv, TypeOK
<1>3. ASSUME NEW s \in Scopes PROVE Commits(s) \subseteq Rows /\ Rollbacks(s) \subseteq Rows
  BY <1>2, RangeOfSeq DEF Commits, Rollbacks
<1> QED
  BY <1>1, <1>2, <1>3

(* A scope that ends holds no callbacks any more. *)
LEMMA GivenUp ==
  ASSUME Inv, NEW s \in Scopes, GiveUp(s)
  PROVE  /\ Commits(s)' = {} /\ Rollbacks(s)' = {} /\ progress' = progress /\ stage'[s] = "failed"
         /\ \A t \in Scopes \ {s} : /\ Commits(t)' = Commits(t) /\ Rollbacks(t)' = Rollbacks(t)
                                    /\ stage'[t] = stage[t]
<1>1. /\ onCommit' = [onCommit EXCEPT ![s] = <<>>] /\ onRollback' = [onRollback EXCEPT ![s] = <<>>]
      /\ progress' = progress /\ stage' = [stage EXCEPT ![s] = "failed"]
  BY DEF GiveUp
<1> QED
  BY <1>1, Shown, RangeEmpty DEF Commits, Rollbacks

LEMMA Retried ==
  ASSUME Inv, NEW r \in Roots, NEW n, Retry(r, n)
  PROVE  /\ Commits(r)' = {} /\ Rollbacks(r)' = {}
         /\ \A s \in Scopes \ {r} : Commits(s)' = Commits(s) /\ Rollbacks(s)' = Rollbacks(s)
         /\ \A s \in Scopes : RootOf(s) = r => stage'[s] = "idle" /\ progress'[s] = 0
         /\ \A s \in Scopes : RootOf(s) # r => stage'[s] = stage[s] /\ progress'[s] = progress[s]
<1>1. /\ onCommit' = [onCommit EXCEPT ![r] = <<>>] /\ onRollback' = [onRollback EXCEPT ![r] = <<>>]
      /\ progress' = [Reset(r, progress, 0) EXCEPT ![r] = 0]
  BY DEF Retry
<1>2. /\ Commits(r)' = {} /\ Rollbacks(r)' = {}
      /\ \A s \in Scopes \ {r} : Commits(s)' = Commits(s) /\ Rollbacks(s)' = Rollbacks(s)
  BY <1>1, Shown, RangeEmpty DEF Commits, Rollbacks
<1>3. \A s \in Scopes : r \in Lineage[s] <=> RootOf(s) = r
  BY OneRoot
<1>4. \A s \in Scopes : progress'[s] = IF r \in Lineage[s] THEN 0 ELSE progress[s]
  <2>1. r \in Lineage[r] /\ r \in Scopes
    BY Nested, Shown
  <2> QED
    BY <1>1, <2>1 DEF Reset
<1>5. \A s \in Scopes : stage'[s] = IF r \in Lineage[s] THEN "idle" ELSE stage[s]
  BY RetryStage
<1> QED
  BY <1>2, <1>3, <1>4, <1>5

(* What is in the driver's layers or durable does not get out of there by itself, and only a
   write puts another row there. *)
LEMMA Driven ==
  ASSUME Inv, Structured, [Next]_vars
  PROVE  /\ durable \subseteq durable'
         /\ \A row \in Rows : row \in (durable \cup LayerRows(1))' =>
              row \in durable \cup LayerRows(1) \/ \E s \in Scopes : Write(s) /\ row = Name(s)
<1> DEFINE Out == /\ durable \subseteq durable'
                  /\ \A row \in Rows : row \in (durable \cup LayerRows(1))' => row \in durable \cup LayerRows(1)
           Goal == /\ durable \subseteq durable'
                   /\ \A row \in Rows : row \in (durable \cup LayerRows(1))' =>
                        row \in durable \cup LayerRows(1) \/ \E s \in Scopes : Write(s) /\ row = Name(s)
<1>1. ASSUME UNCHANGED driverVars PROVE Out
  BY <1>1 DEF driverVars, LayerRows
<1>2. ASSUME CommitLayers \/ DropLayers PROVE Out
  <2>1. LayerRows(1)' = {}
    <3>1. Len(<<>>) = 0
      OBVIOUS
    <3> QED
      BY <1>2, <3>1 DEF CommitLayers, DropLayers, LayerRows
  <2> QED
    BY <1>2, <2>1 DEF CommitLayers, DropLayers
<1>3. ASSUME NEW s \in Scopes, OpenLayer(s) PROVE Out
  <2>1. /\ durable' = durable /\ Len(layers) \in Nat /\ Len(layers') = Len(layers) + 1
        /\ \A i \in 1 .. Len(layers) : layers'[i] = layers[i]
        /\ layers'[Len(layers')].rows = {}
    <3>1. layers'[Len(layers')] = [scope |-> s, rows |-> {}]
      BY <1>3, Shown, OpenStep
    <3>2. layers'[Len(layers')].rows = {}
      BY <3>1
    <3> QED
      BY <1>3, <3>2, Shown, OpenStep
  <2> DEFINE n == Len(layers)
             m == Len(layers')
  <2>2. n \in Nat /\ m = n + 1 /\ \A i \in 1 .. n : layers'[i] = layers[i]
    BY <2>1
  <2>3. LayerRows(1)' \subseteq LayerRows(1)
    <3> SUFFICES ASSUME NEW row, NEW i \in 1 .. m, row \in layers'[i].rows PROVE row \in LayerRows(1)
      BY DEF LayerRows
    <3> HIDE DEF n
    <3>1. i \in 1 .. n
      <4>1. i # m
        BY <2>1
      <4> HIDE DEF m
      <4> QED
        BY <2>2, <4>1
    <3> QED
      BY <2>2, <3>1 DEF LayerRows, n
  <2> QED
    BY <2>1, <2>3
<1>4. ASSUME NEW u \in Savepoints, stage[u] \in {"returned", "threw"},
             NEW i \in LayersOf(u), MergeLayer(i) \/ EmptyLayer(i), durable' = durable
      PROVE  Out
  <2>1. u \in Running /\ layers[1].scope = RootOf(u) /\ RootOf(u) # u
    <3>1. u \in Running
      BY <1>4, Shown DEF Running
    <3> QED
      BY <3>1, RootLayer, OneRoot, Shown
  <2>2. i \in DOMAIN layers /\ i # 1
    BY <2>1 DEF LayersOf
  <2>3. i \in 1 .. Len(layers) /\ Len(layers) \in Nat
    BY <2>2, Shown
  <2>4. LayerRows(1)' \subseteq LayerRows(1)
    <3> SUFFICES ASSUME NEW row, NEW j \in 1 .. Len(layers'), row \in layers'[j].rows PROVE row \in LayerRows(1)
      BY DEF LayerRows
    <3>1. CASE MergeLayer(i)
      <4>1. /\ Len(layers') = i - 1
            /\ \A k \in 1 .. i - 1 :
                 layers'[k].rows = IF k = i - 1 THEN layers[k].rows \cup LayerRows(i) ELSE layers[k].rows
        BY <2>2, <3>1, Shown, MergeStep
      <4>2. row \in layers[j].rows \/ row \in LayerRows(i)
        BY <4>1
      <4>3. j \in 1 .. Len(layers)
        BY <2>3, <4>1
      <4>4. LayerRows(i) \subseteq LayerRows(1)
        BY <2>3 DEF LayerRows
      <4> QED
        BY <4>2, <4>3, <4>4 DEF LayerRows
    <3>2. CASE EmptyLayer(i)
      <4>1. /\ Len(layers') = i
            /\ \A k \in 1 .. i : layers'[k].rows = IF k = i THEN {} ELSE layers[k].rows
        BY <2>2, <3>2, Shown, EmptyStep
      <4>2. row \in layers[j].rows /\ j \in 1 .. Len(layers)
        BY <2>3, <4>1
      <4> QED
        BY <4>2 DEF LayerRows
    <3> QED
      BY <1>4, <3>1, <3>2
  <2> QED
    BY <1>4, <2>4
<1>5. ASSUME NEW put \in Rows \cup Queries, Put(put)
      PROVE  /\ durable \subseteq durable'
             /\ \A row \in Rows : row \in (durable \cup LayerRows(1))' => row \in durable \cup LayerRows(1) \cup {put}
  <2>1. CASE layers = <<>>
    BY <1>5, <2>1 DEF Put, LayerRows
  <2>2. CASE layers # <<>>
    <3>1. /\ durable' = durable /\ Len(layers') = Len(layers)
          /\ \A i \in 1 .. Len(layers) :
               layers'[i].rows = IF i = Len(layers) THEN layers[i].rows \cup {put} ELSE layers[i].rows
      BY <1>5, <2>2, Shown, PutStep
    <3>2. LayerRows(1)' \subseteq LayerRows(1) \cup {put}
      <4> SUFFICES ASSUME NEW row, NEW i \in 1 .. Len(layers), row \in layers'[i].rows
                   PROVE  row \in LayerRows(1) \cup {put}
        BY <3>1 DEF LayerRows
      <4>1. row \in layers[i].rows \/ row = put
        BY <3>1
      <4> QED
        BY <4>1 DEF LayerRows
    <3> QED
      BY <3>1, <3>2
  <2> QED
    BY <2>1, <2>2
<1>6. ASSUME NEW r \in Roots, RootStep(r) PROVE Out
  <2>1. r \in Scopes
    BY Shown
  <2>2. UNCHANGED driverVars \/ CommitLayers \/ DropLayers \/ OpenLayer(r)
    BY <1>6 DEF RootStep, Request, Resume, BeginTransaction, BeginFails, Commit, CommitFails, Rollback,
       RollbackFails, AfterCommit
  <2> QED
    BY <1>1, <1>2, <1>3, <2>1, <2>2
<1>7. ASSUME NEW s \in Scopes, ScopeStep(s) PROVE Goal
  <2>1. CASE Write(s)
    <3>1. Put(Name(s)) /\ Name(s) \in Rows
      BY <2>1, NameIsRow DEF Write, InCallback, Running
    <3> QED
      BY <1>5, <2>1, <3>1
  <2>2. CASE ~ Write(s)
    <3>1. UNCHANGED driverVars
      BY <1>7, <2>2 DEF ScopeStep, RegisterRollback, RegisterCommit, End, AfterRollback, Settled
    <3> QED
      BY <1>1, <3>1
  <2> QED
    BY <2>1, <2>2
<1>8. ASSUME NEW s \in Savepoints, SavepointStep(s) PROVE Out
  <2>1. CASE ReleaseSavepoint(s) \/ RollbackToSavepoint(s)
    <3>1. PICK i \in LayersOf(s) : MergeLayer(i) \/ EmptyLayer(i)
      BY <2>1 DEF ReleaseSavepoint, RollbackToSavepoint
    <3>2. PICK v \in {"saved", "undone"} : stage' = [stage EXCEPT ![s] = v]
      BY <2>1 DEF ReleaseSavepoint, RollbackToSavepoint
    <3>3. stage[s] \in {"returned", "threw"} /\ UNCHANGED attempt
      BY <2>1 DEF ReleaseSavepoint, RollbackToSavepoint
    <3>4. durable' = durable
      BY <3>1, <3>2, <3>3, StackCut
    <3> QED
      BY <1>4, <3>1, <3>3, <3>4
  <2>2. CASE ~ ReleaseSavepoint(s) /\ ~ RollbackToSavepoint(s)
    <3>1. s \in Scopes
      BY Shown
    <3>2. UNCHANGED driverVars \/ OpenLayer(s)
      BY <1>8, <2>2 DEF SavepointStep, Start, CreateSavepoint, ReleaseFails, RollbackToFails
    <3> QED
      BY <1>1, <1>3, <3>1, <3>2
  <2> QED
    BY <2>1, <2>2
<1>9. ASSUME NEW q \in Queries, Statement(q) PROVE Out
  <2>1. q \notin Rows
    BY NestingAssumption
  <2>2. UNCHANGED driverVars \/ Put(q)
    BY <1>9 DEF Statement
  <2> QED
    BY <1>1, <1>5, <2>1, <2>2
<1>10. CASE UNCHANGED vars
  <2>1. Out
    BY <1>1, <1>10 DEF vars
  <2> QED
    BY <2>1
<1> QED
  BY <1>6, <1>7, <1>8, <1>9, <1>10 DEF Next

-------------------------------------------------------------------------------
(* The callbacks: what the invariant says of who holds them *)

Full == Inv /\ CallbackInv

Ending == {"undone", "redo", "saved", "failed"}

LEMMA Holder ==
  ASSUME Full, NEW s \in Scopes, NEW row \in Commits(s) \cup Rollbacks(s)
  PROVE  /\ row \in Rows /\ row[1] \in Scopes /\ s \in Lineage[row[1]] /\ row = Name(row[1])
         /\ RootOf(row[1]) = RootOf(s) /\ RootOf(s) \in Roots /\ row[2] = attempt[RootOf(s)]
         /\ stage[s] \notin {"idle", "queued", "saved", "failed"} /\ stage[RootOf(s)] # "idle"
         /\ progress[row[1]] > 0 /\ (row[1] = s \/ stage[row[1]] = "saved")
<1>1. /\ stage[s] \notin {"idle", "queued", "saved", "failed"}
      /\ Own(s, row) /\ progress[row[1]] > 0 /\ (row[1] = s \/ stage[row[1]] = "saved")
  BY DEF Full, CallbackInv, HeldInv
<1>2. row \in Rows /\ s \in Lineage[row[1]] /\ row[2] = attempt[RootOf(s)]
  BY <1>1 DEF Own
<1>3. row[1] \in Scopes /\ row = <<row[1], row[2]>>
  BY <1>2, RowFacts
<1>4. RootOf(row[1]) = RootOf(s) /\ RootOf(s) \in Roots
  BY <1>2, <1>3, RootOfInside, OneRoot
<1>5. row = Name(row[1])
  BY <1>2, <1>3, <1>4 DEF Name
<1>6. stage[RootOf(s)] # "idle"
  BY <1>1, <1>3, <1>4 DEF Full, CallbackInv, FreshInv
<1> QED
  BY <1>1, <1>2, <1>3, <1>4, <1>5, <1>6

(* A scope that has not started, was released or failed holds nothing, nor does one whose
   root transaction is between two attempts. *)
LEMMA HoldsNone ==
  ASSUME Full, NEW s \in Scopes,
         stage[s] \in {"idle", "queued", "saved", "failed"} \/ stage[RootOf(s)] = "idle"
  PROVE  Commits(s) = {} /\ Rollbacks(s) = {}
BY Holder

(* What rolled back stays so: its scope is not in its callback any more. *)
LEMMA StaysGone ==
  ASSUME Full, Structured, [Next]_vars, NEW row \in Rows,
         \/ <<"rollback", row>> \in fired
         \/ \E s \in Scopes : stage[s] \in {"undone", "redo"} /\ row \in Rollbacks(s)
  PROVE  row \notin (durable \cup LayerRows(1))'
<1>1. row \notin durable \cup LayerRows(1)
  BY DEF Full, CallbackInv, FiredInv, CallbacksTellTruth, KeptInv
<1>2. ~ \E s \in Scopes : Write(s) /\ row = Name(s)
  <2> SUFFICES ASSUME NEW s \in Scopes, Write(s), row = Name(s) PROVE FALSE
    OBVIOUS
  <2>1. row[1] = s /\ row[2] = attempt[RootOf(s)] /\ stage[s] = "open"
    BY DEF Write, InCallback, Name
  <2>2. stage[RootOf(s)] # "idle"
    BY <2>1, RootRuns DEF Running, Full
  <2>3. CASE <<"rollback", row>> \in fired
    <3>1. row[2] < attempt[RootOf(s)] \/ stage[RootOf(s)] = "idle" \/ stage[s] \in Ending
      BY <2>1, <2>3 DEF Full, CallbackInv, FiredInv, Ending
    <3>2. attempt[RootOf(s)] \in Nat
      BY OneRoot, Shown DEF Full
    <3> QED
      BY <2>1, <2>2, <3>1, <3>2 DEF Ending
  <2>4. ASSUME NEW t \in Scopes, stage[t] \in {"undone", "redo"}, row \in Rollbacks(t) PROVE FALSE
    BY <2>1, <2>4, Holder
  <2> QED
    BY <2>3, <2>4
<1> QED
  BY <1>1, <1>2, Driven DEF Full

(* The callbacks that ran keep telling the truth. *)
LEMMA FiredKept ==
  ASSUME Full, Structured, [Next]_vars,
         \A r \in Roots : /\ attempt'[r] \in Nat /\ attempt[r] <= attempt'[r]
                          /\ stage[r] = "idle" => stage'[r] = "idle" \/ attempt[r] < attempt'[r],
         \A s \in Scopes : stage[s] \in Ending => stage'[s] \in Ending \/ stage'[RootOf(s)] = "idle"
  PROVE  /\ \A row \in Rows :
              /\ <<"commit", row>> \in fired => row \in durable'
              /\ <<"rollback", row>> \in fired =>
                   /\ row \notin (durable \cup LayerRows(1))'
                   /\ row[2] <= attempt'[RootOf(row[1])]
                   /\ \/ row[2] < attempt'[RootOf(row[1])] \/ stage'[RootOf(row[1])] = "idle"
                      \/ stage'[row[1]] \in Ending
         /\ fired' = fired => FiredInv'
<1>1. ASSUME NEW row \in Rows, <<"commit", row>> \in fired PROVE row \in durable'
  BY <1>1, Driven DEF Full, CallbackInv, FiredInv, CallbacksTellTruth
<1>2. ASSUME NEW row \in Rows, <<"rollback", row>> \in fired
      PROVE  /\ row \notin (durable \cup LayerRows(1))'
             /\ row[2] <= attempt'[RootOf(row[1])]
             /\ \/ row[2] < attempt'[RootOf(row[1])] \/ stage'[RootOf(row[1])] = "idle"
                \/ stage'[row[1]] \in Ending
  <2>1. row \notin (durable \cup LayerRows(1))'
    BY <1>2, StaysGone
  <2>2. row[1] \in Scopes /\ row[2] \in Nat /\ RootOf(row[1]) \in Roots
    BY RowFacts
  <2>3. attempt[RootOf(row[1])] \in Nat
    BY <2>2, Shown DEF Full
  <2>4. /\ row[2] <= attempt[RootOf(row[1])]
        /\ \/ row[2] < attempt[RootOf(row[1])] \/ stage[RootOf(row[1])] = "idle"
           \/ stage[row[1]] \in Ending
    BY <1>2 DEF Full, CallbackInv, FiredInv, Ending
  <2> QED
    BY <2>1, <2>2, <2>3, <2>4
<1>3. ASSUME fired' = fired PROVE FiredInv'
  BY <1>1, <1>2, <1>3 DEF FiredInv, CallbacksTellTruth, Ending
<1> QED
  BY <1>1, <1>2, <1>3

(* FiredInv, InsideInv and TrackInv after the steps that leave them alone. *)
LEMMA FiredStays ==
  ASSUME Full, Structured, [Next]_vars, UNCHANGED <<attempt, fired>>,
         \A s \in Scopes : stage'[s] = stage[s] \/ stage[s] \notin Ending \cup {"idle"}
  PROVE  FiredInv'
<1>1. attempt \in [Roots -> Nat] /\ Roots \subseteq Scopes
  BY Shown DEF Full, Scopes
<1>2. \A r \in Roots : /\ attempt'[r] \in Nat /\ attempt[r] <= attempt'[r]
                       /\ stage[r] = "idle" => stage'[r] = "idle" \/ attempt[r] < attempt'[r]
  BY <1>1
<1>3. \A s \in Scopes : stage[s] \in Ending => stage'[s] \in Ending \/ stage'[RootOf(s)] = "idle"
  OBVIOUS
<1> QED
  BY <1>2, <1>3, FiredKept

LEMMA InsideStays ==
  ASSUME Full, UNCHANGED layers, Running' = Running,
         \A s \in Scopes : stage'[s] \in {"idle", "queued"} => stage[s] \in {"idle", "queued"}
  PROVE  InsideInv'
<1> SUFFICES ASSUME NEW j \in DOMAIN layers, NEW row \in layers[j].rows \cap Rows, NEW t \in Lineage[row[1]]
             PROVE  /\ t \in Running => \A i \in LayersOf(t)' : i <= j
                    /\ RootOf(t) \in Running => stage'[t] \notin {"idle", "queued"}
  BY DEF InsideInv
<1>1. t \in Scopes
  BY RowFacts, Nested
<1>2. /\ t \in Running => \A i \in LayersOf(t) : i <= j
      /\ RootOf(t) \in Running => stage[t] \notin {"idle", "queued"}
  BY DEF Full, CallbackInv, InsideInv
<1>3. LayersOf(t)' = LayersOf(t)
  BY DEF LayersOf
<1> QED
  BY <1>1, <1>2, <1>3

LEMMA TrackStays ==
  ASSUME Full, UNCHANGED <<attempt, onRollback>>, known' \subseteq known, fired \subseteq fired',
         \A s \in Scopes : progress'[s] > 0 => progress[s] > 0,
         \A s \in Scopes : stage[s] = "failed" => stage'[s] = "failed"
  PROVE  TrackInv'
<1> SUFFICES ASSUME NEW t \in Scopes, RootOf(t) \in known', progress'[t] > 0, stage'[RootOf(t)] # "failed",
                    <<"rollback", Name(t)'>> \notin fired'
             PROVE  \E x \in Lineage[t] : Name(t)' \in Rollbacks(x)'
  BY DEF TrackInv
<1>1. Name(t)' = Name(t) /\ RootOf(t) \in Scopes /\ Lineage[t] \subseteq Scopes
  BY OneRoot, Nested DEF Name, Scopes
<1>2. RootOf(t) \in known /\ progress[t] > 0 /\ stage[RootOf(t)] # "failed" /\ <<"rollback", Name(t)>> \notin fired
  BY <1>1
<1>3. PICK x \in Lineage[t] : Name(t) \in Rollbacks(x)
  BY <1>2 DEF Full, CallbackInv, TrackInv
<1>4. Rollbacks(x)' = Rollbacks(x)
  BY DEF Rollbacks
<1> QED
  BY <1>1, <1>3, <1>4

(* A step that moves scopes within their callbacks, queues them or refuses them. *)
LEMMA CallsAlike ==
  ASSUME Full, Structured, [Next]_vars,
         UNCHANGED <<attempt, progress, layers, durable, onCommit, onRollback, fired>>,
         known' \subseteq known,
         \A s \in Scopes : \/ stage'[s] = stage[s]
                           \/ s \in Running /\ stage'[s] \in {"returned", "threw", "conflict"}
                           \/ s \in Savepoints /\ stage[s] = "idle" /\ stage'[s] = "queued"
                           \/ s \in Savepoints /\ stage[s] = "queued" /\ stage'[s] = "failed"
  PROVE  CallbackInv'
<1>1. /\ Running' = Running
      /\ \A s \in Scopes : /\ Commits(s)' = Commits(s) /\ Rollbacks(s)' = Rollbacks(s)
                           /\ Name(s)' = Name(s) /\ LayersOf(s)' = LayersOf(s)
      /\ \A s, row : Own(s, row)' <=> Own(s, row)
  BY DEF Running, Commits, Rollbacks, Name, LayersOf, Own
<1>2. Roots \subseteq Scopes /\ \A s \in Scopes : RootOf(s) \in Roots /\ RootOf(s) \notin Savepoints
  BY Shown, OneRoot DEF Full
<1>3. /\ \A s \in Scopes : stage'[s] \in {"idle", "queued"} => stage[s] \in {"idle", "queued"}
      /\ \A r \in Roots : (stage'[r] = "idle" <=> stage[r] = "idle") /\ (stage[r] = "failed" => stage'[r] = "failed")
      /\ \A s \in Scopes : /\ stage'[s] \in {"committed", "undone", "redo"} => stage'[s] = stage[s]
                           /\ stage[s] = "saved" => stage'[s] = "saved"
                           /\ stage[s] \in Ending => stage'[s] \in Ending
                           /\ stage[s] \notin {"idle", "queued", "saved", "failed"}
                                => stage'[s] \notin {"idle", "queued", "saved", "failed"}
  BY <1>2, Shown DEF Full, Running, Ending
<1>4. FreshInv'
  BY <1>2, <1>3 DEF Full, CallbackInv, FreshInv
<1>5. HeldInv'
  <2>1. ASSUME NEW s \in Scopes, NEW row \in Commits(s)' \cup Rollbacks(s)'
        PROVE  /\ stage'[s] \notin {"idle", "queued", "saved", "failed"}
               /\ Own(s, row)' /\ progress'[row[1]] > 0
               /\ row[1] = s \/ stage'[row[1]] = "saved"
    BY <1>1, <1>3, <2>1, Holder DEF Full, CallbackInv, HeldInv
  <2>2. \A s \in Running' : progress'[s] > 0 => Name(s)' \in Rollbacks(s)'
    BY <1>1 DEF Full, CallbackInv, HeldInv, Running
  <2> QED
    BY <2>1, <2>2 DEF HeldInv
<1>6. PairInv'
  BY <1>1, <1>3 DEF Full, CallbackInv, PairInv
<1>7. InsideInv'
  BY <1>1, <1>2, <1>3, Nested, RowFacts DEF Full, CallbackInv, InsideInv
<1>8. KeptInv'
  <2>1. LayerRows(1)' = LayerRows(1)
    BY DEF LayerRows
  <2>2. KeptInv /\ \A t \in Running : t \in Scopes
    BY DEF Full, CallbackInv, Running
  <2> QED
    BY <1>1, <1>3, <2>1, <2>2 DEF KeptInv
<1>9. FiredInv'
  BY <1>3, FiredKept, Shown DEF Full
<1>10. TrackInv'
  BY <1>1, <1>2, <1>3, Nested DEF Full, CallbackInv, TrackInv
<1> QED
  BY <1>4, <1>5, <1>6, <1>7, <1>8, <1>9, <1>10 DEF CallbackInv

(* A scope that gives up, or is tried again, leaves no callback behind. *)
LEMMA CallsEnded ==
  ASSUME Full, Structured, [Next]_vars, NEW s \in Scopes,
         GiveUp(s) \/ (s \in Roots /\ \E n : Retry(s, n)),
         fired' = fired, known' \subseteq known, stage[s] # "saved",
         \A t \in Scopes : s \in Lineage[t] /\ t # s => stage[t] \in Over,
         s \in Savepoints => onRollback[s] = <<>>,
         \/ attempt' = attempt /\ stage[s] # "idle"
         \/ s \in Roots /\ stage[s] = "idle" /\ attempt' = [attempt EXCEPT ![s] = @ + 1],
         Running' = {} \/ UNCHANGED <<attempt, layers>>
  PROVE  CallbackInv'
<1>1. /\ Roots \subseteq Scopes /\ attempt \in [Roots -> Nat]
      /\ \A t \in Scopes : RootOf(t) \in Roots /\ RootOf(t) \in Lineage[t] /\ RootOf(t) \in Scopes
      /\ s \in Roots => RootOf(s) = s
  BY Shown, OneRoot, RootOfRoot DEF Full
<1> DEFINE Again(t) == s \in Roots /\ RootOf(t) = s /\ \E n : Retry(s, n)
<1>2. /\ Commits(s)' = {} /\ Rollbacks(s)' = {}
      /\ \A t \in Scopes : ~ Again(t) /\ t # s =>
           /\ Commits(t)' = Commits(t) /\ Rollbacks(t)' = Rollbacks(t)
           /\ stage'[t] = stage[t]
      /\ \A t \in Scopes : ~ Again(t) => progress'[t] = progress[t]
      /\ ~ Again(s) => stage'[s] = "failed"
  <2>1. CASE GiveUp(s)
    <3>1. /\ Commits(s)' = {} /\ Rollbacks(s)' = {} /\ progress' = progress /\ stage'[s] = "failed"
          /\ \A t \in Scopes \ {s} : /\ Commits(t)' = Commits(t) /\ Rollbacks(t)' = Rollbacks(t)
                                     /\ stage'[t] = stage[t]
      BY <2>1, GivenUp DEF Full
    <3> QED
      BY <3>1
  <2>2. ASSUME s \in Roots, NEW n, Retry(s, n)
        PROVE  /\ Commits(s)' = {} /\ Rollbacks(s)' = {} /\ Again(s)
               /\ \A t \in Scopes : ~ Again(t) /\ t # s =>
                    /\ Commits(t)' = Commits(t) /\ Rollbacks(t)' = Rollbacks(t)
                    /\ stage'[t] = stage[t]
               /\ \A t \in Scopes : ~ Again(t) => progress'[t] = progress[t]
    <3>1. /\ Commits(s)' = {} /\ Rollbacks(s)' = {}
          /\ \A t \in Scopes \ {s} : Commits(t)' = Commits(t) /\ Rollbacks(t)' = Rollbacks(t)
          /\ \A t \in Scopes : RootOf(t) # s => stage'[t] = stage[t] /\ progress'[t] = progress[t]
      BY <2>2, Retried DEF Full
    <3> QED
      BY <1>1, <2>2, <3>1
  <2> QED
    BY <2>1, <2>2
<1>3. \A t \in Scopes : Again(t) => /\ Commits(t)' = {} /\ Rollbacks(t)' = {}
                                    /\ stage'[t] = "idle" /\ progress'[t] = 0
  <2> SUFFICES ASSUME NEW t \in Scopes, s \in Roots, RootOf(t) = s, NEW n, Retry(s, n)
               PROVE  Commits(t)' = {} /\ Rollbacks(t)' = {} /\ stage'[t] = "idle" /\ progress'[t] = 0
    OBVIOUS
  <2>1. /\ stage'[t] = "idle" /\ progress'[t] = 0 /\ Commits(s)' = {} /\ Rollbacks(s)' = {}
        /\ \A x \in Scopes \ {s} : Commits(x)' = Commits(x) /\ Rollbacks(x)' = Rollbacks(x)
    BY Retried DEF Full
  <2>2. t # s => Commits(t) = {} /\ Rollbacks(t) = {}
    BY <1>1, HoldsNone DEF Over
  <2> QED
    BY <2>1, <2>2
<1>4. \A t \in Scopes : Again(t) <=> Again(RootOf(t))
  BY <1>1, RootOfRoot
<1> HIDE DEF Again
<1>5. ASSUME NEW t \in Scopes, NEW row \in Commits(t)' \cup Rollbacks(t)'
      PROVE  /\ t # s /\ ~ Again(t) /\ row \in Commits(t) \cup Rollbacks(t) /\ stage'[t] = stage[t]
             /\ Commits(t)' = Commits(t) /\ Rollbacks(t)' = Rollbacks(t)
             /\ row[1] \in Scopes /\ ~ Again(row[1]) /\ progress'[row[1]] = progress[row[1]]
             /\ row[1] # s /\ attempt'[RootOf(t)] = attempt[RootOf(t)]
  <2>1. t # s /\ ~ Again(t) /\ row \in Commits(t) \cup Rollbacks(t)
    BY <1>2, <1>3, <1>5
  <2>2. row[1] \in Scopes /\ RootOf(row[1]) = RootOf(t) /\ (row[1] = t \/ stage[row[1]] = "saved")
        /\ stage[RootOf(t)] # "idle"
    BY <2>1, Holder
  <2>3. ~ Again(row[1])
    BY <1>4, <2>1, <2>2
  <2>4. row[1] # s
    BY <2>1, <2>2
  <2>5. attempt'[RootOf(t)] = attempt[RootOf(t)]
    BY <1>1, <2>2
  <2> QED
    BY <1>2, <2>1, <2>2, <2>3, <2>4, <2>5
<1>6. \A t \in Running' : t \in Running /\ t # s /\ ~ Again(t) /\ t \in Scopes /\ stage'[t] = stage[t]
  BY <1>2, <1>3 DEF Running
<1>7. FreshInv'
  BY <1>1, <1>2, <1>3, <1>4 DEF Full, CallbackInv, FreshInv
<1>8. HeldInv'
  <2>1. ASSUME NEW t \in Scopes, NEW row \in Commits(t)' \cup Rollbacks(t)'
        PROVE  /\ stage'[t] \notin {"idle", "queued", "saved", "failed"}
               /\ Own(t, row)' /\ progress'[row[1]] > 0
               /\ row[1] = t \/ stage'[row[1]] = "saved"
    <3>1. /\ stage[t] \notin {"idle", "queued", "saved", "failed"}
          /\ Own(t, row) /\ progress[row[1]] > 0 /\ (row[1] = t \/ stage[row[1]] = "saved")
      BY <1>5, <2>1 DEF Full, CallbackInv, HeldInv
    <3>2. Own(t, row)'
      BY <1>5, <2>1, <3>1 DEF Own
    <3> QED
      BY <1>2, <1>5, <2>1, <3>1, <3>2
  <2>2. ASSUME NEW t \in Running', progress'[t] > 0 PROVE Name(t)' \in Rollbacks(t)'
    <3>1. Name(t)' = Name(t)
      BY <2>2 DEF Name
    <3> QED
      BY <1>2, <1>6, <2>2, <3>1 DEF Full, CallbackInv, HeldInv
  <2> QED
    BY <2>1, <2>2 DEF HeldInv
<1>9. PairInv'
  <2>1. ASSUME NEW t \in Scopes, t \in Running' \/ stage'[t] = "committed", NEW row \in Commits(t)'
        PROVE  row \in Rollbacks(t)' /\ progress'[row[1]] = 3
    BY <1>5, <1>6, <2>1 DEF Full, CallbackInv, PairInv
  <2>2. ASSUME NEW t \in Scopes, NEW row \in Rollbacks(t)', progress'[row[1]] = 3
        PROVE  /\ t \in Running' => row \in Commits(t)'
               /\ stage'[t] = "committed" /\ t \in known' => row \in Commits(t)' \/ <<"commit", row>> \in fired'
    BY <1>5, <1>6, <2>2 DEF Full, CallbackInv, PairInv
  <2> QED
    BY <2>1, <2>2 DEF PairInv
<1>10. InsideInv'
  <2> SUFFICES ASSUME NEW j \in DOMAIN layers', NEW row \in layers'[j].rows \cap Rows, NEW t \in Lineage[row[1]]
               PROVE  /\ t \in Running' => \A i \in LayersOf(t)' : i <= j
                      /\ RootOf(t) \in Running' => stage'[t] \notin {"idle", "queued"}
    BY DEF InsideInv
  <2>1. t \in Scopes /\ RootOf(t) \in Scopes
    BY <1>1, RowFacts, Nested
  <2>2. CASE Running' = {}
    BY <2>2
  <2>3. CASE layers' = layers
    <3>1. /\ t \in Running => \A i \in LayersOf(t) : i <= j
          /\ RootOf(t) \in Running => stage[t] \notin {"idle", "queued"}
      BY <2>3 DEF Full, CallbackInv, InsideInv
    <3>2. LayersOf(t)' = LayersOf(t)
      BY <2>3 DEF LayersOf
    <3>3. RootOf(t) \in Running' => ~ Again(t)
      BY <1>4, <1>6, <2>1
    <3> QED
      BY <1>2, <1>6, <2>1, <3>1, <3>2, <3>3
  <2> QED
    BY <2>2, <2>3
<1>11. KeptInv'
  <2> SUFFICES ASSUME NEW t \in Scopes, NEW row \in Rollbacks(t)'
               PROVE  /\ progress'[row[1]] > 1 =>
                           /\ stage'[t] = "committed" => row \in durable'
                           /\ t \in Running' =>
                                \E j \in DOMAIN layers' :
                                  /\ row \in layers'[j].rows
                                  /\ \A x \in Running' \ {t} : t \in Lineage[x] => \A i \in LayersOf(x)' : j < i
                      /\ stage'[t] \in {"undone", "redo"} => row \notin (durable \cup LayerRows(1))'
    BY DEF KeptInv
  <2>1. row \in Rollbacks(t) /\ row \in Rows /\ stage'[t] = stage[t] /\ progress'[row[1]] = progress[row[1]]
    BY <1>5, Holder
  <2>2. stage'[t] \in {"undone", "redo"} => row \notin (durable \cup LayerRows(1))'
    BY <2>1, StaysGone
  <2>3. progress'[row[1]] > 1 /\ stage'[t] = "committed" => row \in durable'
    BY <2>1, Driven DEF Full, CallbackInv, KeptInv
  <2>4. ASSUME progress'[row[1]] > 1, t \in Running'
        PROVE  \E j \in DOMAIN layers' :
                 /\ row \in layers'[j].rows
                 /\ \A x \in Running' \ {t} : t \in Lineage[x] => \A i \in LayersOf(x)' : j < i
    <3>1. layers' = layers
      BY <2>4
    <3>2. \A x \in Running' : x \in Running /\ LayersOf(x)' = LayersOf(x)
      BY <1>6, <3>1 DEF LayersOf
    <3>3. PICK j \in DOMAIN layers :
            /\ row \in layers[j].rows
            /\ \A x \in Running \ {t} : t \in Lineage[x] => \A i \in LayersOf(x) : j < i
      BY <1>6, <2>1, <2>4 DEF Full, CallbackInv, KeptInv
    <3> QED
      BY <3>1, <3>2, <3>3
  <2> QED
    BY <2>2, <2>3, <2>4
<1>12. FiredInv'
  <2>1. \A r \in Roots : /\ attempt'[r] \in Nat /\ attempt[r] <= attempt'[r]
                         /\ stage[r] = "idle" => stage'[r] = "idle" \/ attempt[r] < attempt'[r]
    <3> SUFFICES ASSUME NEW r \in Roots
                 PROVE  /\ attempt'[r] \in Nat /\ attempt[r] <= attempt'[r]
                        /\ stage[r] = "idle" => stage'[r] = "idle" \/ attempt[r] < attempt'[r]
      OBVIOUS
    <3>1. attempt[r] \in Nat /\ (attempt'[r] = attempt[r] \/ attempt'[r] = attempt[r] + 1)
      BY <1>1
    <3>2. CASE r # s
      BY <1>1, <1>2, <1>3, <3>1, <3>2
    <3>3. CASE r = s /\ stage[s] # "idle"
      BY <3>1, <3>3
    <3>4. CASE r = s /\ attempt' = [attempt EXCEPT ![s] = @ + 1]
      BY <1>1, <3>1, <3>4
    <3> QED
      BY <3>2, <3>3, <3>4
  <2>2. \A t \in Scopes : stage[t] \in Ending => stage'[t] \in Ending \/ stage'[RootOf(t)] = "idle"
    BY <1>1, <1>2, <1>3, <1>4 DEF Ending
  <2> QED
    BY <2>1, <2>2, FiredKept
<1>13. TrackInv'
  <2> SUFFICES ASSUME NEW t \in Scopes, RootOf(t) \in known', progress'[t] > 0, stage'[RootOf(t)] # "failed",
                      <<"rollback", Name(t)'>> \notin fired'
               PROVE  \E x \in Lineage[t] : Name(t)' \in Rollbacks(x)'
    BY DEF TrackInv
  <2>1. ~ Again(t) /\ ~ Again(RootOf(t))
    BY <1>3, <1>4
  <2>2. RootOf(t) # s
    BY <1>2, <2>1
  <2>3. Name(t)' = Name(t)
    BY <1>1, <2>2 DEF Name
  <2>4. PICK x \in Lineage[t] : Name(t) \in Rollbacks(x)
    BY <1>1, <1>2, <2>1, <2>2, <2>3 DEF Full, CallbackInv, TrackInv
  <2>5. x \in Scopes /\ RootOf(x) = RootOf(t)
    BY RootOfInside
  <2>6. x # s
    BY <1>1, <2>2, <2>4, <2>5, RangeEmpty DEF Rollbacks, Scopes
  <2> QED
    BY <1>2, <1>4, <2>1, <2>3, <2>4, <2>5, <2>6
<1> QED
  BY <1>7, <1>8, <1>9, <1>10, <1>11, <1>12, <1>13 DEF CallbackInv

(* The scopes under a root transaction that leaves the gate, and those that run then: none. *)
LEMMA Leaves ==
  ASSUME Inv, Structured, [Next]_vars, NEW r \in Roots,
         BeginFails(r) \/ Commit(r) \/ CommitFails(r) \/ Rollback(r) \/ RollbackFails(r)
  PROVE  Running' = {} /\ r \in Scopes /\ stage[r] # "open"
         /\ \A t \in Scopes : r \in Lineage[t] /\ t # r => t \in Savepoints /\ stage[t] \in Over
<1>1. \A s \in Roots : s \notin Running'
  BY LeavesNone
<1>2. r \in Scopes /\ stage[r] # "open"
  BY Shown DEF BeginFails, Commit, CommitFails, Rollback, RollbackFails
<1>3. NestInv'
  BY NestStays
<1>4. ASSUME NEW s \in Savepoints, s \in Running' PROVE FALSE
  <2>1. s \in Scopes /\ RootOf(s) \in Roots /\ RootOf(s) \in Lineage[s] \ {s}
    BY Shown, OneRoot
  <2>2. stage'[RootOf(s)] = "open"
    BY <1>3, <1>4, <2>1 DEF NestInv, Running
  <2> QED
    BY <1>1, <2>1, <2>2, Shown DEF Running
<1>5. \A t \in Scopes : r \in Lineage[t] /\ t # r => t \in Savepoints /\ stage[t] \in Over
  BY <1>2, RootAlone, NoneInside DEF Scopes
<1> QED
  BY <1>1, <1>2, <1>4, <1>5 DEF Running, Scopes

LEMMA CallsCommit ==
  ASSUME Full, Structured, [Next]_vars, NEW r \in Roots, Commit(r)
  PROVE  CallbackInv'
<1>1. /\ UNCHANGED <<attempt, progress, onCommit, onRollback, fired, known>> /\ CommitLayers
      /\ stage[r] = "returned" /\ stage'[r] = "committed" /\ \A s \in Scopes \ {r} : stage'[s] = stage[s]
      /\ Running' = {} /\ r \in Running /\ r \in Scopes /\ attempt \in [Roots -> Nat]
  BY Leaves, Shown DEF Full, Commit, Running
<1>2. \A s \in Scopes : /\ Commits(s)' = Commits(s) /\ Rollbacks(s)' = Rollbacks(s) /\ Name(s)' = Name(s)
                        /\ RootOf(s) \in Scopes
                        /\ \A row : Own(s, row)' <=> Own(s, row)
  BY <1>1, OneRoot DEF Commits, Rollbacks, Name, Own, Scopes
<1>3. FreshInv'
  BY <1>1, <1>2 DEF Full, CallbackInv, FreshInv
<1>4. HeldInv'
  <2> SUFFICES ASSUME NEW s \in Scopes, NEW row \in Commits(s) \cup Rollbacks(s)
               PROVE  /\ stage'[s] \notin {"idle", "queued", "saved", "failed"}
                      /\ Own(s, row) /\ progress[row[1]] > 0
                      /\ row[1] = s \/ stage'[row[1]] = "saved"
    BY <1>1, <1>2 DEF HeldInv
  <2>1. /\ stage[s] \notin {"idle", "queued", "saved", "failed"}
        /\ Own(s, row) /\ progress[row[1]] > 0 /\ (row[1] = s \/ stage[row[1]] = "saved")
    BY DEF Full, CallbackInv, HeldInv
  <2>2. row[1] \in Scopes
    BY Holder
  <2>3. stage'[s] \notin {"idle", "queued", "saved", "failed"}
    BY <1>1, <2>1
  <2>4. stage[row[1]] = "saved" => stage'[row[1]] = "saved"
    BY <1>1, <2>2
  <2> QED
    BY <2>1, <2>3, <2>4
<1>5. PairInv'
  BY <1>1, <1>2 DEF Full, CallbackInv, PairInv
<1>6. InsideInv'
  BY <1>1 DEF InsideInv
<1>7. KeptInv'
  <2> SUFFICES ASSUME NEW s \in Scopes, NEW row \in Rollbacks(s)
               PROVE  /\ progress[row[1]] > 1 /\ stage'[s] = "committed" => row \in durable'
                      /\ stage'[s] \in {"undone", "redo"} => row \notin (durable \cup LayerRows(1))'
    BY <1>1, <1>2 DEF KeptInv
  <2>1. row \in Rows
    BY Holder
  <2>2. CASE s = r
    <3>1. progress[row[1]] > 1 => \E j \in DOMAIN layers : row \in layers[j].rows
      BY <1>1, <2>2 DEF Full, CallbackInv, KeptInv
    <3>2. progress[row[1]] > 1 => row \in LayerRows(1)
      BY <3>1, Shown DEF Full, LayerRows
    <3> QED
      BY <1>1, <2>1, <2>2, <3>2 DEF CommitLayers
  <2>3. CASE s # r
    BY <1>1, <2>1, <2>3, StaysGone, Driven DEF Full, CallbackInv, KeptInv
  <2> QED
    BY <2>2, <2>3
<1>8. FiredInv'
  BY <1>1, FiredStays DEF Ending
<1>9. TrackInv'
  BY <1>1, <1>2, Nested DEF Full, CallbackInv, TrackInv
<1> QED
  BY <1>3, <1>4, <1>5, <1>6, <1>7, <1>8, <1>9 DEF CallbackInv

LEMMA CallsRollback ==
  ASSUME Full, Structured, [Next]_vars, NEW r \in Roots, Rollback(r)
  PROVE  CallbackInv'
<1>1. /\ UNCHANGED <<attempt, progress, onCommit, onRollback, fired, known, durable>> /\ layers' = <<>>
      /\ stage[r] \in {"threw", "conflict"} /\ stage'[r] \in {"undone", "redo"}
      /\ \A s \in Scopes \ {r} : stage'[s] = stage[s]
      /\ Running' = {} /\ r \in Scopes /\ attempt \in [Roots -> Nat]
  BY Leaves, Shown DEF Full, Rollback, DropLayers
<1>2. \A s \in Scopes : /\ Commits(s)' = Commits(s) /\ Rollbacks(s)' = Rollbacks(s) /\ Name(s)' = Name(s)
                        /\ RootOf(s) \in Scopes
                        /\ \A row : Own(s, row)' <=> Own(s, row)
  BY <1>1, OneRoot DEF Commits, Rollbacks, Name, Own, Scopes
<1>3. FreshInv'
  BY <1>1, <1>2 DEF Full, CallbackInv, FreshInv
<1>4. HeldInv'
  <2> SUFFICES ASSUME NEW s \in Scopes, NEW row \in Commits(s) \cup Rollbacks(s)
               PROVE  /\ stage'[s] \notin {"idle", "queued", "saved", "failed"}
                      /\ Own(s, row) /\ progress[row[1]] > 0
                      /\ row[1] = s \/ stage'[row[1]] = "saved"
    BY <1>1, <1>2 DEF HeldInv
  <2>1. /\ stage[s] \notin {"idle", "queued", "saved", "failed"}
        /\ Own(s, row) /\ progress[row[1]] > 0 /\ (row[1] = s \/ stage[row[1]] = "saved")
    BY DEF Full, CallbackInv, HeldInv
  <2>2. row[1] \in Scopes
    BY Holder
  <2>3. stage'[s] \notin {"idle", "queued", "saved", "failed"}
    BY <1>1, <2>1
  <2>4. stage[row[1]] = "saved" => stage'[row[1]] = "saved"
    BY <1>1, <2>2
  <2> QED
    BY <2>1, <2>3, <2>4
<1>5. PairInv'
  BY <1>1, <1>2 DEF Full, CallbackInv, PairInv
<1>6. InsideInv'
  BY <1>1 DEF InsideInv
<1>7. KeptInv'
  <2> SUFFICES ASSUME NEW s \in Scopes, NEW row \in Rollbacks(s)
               PROVE  /\ progress[row[1]] > 1 /\ stage'[s] = "committed" => row \in durable'
                      /\ stage'[s] \in {"undone", "redo"} => row \notin (durable \cup LayerRows(1))'
    BY <1>1, <1>2 DEF KeptInv
  <2>1. row \in Rows /\ RootOf(row[1]) = RootOf(s)
    BY Holder
  <2>2. CASE s = r
    <3>1. row \notin durable
      BY <1>1, <2>1, <2>2, RootOfRoot DEF Full, Inv, TransactionInv, DurableInv
    <3>2. LayerRows(1)' = {}
      <4>1. Len(<<>>) = 0
        OBVIOUS
      <4> QED
        BY <1>1, <4>1 DEF LayerRows
    <3> QED
      BY <1>1, <2>2, <3>1, <3>2
  <2>3. CASE s # r
    BY <1>1, <2>1, <2>3, StaysGone, Driven DEF Full, CallbackInv, KeptInv
  <2> QED
    BY <2>2, <2>3
<1>8. FiredInv'
  BY <1>1, FiredStays DEF Ending
<1>9. TrackInv'
  <2>1. \A s \in Scopes : stage[s] = "failed" => stage'[s] = "failed"
    BY <1>1
  <2> QED
    BY <1>1, <2>1, TrackStays
<1> QED
  BY <1>3, <1>4, <1>5, <1>6, <1>7, <1>8, <1>9 DEF CallbackInv

(* The steps of the callbacks themselves. *)
LEMMA CallsAfterCommit ==
  ASSUME Full, Structured, [Next]_vars, NEW r \in Roots, AfterCommit(r)
  PROVE  CallbackInv'
<1> DEFINE first == Head(onCommit[r])
<1>1. /\ UNCHANGED <<stage, attempt, progress, layers, durable, onRollback>>
      /\ stage[r] = "committed" /\ fired' = fired \cup {<<"commit", first>>} /\ known' \subseteq known
      /\ r \in Scopes /\ onCommit \in [Scopes -> Seq(Rows)] /\ onCommit[r] # <<>> /\ attempt \in [Roots -> Nat]
      /\ Running' = Running
  BY Shown DEF Full, AfterCommit, scopeVars, driverVars, Running
<1>2. /\ \A s \in Scopes : /\ Rollbacks(s)' = Rollbacks(s) /\ Name(s)' = Name(s) /\ LayersOf(s)' = LayersOf(s)
                           /\ RootOf(s) \in Scopes /\ (s # r => Commits(s)' = Commits(s))
                           /\ Commits(s)' \subseteq Commits(s)
      /\ LayerRows(1)' = LayerRows(1) /\ first \in Commits(r)
      /\ r \in known' => Commits(r) \subseteq Commits(r)' \cup {first}
  <2>1. /\ \A s \in Scopes : /\ Rollbacks(s)' = Rollbacks(s) /\ Name(s)' = Name(s) /\ LayersOf(s)' = LayersOf(s)
                             /\ RootOf(s) \in Scopes
        /\ LayerRows(1)' = LayerRows(1)
    BY <1>1, OneRoot DEF Rollbacks, Name, LayersOf, LayerRows, Scopes
  <2>2. first \in Commits(r) /\ Range(Tail(onCommit[r])) \subseteq Commits(r)
        /\ Commits(r) \subseteq Range(Tail(onCommit[r])) \cup {first}
    BY <1>1, RangeEnds DEF Commits
  <2>3. CASE onCommit' = [onCommit EXCEPT ![r] = Tail(@)]
    BY <1>1, <2>1, <2>2, <2>3 DEF Commits
  <2>4. CASE onCommit' = [onCommit EXCEPT ![r] = <<>>] /\ known' = known \ {r}
    BY <1>1, <2>1, <2>2, <2>4, RangeEmpty DEF Commits
  <2> QED
    BY <2>3, <2>4 DEF AfterCommit
<1> HIDE DEF first
<1>3. first \in Rows /\ first \in durable
  <2>1. first \in Rows /\ first \in Rollbacks(r) /\ progress[first[1]] = 3
    BY <1>1, <1>2, Holder DEF Full, CallbackInv, PairInv
  <2> QED
    BY <1>1, <2>1 DEF Full, CallbackInv, KeptInv
<1>4. FreshInv'
  BY <1>1 DEF Full, CallbackInv, FreshInv
<1>5. HeldInv'
  <2>1. ASSUME NEW s \in Scopes, NEW row \in Commits(s)' \cup Rollbacks(s)'
        PROVE  /\ stage'[s] \notin {"idle", "queued", "saved", "failed"}
               /\ Own(s, row)' /\ progress'[row[1]] > 0
               /\ row[1] = s \/ stage'[row[1]] = "saved"
    BY <1>1, <1>2, <2>1 DEF Full, CallbackInv, HeldInv, Own
  <2>2. \A s \in Running' : progress'[s] > 0 => Name(s)' \in Rollbacks(s)'
    BY <1>1, <1>2 DEF Full, CallbackInv, HeldInv, Running
  <2> QED
    BY <2>1, <2>2 DEF HeldInv
<1>6. PairInv'
  <2>1. r \notin Running
    BY <1>1 DEF Running
  <2>2. ASSUME NEW s \in Scopes, s \in Running' \/ stage'[s] = "committed", NEW row \in Commits(s)'
        PROVE  row \in Rollbacks(s)' /\ progress'[row[1]] = 3
    BY <1>1, <1>2, <2>2 DEF Full, CallbackInv, PairInv
  <2>3. ASSUME NEW s \in Scopes, NEW row \in Rollbacks(s)', progress'[row[1]] = 3
        PROVE  /\ s \in Running' => row \in Commits(s)'
               /\ stage'[s] = "committed" /\ s \in known' => row \in Commits(s)' \/ <<"commit", row>> \in fired'
    <3>1. /\ s \in Running => row \in Commits(s)
          /\ stage[s] = "committed" /\ s \in known => row \in Commits(s) \/ <<"commit", row>> \in fired
      BY <1>1, <1>2, <2>3 DEF Full, CallbackInv, PairInv
    <3> QED
      BY <1>1, <1>2, <2>1, <3>1
  <2> QED
    BY <2>2, <2>3 DEF PairInv
<1>7. InsideInv'
  BY <1>1, InsideStays
<1>8. KeptInv'
  <2>1. KeptInv /\ \A t \in Running : t \in Scopes
    BY DEF Full, CallbackInv, Running
  <2> QED
    BY <1>1, <1>2, <2>1 DEF KeptInv
<1>9. FiredInv'
  <2>1. \A row \in Rows : /\ <<"commit", row>> \in fired' => row = first \/ <<"commit", row>> \in fired
                          /\ <<"rollback", row>> \in fired' => <<"rollback", row>> \in fired
    BY <1>1
  <2> QED
    BY <1>1, <1>2, <1>3, <2>1 DEF Full, CallbackInv, FiredInv, CallbacksTellTruth
<1>10. TrackInv'
  BY <1>1, TrackStays
<1> QED
  BY <1>4, <1>5, <1>6, <1>7, <1>8, <1>9, <1>10 DEF CallbackInv

LEMMA CallsAfterRollback ==
  ASSUME Full, Structured, [Next]_vars, NEW r \in Scopes, AfterRollback(r)
  PROVE  CallbackInv'
<1> DEFINE last == Last(onRollback[r])
<1>1. /\ UNCHANGED <<attempt, progress, layers, durable, onCommit, known>>
      /\ stage[r] \in {"undone", "redo"} /\ stage'[r] \in {"undone", "redo"}
      /\ \A s \in Scopes \ {r} : stage'[s] = stage[s]
      /\ fired' = fired \cup {<<"rollback", last>>} /\ onRollback' = [onRollback EXCEPT ![r] = Front(@)]
      /\ onRollback \in [Scopes -> Seq(Rows)] /\ onRollback[r] # <<>> /\ attempt \in [Roots -> Nat]
      /\ Running' = Running
  BY Shown DEF Full, AfterRollback, driverVars, Running
<1>2. /\ \A s \in Scopes : /\ Commits(s)' = Commits(s) /\ Name(s)' = Name(s) /\ LayersOf(s)' = LayersOf(s)
                           /\ RootOf(s) \in Scopes /\ (s # r => Rollbacks(s)' = Rollbacks(s))
                           /\ Rollbacks(s)' \subseteq Rollbacks(s)
      /\ LayerRows(1)' = LayerRows(1) /\ last \in Rollbacks(r)
      /\ Rollbacks(r) \subseteq Rollbacks(r)' \cup {last}
  <2>1. /\ \A s \in Scopes : /\ Commits(s)' = Commits(s) /\ Name(s)' = Name(s) /\ LayersOf(s)' = LayersOf(s)
                             /\ RootOf(s) \in Scopes
        /\ LayerRows(1)' = LayerRows(1)
    BY <1>1, OneRoot DEF Commits, Name, LayersOf, LayerRows, Scopes
  <2>2. last \in Rollbacks(r) /\ Range(Front(onRollback[r])) \subseteq Rollbacks(r)
        /\ Rollbacks(r) \subseteq Range(Front(onRollback[r])) \cup {last}
    BY <1>1, RangeEnds DEF Rollbacks
  <2> HIDE DEF last
  <2> QED
    BY <1>1, <2>1, <2>2 DEF Rollbacks
<1> HIDE DEF last
<1>3. /\ last \in Rows /\ last \notin durable \cup LayerRows(1) /\ last[2] <= attempt[RootOf(last[1])]
      /\ stage'[last[1]] \in Ending
  <2>1. last \in Rows /\ last[1] \in Scopes /\ last[2] = attempt[RootOf(last[1])] /\ last[2] \in Nat
        /\ (last[1] = r \/ stage[last[1]] = "saved")
    BY <1>2, Holder, RowFacts
  <2> QED
    BY <1>1, <1>2, <2>1 DEF Full, CallbackInv, KeptInv, Ending
<1>4. FreshInv'
  BY <1>1, <1>2 DEF Full, CallbackInv, FreshInv
<1>5. HeldInv'
  <2>1. ASSUME NEW s \in Scopes, NEW row \in Commits(s)' \cup Rollbacks(s)'
        PROVE  /\ stage'[s] \notin {"idle", "queued", "saved", "failed"}
               /\ Own(s, row)' /\ progress'[row[1]] > 0
               /\ row[1] = s \/ stage'[row[1]] = "saved"
    <3>1. row \in Commits(s) \cup Rollbacks(s) /\ row[1] \in Scopes
      BY <1>2, <2>1, Holder
    <3>2. /\ stage[s] \notin {"idle", "queued", "saved", "failed"}
          /\ Own(s, row) /\ progress[row[1]] > 0 /\ (row[1] = s \/ stage[row[1]] = "saved")
      BY <3>1 DEF Full, CallbackInv, HeldInv
    <3>3. stage'[s] \notin {"idle", "queued", "saved", "failed"}
      BY <1>1, <3>2
    <3>4. stage[row[1]] = "saved" => stage'[row[1]] = "saved"
      BY <1>1, <3>1
    <3>5. Own(s, row)' <=> Own(s, row)
      BY <1>1 DEF Own
    <3> QED
      BY <1>1, <3>2, <3>3, <3>4, <3>5
  <2>2. ASSUME NEW s \in Running', progress'[s] > 0 PROVE Name(s)' \in Rollbacks(s)'
    <3>1. s \in Running /\ s \in Scopes /\ s # r
      BY <1>1 DEF Running
    <3>2. Name(s) \in Rollbacks(s)
      BY <1>1, <2>2, <3>1 DEF Full, CallbackInv, HeldInv
    <3> QED
      BY <1>2, <3>1, <3>2
  <2> QED
    BY <2>1, <2>2 DEF HeldInv
<1>6. PairInv'
  <2>1. r \notin Running
    BY <1>1 DEF Running
  <2>2. ASSUME NEW s \in Scopes, s \in Running' \/ stage'[s] = "committed", NEW row \in Commits(s)'
        PROVE  row \in Rollbacks(s)' /\ progress'[row[1]] = 3
    <3>1. s # r /\ (s \in Running \/ stage[s] = "committed") /\ row \in Commits(s)
      BY <1>1, <1>2, <2>1, <2>2
    <3>2. row \in Rollbacks(s) /\ progress[row[1]] = 3
      BY <3>1 DEF Full, CallbackInv, PairInv
    <3> QED
      BY <1>1, <1>2, <3>1, <3>2
  <2>3. ASSUME NEW s \in Scopes, NEW row \in Rollbacks(s)', progress'[row[1]] = 3
        PROVE  /\ s \in Running' => row \in Commits(s)'
               /\ stage'[s] = "committed" /\ s \in known' => row \in Commits(s)' \/ <<"commit", row>> \in fired'
    <3>1. row \in Rollbacks(s) /\ progress[row[1]] = 3 /\ (stage'[s] = "committed" => stage[s] = "committed")
      BY <1>1, <1>2, <2>3
    <3>2. /\ s \in Running => row \in Commits(s)
          /\ stage[s] = "committed" /\ s \in known => row \in Commits(s) \/ <<"commit", row>> \in fired
      BY <3>1 DEF Full, CallbackInv, PairInv
    <3>3. Commits(s)' = Commits(s) /\ fired \subseteq fired'
      BY <1>1, <1>2
    <3> QED
      BY <1>1, <3>1, <3>2, <3>3
  <2> QED
    BY <2>2, <2>3 DEF PairInv
<1>7. InsideInv'
  <2>1. \A s \in Scopes : stage'[s] \in {"idle", "queued"} => stage[s] \in {"idle", "queued"}
    BY <1>1
  <2> QED
    BY <1>1, <2>1, InsideStays
<1>8. KeptInv'
  <2> SUFFICES ASSUME NEW s \in Scopes, NEW row \in Rollbacks(s)
               PROVE  /\ progress[row[1]] > 1 =>
                           /\ stage'[s] = "committed" => row \in durable
                           /\ s \in Running =>
                                \E j \in DOMAIN layers :
                                  /\ row \in layers[j].rows
                                  /\ \A t \in Running \ {s} : s \in Lineage[t] => \A i \in LayersOf(t)' : j < i
                      /\ stage'[s] \in {"undone", "redo"} => row \notin durable \cup LayerRows(1)
    BY <1>1, <1>2 DEF KeptInv
  <2>1. \A t \in Running : LayersOf(t)' = LayersOf(t)
    BY <1>2 DEF Running
  <2>2. /\ progress[row[1]] > 1 =>
             /\ stage[s] = "committed" => row \in durable
             /\ s \in Running =>
                  \E j \in DOMAIN layers :
                    /\ row \in layers[j].rows
                    /\ \A t \in Running \ {s} : s \in Lineage[t] => \A i \in LayersOf(t) : j < i
        /\ stage[s] \in {"undone", "redo"} => row \notin durable \cup LayerRows(1)
    BY DEF Full, CallbackInv, KeptInv
  <2>3. /\ stage'[s] = "committed" => stage[s] = "committed"
        /\ stage'[s] \in {"undone", "redo"} => stage[s] \in {"undone", "redo"}
    BY <1>1
  <2> QED
    BY <2>1, <2>2, <2>3
<1>9. FiredInv'
  <2>1. \A row \in Rows : /\ <<"commit", row>> \in fired' => <<"commit", row>> \in fired
                          /\ <<"rollback", row>> \in fired' => row = last \/ <<"rollback", row>> \in fired
    BY <1>1
  <2>2. \A row \in Rows :
          /\ <<"commit", row>> \in fired => row \in durable'
          /\ <<"rollback", row>> \in fired =>
               /\ row \notin (durable \cup LayerRows(1))'
               /\ row[2] <= attempt'[RootOf(row[1])]
               /\ \/ row[2] < attempt'[RootOf(row[1])] \/ stage'[RootOf(row[1])] = "idle"
                  \/ stage'[row[1]] \in Ending
    <3>1. \A x \in Roots : /\ attempt'[x] \in Nat /\ attempt[x] <= attempt'[x]
                           /\ stage[x] = "idle" => stage'[x] = "idle" \/ attempt[x] < attempt'[x]
      BY <1>1 DEF Scopes
    <3>2. \A s \in Scopes : stage[s] \in Ending => stage'[s] \in Ending \/ stage'[RootOf(s)] = "idle"
      BY <1>1 DEF Ending
    <3> QED
      BY <3>1, <3>2, FiredKept
  <2> QED
    BY <1>1, <1>2, <1>3, <2>1, <2>2 DEF FiredInv, CallbacksTellTruth, Ending
<1>10. TrackInv'
  <2> SUFFICES ASSUME NEW t \in Scopes, RootOf(t) \in known, progress[t] > 0, stage'[RootOf(t)] # "failed",
                      <<"rollback", Name(t)>> \notin fired'
               PROVE  \E x \in Lineage[t] : Name(t) \in Rollbacks(x)'
    BY <1>1, <1>2 DEF TrackInv
  <2>1. stage[RootOf(t)] # "failed" /\ <<"rollback", Name(t)>> \notin fired /\ Name(t) # last
    BY <1>1, <1>2
  <2>2. PICK x \in Lineage[t] : Name(t) \in Rollbacks(x)
    BY <2>1 DEF Full, CallbackInv, TrackInv
  <2>3. x \in Scopes
    BY Nested
  <2> QED
    BY <1>2, <2>1, <2>2, <2>3
<1> QED
  BY <1>4, <1>5, <1>6, <1>7, <1>8, <1>9, <1>10 DEF CallbackInv

(* A step of the callback of a scope that runs, and has called nothing it did not await. *)
LEMMA CallsRegisterRollback ==
  ASSUME Full, Structured, [Next]_vars, NEW u \in Scopes, RegisterRollback(u)
  PROVE  CallbackInv'
<1>1. /\ UNCHANGED <<stage, attempt, layers, durable, onCommit, fired, known>>
      /\ u \in Running /\ stage[u] = "open" /\ progress[u] = 0 /\ progress'[u] = 1
      /\ \A s \in Scopes \ {u} : progress'[s] = progress[s]
      /\ onRollback' = [onRollback EXCEPT ![u] = Append(@, Name(u))]
      /\ onRollback \in [Scopes -> Seq(Rows)] /\ Name(u) \in Rows /\ Own(u, Name(u))
      /\ attempt \in [Roots -> Nat] /\ Running' = Running
  BY Shown, NameIsRow DEF Full, RegisterRollback, InCallback, driverVars, Running
<1>2. /\ \A s \in Scopes : /\ Commits(s)' = Commits(s) /\ Name(s)' = Name(s) /\ LayersOf(s)' = LayersOf(s)
                           /\ RootOf(s) \in Scopes /\ Rollbacks(s) \subseteq Rollbacks(s)'
                           /\ (s # u => Rollbacks(s)' = Rollbacks(s))
      /\ Rollbacks(u)' = Rollbacks(u) \cup {Name(u)} /\ Name(u)[1] = u
      /\ \A s, row : Own(s, row)' <=> Own(s, row)
  <2>1. Rollbacks(u)' = Rollbacks(u) \cup {Name(u)}
    BY <1>1, RangeAppend DEF Rollbacks
  <2> QED
    BY <1>1, <2>1, OneRoot DEF Commits, Rollbacks, Name, LayersOf, Scopes, Own
<1>3. FreshInv'
  BY <1>1, <1>2, RootRuns DEF Full, CallbackInv, FreshInv, Running
<1>4. \A s \in Scopes : \A row \in Commits(s) \cup Rollbacks(s) :
         row[1] \in Scopes /\ row[1] # u /\ progress'[row[1]] = progress[row[1]]
  BY <1>1, Holder
<1>5. HeldInv'
  <2>1. ASSUME NEW s \in Scopes, NEW row \in Commits(s)' \cup Rollbacks(s)'
        PROVE  /\ stage'[s] \notin {"idle", "queued", "saved", "failed"}
               /\ Own(s, row)' /\ progress'[row[1]] > 0
               /\ row[1] = s \/ stage'[row[1]] = "saved"
    <3>1. CASE row \in Commits(s) \cup Rollbacks(s)
      <4>1. /\ stage[s] \notin {"idle", "queued", "saved", "failed"}
            /\ Own(s, row) /\ progress[row[1]] > 0
            /\ row[1] = s \/ stage[row[1]] = "saved"
        BY <3>1 DEF Full, CallbackInv, HeldInv
      <4>2. progress'[row[1]] = progress[row[1]]
        BY <1>4, <3>1
      <4> QED
        BY <1>1, <1>2, <4>1, <4>2
    <3>2. CASE s = u /\ row = Name(u)
      BY <1>1, <1>2, <3>2
    <3> QED
      BY <1>2, <2>1, <3>1, <3>2
  <2>2. ASSUME NEW s \in Running', progress'[s] > 0 PROVE Name(s)' \in Rollbacks(s)'
    <3>1. s \in Running /\ s \in Scopes /\ Name(s)' = Name(s)
      BY <1>1, <1>2 DEF Running
    <3>2. s # u => progress[s] > 0
      BY <1>1, <2>2, <3>1
    <3>3. s # u => Name(s) \in Rollbacks(s)
      BY <3>1, <3>2 DEF Full, CallbackInv, HeldInv
    <3> QED
      BY <1>1, <1>2, <3>1, <3>3
  <2> QED
    BY <2>1, <2>2 DEF HeldInv
<1>6. PairInv'
  <2>1. ASSUME NEW s \in Scopes, s \in Running' \/ stage'[s] = "committed", NEW row \in Commits(s)'
        PROVE  row \in Rollbacks(s)' /\ progress'[row[1]] = 3
    <3>1. row \in Commits(s) /\ (s \in Running \/ stage[s] = "committed")
      BY <1>1, <1>2, <2>1
    <3>2. row \in Rollbacks(s) /\ progress[row[1]] = 3
      BY <3>1 DEF Full, CallbackInv, PairInv
    <3> QED
      BY <1>2, <1>4, <3>1, <3>2
  <2>2. ASSUME NEW s \in Scopes, NEW row \in Rollbacks(s)', progress'[row[1]] = 3
        PROVE  /\ s \in Running' => row \in Commits(s)'
               /\ stage'[s] = "committed" /\ s \in known' => row \in Commits(s)' \/ <<"commit", row>> \in fired'
    <3>1. row \in Rollbacks(s) /\ progress[row[1]] = 3
      <4>1. row[1] # u
        BY <1>1, <2>2
      <4>2. row \in Rollbacks(s)
        BY <1>2, <2>2, <4>1
      <4> QED
        BY <1>4, <2>2, <4>2
    <3> QED
      BY <1>1, <1>2, <3>1 DEF Full, CallbackInv, PairInv
  <2> QED
    BY <2>1, <2>2 DEF PairInv
<1>7. InsideInv'
  BY <1>1, <1>2, RowFacts, Nested DEF Full, CallbackInv, InsideInv
<1>8. KeptInv'
  <2> SUFFICES ASSUME NEW s \in Scopes, NEW row \in Rollbacks(s)'
               PROVE  /\ progress'[row[1]] > 1 =>
                           /\ stage[s] = "committed" => row \in durable
                           /\ s \in Running =>
                                \E j \in DOMAIN layers :
                                  /\ row \in layers[j].rows
                                  /\ \A t \in Running \ {s} : s \in Lineage[t] => \A i \in LayersOf(t)' : j < i
                      /\ stage[s] \in {"undone", "redo"} => row \notin durable \cup LayerRows(1)
    BY <1>1 DEF KeptInv, LayerRows
  <2>1. CASE row \in Rollbacks(s)
    <3>1. \A t \in Running : LayersOf(t)' = LayersOf(t)
      BY <1>2 DEF Running
    <3> QED
      BY <1>4, <2>1, <3>1 DEF Full, CallbackInv, KeptInv
  <2>2. CASE s = u /\ row = Name(u)
    BY <1>1, <1>2, <2>2
  <2> QED
    BY <1>2, <2>1, <2>2
<1>9. FiredInv'
  BY <1>1, FiredStays DEF Ending
<1>10. TrackInv'
  <2> SUFFICES ASSUME NEW t \in Scopes, RootOf(t) \in known, progress'[t] > 0, stage[RootOf(t)] # "failed",
                      <<"rollback", Name(t)>> \notin fired
               PROVE  \E x \in Lineage[t] : Name(t) \in Rollbacks(x)'
    BY <1>1, <1>2 DEF TrackInv
  <2>1. t \in Lineage[t] /\ Lineage[t] \subseteq Scopes
    BY Nested
  <2> QED
    BY <1>1, <1>2, <2>1 DEF Full, CallbackInv, TrackInv
<1> QED
  BY <1>3, <1>5, <1>6, <1>7, <1>8, <1>9, <1>10 DEF CallbackInv

LEMMA CallsRegisterCommit ==
  ASSUME Full, Structured, [Next]_vars, NEW u \in Scopes, RegisterCommit(u)
  PROVE  CallbackInv'
<1>1. /\ UNCHANGED <<stage, attempt, layers, durable, onRollback, fired, known>>
      /\ u \in Running /\ stage[u] = "open" /\ progress[u] = 2 /\ progress'[u] = 3
      /\ \A s \in Scopes \ {u} : progress'[s] = progress[s]
      /\ onCommit' = [onCommit EXCEPT ![u] = Append(@, Name(u))]
      /\ onCommit \in [Scopes -> Seq(Rows)] /\ Name(u) \in Rows /\ Own(u, Name(u))
      /\ attempt \in [Roots -> Nat] /\ Running' = Running
  BY Shown, NameIsRow DEF Full, RegisterCommit, InCallback, driverVars, Running
<1>2. /\ \A s \in Scopes : /\ Rollbacks(s)' = Rollbacks(s) /\ Name(s)' = Name(s) /\ LayersOf(s)' = LayersOf(s)
                           /\ RootOf(s) \in Scopes /\ Commits(s) \subseteq Commits(s)'
                           /\ (s # u => Commits(s)' = Commits(s))
      /\ Commits(u)' = Commits(u) \cup {Name(u)} /\ Name(u)[1] = u
      /\ \A s, row : Own(s, row)' <=> Own(s, row)
  <2>1. Commits(u)' = Commits(u) \cup {Name(u)}
    BY <1>1, RangeAppend DEF Commits
  <2> QED
    BY <1>1, <2>1, OneRoot DEF Commits, Rollbacks, Name, LayersOf, Scopes, Own
<1>3. FreshInv'
  BY <1>1, <1>2, RootRuns DEF Full, CallbackInv, FreshInv, Running
<1>4. \A s \in Scopes : \A row \in Commits(s) \cup Rollbacks(s) :
         /\ row[1] \in Scopes /\ row[1] # u => progress'[row[1]] = progress[row[1]]
         /\ row[1] = u => row = Name(u) /\ s = u
  BY <1>1, Holder
<1>5. HeldInv'
  <2>1. ASSUME NEW s \in Scopes, NEW row \in Commits(s)' \cup Rollbacks(s)'
        PROVE  /\ stage'[s] \notin {"idle", "queued", "saved", "failed"}
               /\ Own(s, row)' /\ progress'[row[1]] > 0
               /\ row[1] = s \/ stage'[row[1]] = "saved"
    <3>1. CASE row \in Commits(s) \cup Rollbacks(s)
      <4>1. row[1] \in Scopes
        BY <3>1, Holder
      <4>2. /\ stage[s] \notin {"idle", "queued", "saved", "failed"}
            /\ Own(s, row) /\ progress[row[1]] > 0 /\ (row[1] = s \/ stage[row[1]] = "saved")
        BY <3>1 DEF Full, CallbackInv, HeldInv
      <4>3. progress'[row[1]] > 0
        <5>1. CASE row[1] = u
          BY <1>1, <5>1
        <5>2. CASE row[1] # u
          BY <1>1, <4>1, <4>2, <5>2
        <5> QED
          BY <5>1, <5>2
      <4> QED
        BY <1>1, <1>2, <4>2, <4>3
    <3>2. CASE s = u /\ row = Name(u)
      BY <1>1, <1>2, <3>2
    <3> QED
      BY <1>2, <2>1, <3>1, <3>2
  <2>2. ASSUME NEW s \in Running', progress'[s] > 0 PROVE Name(s)' \in Rollbacks(s)'
    <3>1. s \in Running /\ s \in Scopes /\ Name(s)' = Name(s)
      BY <1>1, <1>2 DEF Running
    <3>2. progress[s] > 0
      <4>1. s = u => progress[s] = 2
        BY <1>1
      <4>2. s # u => progress[s] = progress'[s]
        BY <1>1, <3>1
      <4> QED
        BY <2>2, <4>1, <4>2
    <3>3. Name(s) \in Rollbacks(s)
      BY <3>1, <3>2 DEF Full, CallbackInv, HeldInv
    <3> QED
      BY <1>2, <3>1, <3>3
  <2> QED
    BY <2>1, <2>2 DEF HeldInv
<1>6. PairInv'
  <2>1. ASSUME NEW s \in Scopes, s \in Running' \/ stage'[s] = "committed", NEW row \in Commits(s)'
        PROVE  row \in Rollbacks(s)' /\ progress'[row[1]] = 3
    <3>1. CASE row \in Commits(s)
      <4>1. row \in Rollbacks(s) /\ progress[row[1]] = 3 /\ row[1] \in Scopes
        BY <1>1, <2>1, <3>1, Holder DEF Full, CallbackInv, PairInv
      <4> QED
        BY <1>1, <1>2, <1>4, <4>1
    <3>2. CASE s = u /\ row = Name(u)
      BY <1>1, <1>2, <3>2 DEF Full, CallbackInv, HeldInv
    <3> QED
      BY <1>2, <2>1, <3>1, <3>2
  <2>2. ASSUME NEW s \in Scopes, NEW row \in Rollbacks(s)', progress'[row[1]] = 3
        PROVE  /\ s \in Running' => row \in Commits(s)'
               /\ stage'[s] = "committed" /\ s \in known' => row \in Commits(s)' \/ <<"commit", row>> \in fired'
    <3>1. row \in Rollbacks(s) /\ row[1] \in Scopes
      BY <1>2, <2>2, Holder
    <3>2. CASE row[1] = u
      BY <1>1, <1>2, <1>4, <3>1, <3>2
    <3>3. CASE row[1] # u
      BY <1>1, <1>2, <2>2, <3>1, <3>3 DEF Full, CallbackInv, PairInv
    <3> QED
      BY <3>2, <3>3
  <2> QED
    BY <2>1, <2>2 DEF PairInv
<1>7. InsideInv'
  BY <1>1, InsideStays
<1>8. KeptInv'
  <2> SUFFICES ASSUME NEW s \in Scopes, NEW row \in Rollbacks(s)
               PROVE  /\ progress'[row[1]] > 1 =>
                           /\ stage[s] = "committed" => row \in durable
                           /\ s \in Running =>
                                \E j \in DOMAIN layers :
                                  /\ row \in layers[j].rows
                                  /\ \A t \in Running \ {s} : s \in Lineage[t] => \A i \in LayersOf(t)' : j < i
                      /\ stage[s] \in {"undone", "redo"} => row \notin durable \cup LayerRows(1)
    BY <1>1, <1>2 DEF KeptInv, LayerRows
  <2>1. \A t \in Running : LayersOf(t)' = LayersOf(t)
    BY <1>2 DEF Running
  <2>2. progress'[row[1]] > 1 => progress[row[1]] > 1
    <3>1. row[1] \in Scopes
      BY Holder
    <3>2. CASE row[1] = u
      BY <1>1, <3>2
    <3>3. CASE row[1] # u
      BY <1>1, <3>1, <3>3
    <3> QED
      BY <3>2, <3>3
  <2> QED
    BY <2>1, <2>2 DEF Full, CallbackInv, KeptInv
<1>9. FiredInv'
  BY <1>1, FiredStays DEF Ending
<1>10. TrackInv'
  <2>1. ASSUME NEW t \in Scopes, progress'[t] > 0 PROVE progress[t] > 0
    <3>1. CASE t = u
      BY <1>1, <3>1
    <3>2. CASE t # u
      BY <1>1, <2>1, <3>2
    <3> QED
      BY <3>1, <3>2
  <2> QED
    BY <1>1, <2>1, TrackStays
<1> QED
  BY <1>3, <1>5, <1>6, <1>7, <1>8, <1>9, <1>10 DEF CallbackInv

LEMMA CallsWrite ==
  ASSUME Full, Structured, [Next]_vars, NEW u \in Scopes, Write(u)
  PROVE  CallbackInv'
<1> DEFINE n == Len(layers)
<1>1. /\ UNCHANGED <<stage, attempt, onCommit, onRollback, fired, known>>
      /\ u \in Running /\ stage[u] = "open" /\ progress[u] = 1 /\ progress'[u] = 2
      /\ \A s \in Scopes \ {u} : progress'[s] = progress[s]
      /\ Name(u) \in Rows /\ attempt \in [Roots -> Nat] /\ Running' = Running /\ Put(Name(u))
      /\ \A c \in Savepoints : Parent[c] = u => stage[c] \in Over
  BY Shown, NameIsRow DEF Full, Write, InCallback, Running, Over
<1>2. /\ n \in Nat \ {0} /\ DOMAIN layers = 1 .. n /\ DOMAIN layers' = 1 .. n /\ durable' = durable
      /\ \A i \in 1 .. n :
           /\ layers'[i].scope = layers[i].scope
           /\ layers[i].rows \subseteq layers'[i].rows
           /\ layers'[i].rows \subseteq layers[i].rows \cup (IF i = n THEN {Name(u)} ELSE {})
      /\ Name(u) \in layers'[n].rows
  <2>1. layers # <<>> /\ layers \in Seq(Layer)
    BY <1>1, RootLayer, Shown DEF Full
  <2>2. /\ layers' \in Seq(Layer) /\ Len(layers') = n /\ durable' = durable
        /\ n \in Nat \ {0}
        /\ \A i \in 1 .. n :
             /\ layers'[i].scope = layers[i].scope
             /\ layers'[i].rows = IF i = n THEN layers[i].rows \cup {Name(u)} ELSE layers[i].rows
    BY <1>1, <2>1, PutStep
  <2>3. DOMAIN layers = 1 .. n /\ DOMAIN layers' = 1 .. n
    BY <2>1, <2>2
  <2> HIDE DEF n
  <2>4. ASSUME NEW i \in 1 .. n
        PROVE  /\ layers[i].rows \subseteq layers'[i].rows
               /\ layers'[i].rows \subseteq layers[i].rows \cup (IF i = n THEN {Name(u)} ELSE {})
    <3>1. CASE i = n
      BY <2>2, <3>1
    <3>2. CASE i # n
      BY <2>2, <3>2
    <3> QED
      BY <3>1, <3>2
  <2>5. Name(u) \in layers'[n].rows
    <3>1. n \in 1 .. n
      BY <2>2
    <3>2. layers'[n].rows = layers[n].rows \cup {Name(u)}
      BY <2>2, <3>1
    <3> QED
      BY <3>2
  <2> QED
    BY <2>2, <2>3, <2>4, <2>5
<1> HIDE DEF n
<1>3. /\ \A s \in Scopes : /\ Rollbacks(s)' = Rollbacks(s) /\ Commits(s)' = Commits(s)
                           /\ Name(s)' = Name(s) /\ RootOf(s) \in Scopes /\ LayersOf(s)' = LayersOf(s)
      /\ \A s, row : Own(s, row)' <=> Own(s, row)
  <2>1. \A s : LayersOf(s)' = LayersOf(s)
    BY <1>2 DEF LayersOf
  <2> QED
    BY <1>1, <2>1, OneRoot DEF Commits, Rollbacks, Name, Scopes, Own
<1>4. FreshInv'
  BY <1>1, <1>3, RootRuns DEF Full, CallbackInv, FreshInv, Running
<1>5. \A s \in Scopes : \A row \in Commits(s) \cup Rollbacks(s) :
         /\ row \in Rows /\ row[1] \in Scopes
         /\ progress[row[1]] > 0 /\ progress'[row[1]] > 0
         /\ progress'[row[1]] = 3 <=> progress[row[1]] = 3
         /\ row[1] = u => row = Name(u) /\ s = u
         /\ row[1] # u => progress'[row[1]] = progress[row[1]]
  BY <1>1, Holder
<1>6. HeldInv'
  <2>1. ASSUME NEW s \in Scopes, NEW row \in Commits(s)' \cup Rollbacks(s)'
        PROVE  /\ stage'[s] \notin {"idle", "queued", "saved", "failed"}
               /\ Own(s, row)' /\ progress'[row[1]] > 0
               /\ row[1] = s \/ stage'[row[1]] = "saved"
    BY <1>1, <1>3, <1>5, <2>1 DEF Full, CallbackInv, HeldInv
  <2>2. ASSUME NEW s \in Running', progress'[s] > 0 PROVE Name(s)' \in Rollbacks(s)'
    <3>1. s \in Running /\ s \in Scopes
      BY <1>1 DEF Running
    <3>2. progress[s] > 0
      <4>1. s = u => progress[s] = 1
        BY <1>1
      <4>2. s # u => progress[s] = progress'[s]
        BY <1>1, <3>1
      <4> QED
        BY <2>2, <4>1, <4>2
    <3>3. Name(s) \in Rollbacks(s)
      BY <3>1, <3>2 DEF Full, CallbackInv, HeldInv
    <3> QED
      BY <1>3, <3>1, <3>3
  <2> QED
    BY <2>1, <2>2 DEF HeldInv
<1>7. PairInv'
  <2>1. ASSUME NEW s \in Scopes, s \in Running' \/ stage'[s] = "committed", NEW row \in Commits(s)'
        PROVE  row \in Rollbacks(s)' /\ progress'[row[1]] = 3
    <3>1. row \in Rollbacks(s) /\ progress[row[1]] = 3
      BY <1>1, <1>3, <2>1 DEF Full, CallbackInv, PairInv
    <3> QED
      BY <1>3, <1>5, <3>1
  <2>2. ASSUME NEW s \in Scopes, NEW row \in Rollbacks(s)', progress'[row[1]] = 3
        PROVE  /\ s \in Running' => row \in Commits(s)'
               /\ stage'[s] = "committed" /\ s \in known' => row \in Commits(s)' \/ <<"commit", row>> \in fired'
    <3>1. row \in Rollbacks(s) /\ progress[row[1]] = 3
      BY <1>3, <1>5, <2>2
    <3> QED
      BY <1>1, <1>3, <3>1 DEF Full, CallbackInv, PairInv
  <2> QED
    BY <2>1, <2>2 DEF PairInv
<1>8. InsideInv'
  <2> SUFFICES ASSUME NEW j \in 1 .. n, NEW row \in layers'[j].rows, row \in Rows, NEW t \in Lineage[row[1]]
               PROVE  /\ t \in Running => \A i \in LayersOf(t) : i <= j
                      /\ RootOf(t) \in Running => stage[t] \notin {"idle", "queued"}
    <3>1. \A row \in Rows : \A t \in Lineage[row[1]] : t \in Scopes
      BY RowFacts, Nested
    <3> QED
      BY <1>1, <1>2, <1>3, <3>1 DEF InsideInv
  <2>1. CASE row \in layers[j].rows
    BY <1>2, <2>1 DEF Full, CallbackInv, InsideInv
  <2>2. CASE j = n /\ row = Name(u)
    <3>1. \A i \in LayersOf(t) : i <= j
      BY <1>2, <2>2 DEF LayersOf
    <3>2. t \in Lineage[u]
      BY <2>2 DEF Name
    <3>3. t # u => u \in Savepoints
      BY <3>2, RootAlone DEF Scopes
    <3>4. stage[t] = "open"
      BY <1>1, <3>2, <3>3 DEF Full, Inv, TransactionInv, NestInv
    <3> QED
      BY <3>1, <3>4
  <2> QED
    BY <1>2, <2>1, <2>2
<1>9. KeptInv'
  <2> SUFFICES ASSUME NEW s \in Scopes, NEW row \in Rollbacks(s)
               PROVE  /\ progress'[row[1]] > 1 =>
                           /\ stage[s] = "committed" => row \in durable
                           /\ s \in Running =>
                                \E j \in 1 .. n :
                                  /\ row \in layers'[j].rows
                                  /\ \A t \in Running \ {s} : s \in Lineage[t] => \A i \in LayersOf(t)' : j < i
                      /\ stage[s] \in {"undone", "redo"} => row \notin (durable \cup LayerRows(1))'
    <3>1. /\ stage' = stage /\ Running' = Running /\ durable' = durable /\ DOMAIN layers' = 1 .. n
          /\ \A s \in Scopes : Rollbacks(s)' = Rollbacks(s)
      BY <1>1, <1>2, <1>3
    <3> QED
      BY <3>1 DEF KeptInv
  <2>1. \A t \in Running : LayersOf(t)' = LayersOf(t)
    BY <1>3 DEF Running
  <2>2. stage[s] \in {"undone", "redo"} => row \notin (durable \cup LayerRows(1))'
    BY <1>5, StaysGone
  <2>3. CASE row[1] = u
    <3>1. row = Name(u) /\ s = u
      BY <1>5, <2>3
    <3>2. \A t \in Running \ {u} : u \notin Lineage[t]
      <4> SUFFICES ASSUME NEW t \in Running, t # u, u \in Lineage[t] PROVE FALSE
        OBVIOUS
      <4>1. t \in Lineage[u] /\ t \in Scopes
        BY <1>1, Innermost DEF Full, Running
      <4> QED
        BY <4>1, Antisymmetric
    <3>3. n \in 1 .. n
      BY <1>2
    <3> QED
      BY <1>1, <1>2, <2>2, <3>1, <3>2, <3>3
  <2>4. CASE row[1] # u
    <3>1. progress'[row[1]] > 1 => progress[row[1]] > 1
      BY <1>5, <2>4
    <3>2. progress[row[1]] > 1 =>
               /\ stage[s] = "committed" => row \in durable
               /\ s \in Running =>
                    \E j \in 1 .. n :
                      /\ row \in layers[j].rows
                      /\ \A t \in Running \ {s} : s \in Lineage[t] => \A i \in LayersOf(t) : j < i
      BY <1>2 DEF Full, CallbackInv, KeptInv
    <3> QED
      BY <1>2, <2>1, <2>2, <3>1, <3>2
  <2> QED
    BY <2>3, <2>4
<1>10. FiredInv'
  BY <1>1, <1>3, FiredKept DEF Ending, Scopes
<1>11. TrackInv'
  <2> SUFFICES ASSUME NEW t \in Scopes, RootOf(t) \in known, progress'[t] > 0, stage[RootOf(t)] # "failed",
                      <<"rollback", Name(t)>> \notin fired
               PROVE  \E x \in Lineage[t] : Name(t) \in Rollbacks(x)'
    BY <1>1, <1>3 DEF TrackInv
  <2>1. Lineage[t] \subseteq Scopes /\ progress[t] > 0
    <3>1. CASE t = u
      BY <1>1, <3>1, Nested
    <3>2. CASE t # u
      BY <1>1, <3>2, Nested
    <3> QED
      BY <3>1, <3>2
  <2> QED
    BY <1>3, <2>1 DEF Full, CallbackInv, TrackInv
<1> QED
  BY <1>4, <1>6, <1>7, <1>8, <1>9, <1>10, <1>11 DEF CallbackInv

LEMMA CallsBegin ==
  ASSUME Full, Structured, [Next]_vars, NEW r \in Roots, BeginTransaction(r)
  PROVE  CallbackInv'
<1>1. /\ UNCHANGED <<progress, durable, onCommit, onRollback, fired, known>>
      /\ stage \in [Scopes -> Stages] /\ r \in Scopes /\ phase[r] = "exclusive" /\ stage[r] = "idle"
      /\ stage' = [stage EXCEPT ![r] = "open"] /\ attempt' = [attempt EXCEPT ![r] = @ + 1]
      /\ layers = <<>> /\ OpenLayer(r) /\ attempt \in [Roots -> Nat] /\ Roots \subseteq Scopes
  BY Shown DEF Full, BeginTransaction, OpenLayer, callbackVars
<1>2. /\ Running = {} /\ Running' = {r}
      /\ \A s \in Scopes : RootOf(s) \in Roots /\ RootOf(s) \in Scopes
  <2>1. Running = {}
    BY <1>1, OneRuns, RootRuns DEF Running, Full
  <2> QED
    BY <1>1, <2>1, OneRoot DEF Running
<1>3. DOMAIN layers' = {1} /\ layers'[1].rows = {} /\ LayerRows(1)' = {}
  <2>1. Len(layers') = 1 /\ layers' \in Seq(Layer) /\ layers'[1] = [scope |-> r, rows |-> {}]
    BY <1>1, Shown, OpenStep DEF Full
  <2>2. DOMAIN layers' = {1} /\ layers'[1].rows = {}
    BY <2>1
  <2> QED
    BY <2>1, <2>2 DEF LayerRows
<1>4. /\ \A s \in Scopes : Commits(s)' = Commits(s) /\ Rollbacks(s)' = Rollbacks(s)
      /\ \A s \in Scopes : RootOf(s) = r => Commits(s) = {} /\ Rollbacks(s) = {} /\ progress[s] = 0
      /\ \A s \in Scopes : RootOf(s) # r => /\ Name(s)' = Name(s) /\ stage'[s] = stage[s]
                                            /\ \A row : Own(s, row)' <=> Own(s, row)
  <2>1. \A s \in Scopes : Commits(s)' = Commits(s) /\ Rollbacks(s)' = Rollbacks(s)
    BY <1>1 DEF Commits, Rollbacks
  <2>2. \A s \in Scopes : RootOf(s) = r => Commits(s) = {} /\ Rollbacks(s) = {} /\ progress[s] = 0
    BY <1>1, HoldsNone DEF Full, CallbackInv, FreshInv
  <2>3. \A s \in Scopes : RootOf(s) # r => /\ Name(s)' = Name(s) /\ stage'[s] = stage[s]
                                           /\ \A row : Own(s, row)' <=> Own(s, row)
    BY <1>1, <1>2, RootOfRoot DEF Name, Own
  <2> QED
    BY <2>1, <2>2, <2>3
<1>5. ASSUME NEW s \in Scopes, NEW row \in Commits(s)' \cup Rollbacks(s)'
      PROVE  /\ row \in Commits(s) \cup Rollbacks(s) /\ RootOf(s) # r /\ stage'[s] = stage[s]
             /\ row \in Rows /\ row[1] \in Scopes /\ stage'[row[1]] = stage[row[1]]
  BY <1>4, <1>5, Holder
<1>6. FreshInv'
  BY <1>1, <1>2 DEF Full, CallbackInv, FreshInv
<1>7. HeldInv'
  <2>1. ASSUME NEW s \in Scopes, NEW row \in Commits(s)' \cup Rollbacks(s)'
        PROVE  /\ stage'[s] \notin {"idle", "queued", "saved", "failed"}
               /\ Own(s, row)' /\ progress'[row[1]] > 0
               /\ row[1] = s \/ stage'[row[1]] = "saved"
    BY <1>1, <1>4, <1>5, <2>1 DEF Full, CallbackInv, HeldInv
  <2> QED
    BY <1>1, <1>2, <1>4, <2>1, RootOfRoot DEF HeldInv
<1>8. PairInv'
  BY <1>1, <1>2, <1>4, <1>5, RootOfRoot DEF Full, CallbackInv, PairInv
<1>9. InsideInv'
  BY <1>3 DEF InsideInv
<1>10. KeptInv'
  <2> SUFFICES ASSUME NEW s \in Scopes, NEW row \in Rollbacks(s)'
               PROVE  /\ progress[row[1]] > 1 /\ stage'[s] = "committed" => row \in durable
                      /\ s \notin Running'
                      /\ stage'[s] \in {"undone", "redo"} => row \notin (durable \cup LayerRows(1))'
    BY <1>1 DEF KeptInv
  <2>1. row \in Rollbacks(s) /\ stage'[s] = stage[s] /\ s # r
    BY <1>4, <1>5, RootOfRoot
  <2> QED
    BY <1>1, <1>2, <1>3, <2>1 DEF Full, CallbackInv, KeptInv
<1>11. FiredInv'
  <2>1. \A x \in Roots : /\ attempt'[x] \in Nat /\ attempt[x] <= attempt'[x]
                         /\ stage[x] = "idle" => stage'[x] = "idle" \/ attempt[x] < attempt'[x]
    <3> SUFFICES ASSUME NEW x \in Roots
                 PROVE  /\ attempt'[x] \in Nat /\ attempt[x] <= attempt'[x]
                        /\ stage[x] = "idle" => stage'[x] = "idle" \/ attempt[x] < attempt'[x]
      OBVIOUS
    <3>1. CASE x = r
      BY <1>1, <3>1
    <3>2. CASE x # r
      BY <1>1, <3>2
    <3> QED
      BY <3>1, <3>2
  <2>2. \A s \in Scopes : stage[s] \in Ending => stage'[s] \in Ending
    BY <1>1 DEF Ending
  <2> QED
    BY <1>1, <2>1, <2>2, FiredKept
<1>12. TrackInv'
  <2> SUFFICES ASSUME NEW t \in Scopes, RootOf(t) \in known, progress[t] > 0, stage'[RootOf(t)] # "failed",
                      <<"rollback", Name(t)'>> \notin fired
               PROVE  \E x \in Lineage[t] : Name(t)' \in Rollbacks(x)'
    BY <1>1 DEF TrackInv
  <2>1. RootOf(t) # r /\ Name(t)' = Name(t) /\ stage[RootOf(t)] # "failed" /\ Lineage[t] \subseteq Scopes
    BY <1>1, <1>2, <1>4, Nested
  <2> QED
    BY <1>1, <1>4, <2>1 DEF Full, CallbackInv, TrackInv
<1> QED
  BY <1>6, <1>7, <1>8, <1>9, <1>10, <1>11, <1>12 DEF CallbackInv

LEMMA CallsCreate ==
  ASSUME Full, Structured, [Next]_vars, NEW u \in Savepoints, CreateSavepoint(u), OpenLayer(u),
         stage' = [stage EXCEPT ![u] = "open"]
  PROVE  CallbackInv'
<1> DEFINE n == Len(layers)
<1>1. /\ UNCHANGED <<attempt, progress, durable, onCommit, onRollback, fired, known>>
      /\ stage \in [Scopes -> Stages] /\ u \in Scopes /\ u \notin Roots /\ stage[u] = "queued"
      /\ attempt \in [Roots -> Nat] /\ Roots \subseteq Scopes
  BY Shown DEF Full, CreateSavepoint, OpenLayer, callbackVars
<1>2. /\ n \in Nat /\ DOMAIN layers = 1 .. n /\ DOMAIN layers' = 1 .. (n + 1)
      /\ \A i \in 1 .. n : layers'[i] = layers[i] /\ layers[i].scope # u
      /\ layers'[n + 1].scope = u /\ layers'[n + 1].rows = {}
  <2>1. /\ layers' \in Seq(Layer) /\ n \in Nat /\ Len(layers') = n + 1
        /\ \A i \in 1 .. n : layers'[i] = layers[i]
        /\ layers'[Len(layers')] = [scope |-> u, rows |-> {}]
        /\ DOMAIN layers = 1 .. n
    BY <1>1, Shown, OpenStep DEF Full
  <2>2. RootOf(u) \in Running
    BY <1>1, UnderWay DEF Full
  <2>3. \A i \in 1 .. n : layers[i].scope # u
    BY <1>1, <2>1, <2>2 DEF Full, Inv, TransactionInv, StackInv
  <2>4. DOMAIN layers' = 1 .. (n + 1) /\ layers'[n + 1] = [scope |-> u, rows |-> {}]
    BY <2>1
  <2> QED
    BY <2>1, <2>3, <2>4
<1> HIDE DEF n
<1>3. /\ Running' = Running \cup {u} /\ u \notin Running
      /\ \A s \in Scopes : /\ Commits(s)' = Commits(s) /\ Rollbacks(s)' = Rollbacks(s) /\ Name(s)' = Name(s)
                           /\ RootOf(s) \in Roots /\ RootOf(s) # u
      /\ \A s, row : Own(s, row)' <=> Own(s, row)
      /\ Commits(u) = {} /\ Rollbacks(u) = {} /\ progress[u] = 0
  <2>1. Commits(u) = {} /\ Rollbacks(u) = {} /\ progress[u] = 0
    BY <1>1, HoldsNone DEF Full, CallbackInv, FreshInv
  <2> QED
    BY <1>1, <2>1, OneRoot DEF Running, Commits, Rollbacks, Name, Own
<1>4. /\ LayersOf(u)' = {n + 1} /\ \A s : s # u => LayersOf(s)' = LayersOf(s)
      /\ LayerRows(1)' = LayerRows(1)
  <2>1. LayersOf(u)' = {n + 1}
    BY <1>2 DEF LayersOf
  <2>2. ASSUME NEW s, s # u PROVE LayersOf(s)' = LayersOf(s)
    <3>1. \A i \in 1 .. (n + 1) : layers'[i].scope = s <=> i \in 1 .. n /\ layers[i].scope = s
      BY <1>2, <2>2
    <3> QED
      BY <1>2, <3>1 DEF LayersOf
  <2>3. LayerRows(1)' = LayerRows(1)
    <3>1. Len(layers') = n + 1 /\ Len(layers) = n
      <4>1. layers' \in Seq(Layer)
        BY <1>1, Shown, OpenStep DEF Full
      <4> QED
        BY <1>2, <4>1 DEF n
    <3>2. LayerRows(1) = UNION {layers[i].rows : i \in 1 .. n}
      BY <3>1 DEF LayerRows
    <3>3. LayerRows(1)' = UNION {layers'[i].rows : i \in 1 .. (n + 1)}
      BY <3>1 DEF LayerRows
    <3>4. ASSUME NEW row
          PROVE  row \in UNION {layers'[i].rows : i \in 1 .. (n + 1)}
                    <=> row \in UNION {layers[i].rows : i \in 1 .. n}
      <4>1. /\ \A i \in 1 .. (n + 1) : i \in 1 .. n \/ i = n + 1
            /\ \A i \in 1 .. n : i \in 1 .. (n + 1)
        BY <1>2
      <4> QED
        BY <1>2, <4>1
    <3> QED
      BY <3>2, <3>3, <3>4
  <2> QED
    BY <2>1, <2>2, <2>3
<1>5. FreshInv'
  BY <1>1, <1>3 DEF Full, CallbackInv, FreshInv
<1>6. HeldInv'
  <2>1. ASSUME NEW s \in Scopes, NEW row \in Commits(s)' \cup Rollbacks(s)'
        PROVE  /\ stage'[s] \notin {"idle", "queued", "saved", "failed"}
               /\ Own(s, row)' /\ progress'[row[1]] > 0
               /\ row[1] = s \/ stage'[row[1]] = "saved"
    <3>1. row \in Commits(s) \cup Rollbacks(s) /\ row[1] \in Scopes /\ s # u
      BY <1>3, <2>1, Holder
    <3> QED
      BY <1>1, <1>3, <3>1 DEF Full, CallbackInv, HeldInv
  <2>2. \A s \in Running' : progress'[s] > 0 => Name(s)' \in Rollbacks(s)'
    BY <1>1, <1>3 DEF Full, CallbackInv, HeldInv, Running
  <2> QED
    BY <2>1, <2>2 DEF HeldInv
<1>7. PairInv'
  BY <1>1, <1>3 DEF Full, CallbackInv, PairInv
<1>8. InsideInv'
  <2> SUFFICES ASSUME NEW j \in DOMAIN layers', NEW row \in layers'[j].rows, row \in Rows, NEW t \in Lineage[row[1]]
               PROVE  /\ t \in Running' => \A i \in LayersOf(t)' : i <= j
                      /\ RootOf(t) \in Running' => stage'[t] \notin {"idle", "queued"}
    BY DEF InsideInv
  <2>1. j \in 1 .. n /\ row \in layers[j].rows /\ t \in Scopes
    BY <1>2, RowFacts, Nested
  <2>2. /\ t \in Running => \A i \in LayersOf(t) : i <= j
        /\ RootOf(t) \in Running => stage[t] \notin {"idle", "queued"}
    BY <1>2, <2>1 DEF Full, CallbackInv, InsideInv
  <2>3. t # u
    BY <1>1, <2>2, UnderWay DEF Full
  <2> QED
    BY <1>1, <1>3, <1>4, <2>1, <2>2, <2>3
<1>9. KeptInv'
  <2> SUFFICES ASSUME NEW s \in Scopes, NEW row \in Rollbacks(s)
               PROVE  /\ progress[row[1]] > 1 =>
                           /\ stage'[s] = "committed" => row \in durable
                           /\ s \in Running' =>
                                \E j \in DOMAIN layers' :
                                  /\ row \in layers'[j].rows
                                  /\ \A t \in Running' \ {s} : s \in Lineage[t] => \A i \in LayersOf(t)' : j < i
                      /\ stage'[s] \in {"undone", "redo"} => row \notin durable \cup LayerRows(1)
    BY <1>1, <1>3, <1>4 DEF KeptInv
  <2>1. s # u /\ stage'[s] = stage[s]
    BY <1>1, <1>3
  <2>2. /\ progress[row[1]] > 1 /\ stage'[s] = "committed" => row \in durable
        /\ stage'[s] \in {"undone", "redo"} => row \notin durable \cup LayerRows(1)
    BY <2>1 DEF Full, CallbackInv, KeptInv
  <2>3. ASSUME progress[row[1]] > 1, s \in Running'
        PROVE  \E j \in DOMAIN layers' :
                 /\ row \in layers'[j].rows
                 /\ \A t \in Running' \ {s} : s \in Lineage[t] => \A i \in LayersOf(t)' : j < i
    <3>1. PICK j \in DOMAIN layers :
            /\ row \in layers[j].rows
            /\ \A t \in Running \ {s} : s \in Lineage[t] => \A i \in LayersOf(t) : j < i
      BY <1>3, <2>1, <2>3 DEF Full, CallbackInv, KeptInv
    <3>2. j \in DOMAIN layers' /\ row \in layers'[j].rows /\ j < n + 1
      BY <1>2, <3>1
    <3> QED
      BY <1>3, <1>4, <3>1, <3>2
  <2> QED
    BY <2>2, <2>3
<1>10. FiredInv'
  BY <1>1, FiredKept DEF Ending
<1>11. TrackInv'
  BY <1>1, <1>3, Nested DEF Full, CallbackInv, TrackInv
<1> QED
  BY <1>5, <1>6, <1>7, <1>8, <1>9, <1>10, <1>11 DEF CallbackInv

(* The rows and callbacks of a savepoint that is released are its parent's. *)
LEMMA CallsRelease ==
  ASSUME Full, Structured, [Next]_vars, NEW u \in Savepoints, ReleaseSavepoint(u)
  PROVE  CallbackInv'
<1> DEFINE p == Parent[u]
<1>1. /\ UNCHANGED <<attempt, progress, fired, known>>
      /\ stage \in [Scopes -> Stages] /\ u \in Scopes /\ u \notin Roots /\ stage[u] = "returned"
      /\ stage' = [stage EXCEPT ![u] = "saved"] /\ u \in Running
      /\ p \in Scopes /\ p # u /\ stage[p] = "open" /\ p \in Running
      /\ Lineage[u] = {u} \cup Lineage[p] /\ RootOf(u) = RootOf(p) /\ p \in Lineage[p]
      /\ attempt \in [Roots -> Nat] /\ Roots \subseteq Scopes
  BY Shown, UnderWay, LineageStep, NoCycle, Nested DEF Full, ReleaseSavepoint, Running
<1>2. /\ Commits(p)' = Commits(p) \cup Commits(u) /\ Rollbacks(p)' = Rollbacks(p) \cup Rollbacks(u)
      /\ Commits(u)' = {} /\ Rollbacks(u)' = {}
      /\ \A s \in Scopes \ {p, u} : Commits(s)' = Commits(s) /\ Rollbacks(s)' = Rollbacks(s)
  <2>1. /\ onCommit \in [Scopes -> Seq(Rows)] /\ onRollback \in [Scopes -> Seq(Rows)]
        /\ onCommit' = [onCommit EXCEPT ![p] = onCommit[p] \o onCommit[u], ![u] = <<>>]
        /\ onRollback' = [onRollback EXCEPT ![p] = onRollback[p] \o onRollback[u], ![u] = <<>>]
    BY Shown DEF Full, ReleaseSavepoint, Handed
  <2>2. ASSUME NEW held \in [Scopes -> Seq(Rows)], NEW longer,
               longer = [held EXCEPT ![p] = held[p] \o held[u], ![u] = <<>>]
        PROVE  /\ Range(longer[p]) = Range(held[p]) \cup Range(held[u]) /\ Range(longer[u]) = {}
               /\ \A s \in Scopes \ {p, u} : longer[s] = held[s]
    <3>1. Range(held[p] \o held[u]) = Range(held[p]) \cup Range(held[u])
      BY <1>1, <2>2, RangeConcatenation
    <3> HIDE DEF p
    <3>2. longer[p] = held[p] \o held[u] /\ longer[u] = <<>>
          /\ \A s \in Scopes \ {p, u} : longer[s] = held[s]
      BY <1>1, <2>2
    <3> QED
      BY <3>1, <3>2, RangeEmpty
  <2> HIDE DEF p
  <2> QED
    BY <2>1, <2>2 DEF Commits, Rollbacks
<1> HIDE DEF p
<1>3. /\ \A s \in Scopes : Name(s)' = Name(s) /\ RootOf(s) \in Roots
      /\ \A s, row : Own(s, row)' <=> Own(s, row)
      /\ Running' = Running \ {u}
      /\ \A s \in Scopes \ {u} : stage'[s] = stage[s]
      /\ stage'[u] = "saved"
      /\ \A s \in Running : s \in Lineage[u] /\ s \in Scopes
  BY <1>1, OneRoot, Innermost DEF Name, Own, Running, Full
<1>4. PICK i \in LayersOf(u) : MergeLayer(i)
  BY DEF ReleaseSavepoint
<1> DEFINE n == Len(layers)
<1>5. /\ n \in Nat /\ DOMAIN layers = 1 .. n /\ DOMAIN layers' = 1 .. (i - 1) /\ i \in 2 .. n
      /\ durable' = durable
      /\ \A j \in 1 .. (i - 1) :
           /\ layers'[j].scope = layers[j].scope
           /\ layers[j].rows \subseteq layers'[j].rows
           /\ j < i - 1 => layers'[j].rows = layers[j].rows
      /\ layers'[i - 1].rows = layers[i - 1].rows \cup LayerRows(i)
  <2>1. i \in DOMAIN layers /\ layers[i].scope = u
    BY <1>4 DEF LayersOf
  <2>2. i # 1
    BY <1>1, <2>1, RootLayer, OneRoot DEF Full
  <2>3. /\ layers' \in Seq(Layer) /\ n \in Nat /\ i \in 2 .. n
        /\ Len(layers') = i - 1 /\ durable' = durable
        /\ \A j \in 1 .. i - 1 :
             /\ layers'[j].scope = layers[j].scope
             /\ layers'[j].rows = IF j = i - 1 THEN layers[j].rows \cup LayerRows(i) ELSE layers[j].rows
    BY <1>4, <2>1, <2>2, Shown, MergeStep DEF Full
  <2>4. DOMAIN layers' = 1 .. (i - 1) /\ DOMAIN layers = 1 .. n
    BY <2>3, Shown DEF Full
  <2> HIDE DEF n
  <2>5. ASSUME NEW j \in 1 .. (i - 1)
        PROVE  /\ layers[j].rows \subseteq layers'[j].rows
               /\ j < i - 1 => layers'[j].rows = layers[j].rows
    <3>1. CASE j = i - 1
      <4>1. layers'[j].rows = layers[j].rows \cup LayerRows(i)
        BY <2>3, <3>1
      <4>2. ~ (j < i - 1)
        BY <2>3, <3>1
      <4> QED
        BY <4>1, <4>2
    <3>2. CASE j # i - 1
      BY <2>3, <3>2
    <3> QED
      BY <3>1, <3>2
  <2>6. layers'[i - 1].rows = layers[i - 1].rows \cup LayerRows(i)
    <3>1. i - 1 \in 1 .. (i - 1)
      BY <2>3
    <3> QED
      BY <2>3, <3>1
  <2> QED
    BY <2>3, <2>4, <2>5, <2>6
<1> HIDE DEF n
<1>6. \A row \in LayerRows(i) : \E j \in i .. n : row \in layers[j].rows
  BY DEF LayerRows, n
<1>7. \A j \in i .. n : layers[j].rows \subseteq LayerRows(i)
  BY DEF LayerRows, n
<1>8. /\ \A s : LayersOf(s)' \subseteq LayersOf(s) /\ LayersOf(s) \cap 1 .. (i - 1) \subseteq LayersOf(s)'
      /\ \A s : LayersOf(s)' \subseteq 1 .. (i - 1)
  BY <1>5 DEF LayersOf
<1>9. FreshInv'
  BY <1>1, <1>3 DEF Full, CallbackInv, FreshInv
<1>10. ASSUME NEW s \in Scopes, NEW row
       PROVE  /\ row \in Commits(s)' => s # u /\ \E t \in {s, u} : row \in Commits(t) /\ (t = s \/ s = p)
              /\ row \in Rollbacks(s)' => s # u /\ \E t \in {s, u} : row \in Rollbacks(t) /\ (t = s \/ s = p)
  BY <1>1, <1>2
<1>11. HeldInv'
  <2>1. ASSUME NEW s \in Scopes, NEW row \in Commits(s)' \cup Rollbacks(s)'
        PROVE  /\ stage'[s] \notin {"idle", "queued", "saved", "failed"}
               /\ Own(s, row)' /\ progress'[row[1]] > 0
               /\ row[1] = s \/ stage'[row[1]] = "saved"
    <3>1. PICK t \in {s, u} : row \in Commits(t) \cup Rollbacks(t) /\ (t = s \/ s = p)
      BY <1>10, <2>1
    <3>2. s # u
      BY <1>10, <2>1
    <3>3. /\ row[1] \in Scopes /\ progress[row[1]] > 0 /\ (row[1] = t \/ stage[row[1]] = "saved") /\ Own(t, row)
      BY <1>1, <3>1, Holder DEF Full, CallbackInv, HeldInv
    <3>4. CASE t = s
      BY <1>1, <1>3, <3>1, <3>2, <3>3, <3>4, Holder
    <3>5. CASE t = u /\ s = p
      <4>1. Own(p, row)
        <5>1. u \in Lineage[row[1]]
          BY <3>3, <3>5 DEF Own
        <5>2. p \in Lineage[row[1]]
          BY <1>1, <3>3, <5>1, LineageTransitive
        <5> QED
          BY <1>1, <3>3, <3>5, <5>2 DEF Own
      <4> QED
        BY <1>1, <1>3, <3>2, <3>3, <3>5, <4>1
    <3> QED
      BY <3>1, <3>4, <3>5
  <2>2. \A s \in Running' : progress'[s] > 0 => Name(s)' \in Rollbacks(s)'
    BY <1>1, <1>2, <1>3 DEF Full, CallbackInv, HeldInv
  <2> QED
    BY <2>1, <2>2 DEF HeldInv
<1>12. PairInv'
  <2>1. ASSUME NEW s \in Scopes, s \in Running' \/ stage'[s] = "committed", NEW row \in Commits(s)'
        PROVE  row \in Rollbacks(s)' /\ progress'[row[1]] = 3
    <3>1. PICK t \in {s, u} : row \in Commits(t) /\ (t = s \/ s = p)
      BY <1>10, <2>1
    <3>2. t \in Running \/ stage[t] = "committed"
      BY <1>1, <1>3, <2>1, <3>1
    <3>3. row \in Rollbacks(t) /\ progress[row[1]] = 3
      BY <1>1, <3>1, <3>2 DEF Full, CallbackInv, PairInv
    <3> QED
      BY <1>1, <1>2, <1>10, <2>1, <3>1, <3>3
  <2>2. ASSUME NEW s \in Scopes, NEW row \in Rollbacks(s)', progress'[row[1]] = 3
        PROVE  /\ s \in Running' => row \in Commits(s)'
               /\ stage'[s] = "committed" /\ s \in known' => row \in Commits(s)' \/ <<"commit", row>> \in fired'
    <3>1. s # u /\ \E t \in {s, u} : row \in Rollbacks(t) /\ (t = s \/ s = p)
      BY <1>10, <2>2
    <3>2. PICK t \in {s, u} : row \in Rollbacks(t) /\ (t = s \/ s = p)
      BY <3>1
    <3>3. /\ t \in Running => row \in Commits(t)
          /\ stage[t] = "committed" /\ t \in known => row \in Commits(t) \/ <<"commit", row>> \in fired
      BY <1>1, <2>2, <3>2 DEF Full, CallbackInv, PairInv
    <3>4. CASE t = s
      BY <1>1, <1>2, <1>3, <3>1, <3>3, <3>4
    <3>5. CASE t = u /\ s = p
      BY <1>1, <1>2, <3>3, <3>5
    <3> QED
      BY <3>2, <3>4, <3>5
  <2> QED
    BY <2>1, <2>2 DEF PairInv
<1>13. InsideInv'
  <2> SUFFICES ASSUME NEW j \in DOMAIN layers', NEW row \in layers'[j].rows, row \in Rows, NEW t \in Lineage[row[1]]
               PROVE  /\ t \in Running' => \A k \in LayersOf(t)' : k <= j
                      /\ RootOf(t) \in Running' => stage'[t] \notin {"idle", "queued"}
    BY DEF InsideInv
  <2>1. j \in 1 .. (i - 1) /\ t \in Scopes
    BY <1>5, RowFacts, Nested
  <2>2. PICK m \in 1 .. n : row \in layers[m].rows /\ (m = j \/ j = i - 1)
    BY <1>5, <1>6, <2>1
  <2>3. /\ t \in Running => \A k \in LayersOf(t) : k <= m
        /\ RootOf(t) \in Running => stage[t] \notin {"idle", "queued"}
    BY <1>5, <2>2 DEF Full, CallbackInv, InsideInv
  <2>4. ASSUME t \in Running', NEW k \in LayersOf(t)' PROVE k <= j
    <3>1. k \in LayersOf(t) /\ k \in 1 .. (i - 1) /\ t \in Running
      BY <1>3, <1>8, <2>4
    <3> QED
      BY <1>5, <2>1, <2>2, <2>3, <3>1
  <2> QED
    BY <1>1, <1>3, <2>1, <2>3, <2>4
<1>14. KeptInv'
  <2> SUFFICES ASSUME NEW s \in Scopes, NEW row \in Rollbacks(s)'
               PROVE  /\ progress[row[1]] > 1 =>
                           /\ stage'[s] = "committed" => row \in durable
                           /\ s \in Running' =>
                                \E j \in DOMAIN layers' :
                                  /\ row \in layers'[j].rows
                                  /\ \A t \in Running' \ {s} : s \in Lineage[t] => \A k \in LayersOf(t)' : j < k
                      /\ stage'[s] \in {"undone", "redo"} => row \notin (durable \cup LayerRows(1))'
    BY <1>1, <1>5 DEF KeptInv
  <2>1. s # u /\ stage'[s] = stage[s] /\ (s = p \/ row \in Rollbacks(s))
    BY <1>3, <1>10
  <2>2. CASE row \in Rollbacks(s)
    <3>1. /\ progress[row[1]] > 1 =>
               /\ stage[s] = "committed" => row \in durable
               /\ s \in Running =>
                    \E j \in 1 .. n :
                      /\ row \in layers[j].rows
                      /\ \A t \in Running \ {s} : s \in Lineage[t] => \A k \in LayersOf(t) : j < k
      BY <1>5, <2>2 DEF Full, CallbackInv, KeptInv
    <3>2. row \in Rows
      BY <2>2, Holder
    <3>3. stage'[s] \in {"undone", "redo"} => row \notin (durable \cup LayerRows(1))'
      BY <2>1, <2>2, <3>2, StaysGone
    <3>4. ASSUME progress[row[1]] > 1, s \in Running'
          PROVE  \E j \in DOMAIN layers' :
                    /\ row \in layers'[j].rows
                    /\ \A t \in Running' \ {s} : s \in Lineage[t] => \A k \in LayersOf(t)' : j < k
      <4>1. PICK j \in 1 .. n :
              /\ row \in layers[j].rows
              /\ \A t \in Running \ {s} : s \in Lineage[t] => \A k \in LayersOf(t) : j < k
        BY <1>3, <3>1, <3>4
      <4>2. j < i
        BY <1>1, <1>3, <1>4, <2>1, <3>4, <4>1
      <4>3. j \in DOMAIN layers' /\ row \in layers'[j].rows
        BY <1>5, <4>1, <4>2
      <4> QED
        BY <1>3, <1>8, <4>1, <4>3
    <3> QED
      BY <2>1, <3>1, <3>3, <3>4
  <2>3. CASE s = p /\ row \in Rollbacks(u)
    <3>1. row \in Rows /\ u \in Lineage[row[1]]
      BY <1>1, <2>3, Holder
    <3>2. ASSUME progress[row[1]] > 1 PROVE row \in layers'[i - 1].rows
      <4>1. PICK j \in 1 .. n : row \in layers[j].rows
        BY <1>1, <1>5, <2>3, <3>2 DEF Full, CallbackInv, KeptInv
      <4>2. i <= j
        BY <1>1, <1>4, <1>5, <3>1, <4>1 DEF Full, CallbackInv, InsideInv
      <4> QED
        BY <1>5, <1>7, <4>1, <4>2
    <3>3. ASSUME NEW t \in Running' \ {p} PROVE p \notin Lineage[t]
      <4>1. t \in Lineage[p] /\ t \in Scopes
        BY <1>1, <1>3
      <4> QED
        BY <1>1, <4>1, Antisymmetric
    <3>4. i - 1 \in DOMAIN layers'
      BY <1>5
    <3> QED
      BY <1>1, <2>1, <2>3, <3>2, <3>3, <3>4
  <2> QED
    BY <1>10, <2>1, <2>2, <2>3
<1>15. FiredInv'
  <2>1. \A s \in Scopes : stage[s] \in Ending => stage'[s] \in Ending
    BY <1>3 DEF Ending
  <2>2. \A r \in Roots : stage'[r] = stage[r]
    BY <1>1, <1>3
  <2> QED
    BY <1>1, <2>1, <2>2, FiredKept
<1>16. TrackInv'
  <2> SUFFICES ASSUME NEW t \in Scopes, RootOf(t) \in known, progress[t] > 0, stage'[RootOf(t)] # "failed",
                      <<"rollback", Name(t)>> \notin fired
               PROVE  \E x \in Lineage[t] : Name(t) \in Rollbacks(x)'
    BY <1>1, <1>3 DEF TrackInv
  <2>1. stage[RootOf(t)] # "failed" /\ Lineage[t] \subseteq Scopes
    BY <1>1, <1>3, Nested
  <2>2. PICK x \in Lineage[t] : Name(t) \in Rollbacks(x)
    BY <2>1 DEF Full, CallbackInv, TrackInv
  <2>3. x = u => p \in Lineage[t]
    BY <1>1, <2>2, LineageTransitive
  <2> QED
    BY <1>1, <1>2, <2>1, <2>2, <2>3
<1> QED
  BY <1>9, <1>11, <1>12, <1>13, <1>14, <1>15, <1>16 DEF CallbackInv

(* The rows written in a savepoint that is undone are out of the driver's transaction. *)
LEMMA CallsRollbackTo ==
  ASSUME Full, Structured, [Next]_vars, NEW u \in Savepoints, RollbackToSavepoint(u)
  PROVE  CallbackInv'
<1>1. /\ UNCHANGED <<attempt, progress, onCommit, onRollback, fired, known>>
      /\ stage \in [Scopes -> Stages] /\ u \in Scopes /\ u \notin Roots /\ stage[u] = "threw"
      /\ stage' = [stage EXCEPT ![u] = "undone"] /\ u \in Running
      /\ attempt \in [Roots -> Nat] /\ Roots \subseteq Scopes
      /\ RootOf(u) \in Running \cap Roots
  BY Shown, RootRuns DEF Full, RollbackToSavepoint, Running
<1>2. /\ \A s \in Scopes : /\ Name(s)' = Name(s) /\ RootOf(s) \in Roots
                           /\ Commits(s)' = Commits(s) /\ Rollbacks(s)' = Rollbacks(s)
      /\ \A s, row : Own(s, row)' <=> Own(s, row)
      /\ Running' = Running \ {u}
      /\ \A s \in Scopes \ {u} : stage'[s] = stage[s]
      /\ stage'[u] = "undone"
      /\ \A s \in Running : s \in Lineage[u] /\ s \in Scopes
  BY <1>1, OneRoot, Innermost DEF Name, Own, Running, Commits, Rollbacks, Full
<1>3. PICK i \in LayersOf(u) : EmptyLayer(i)
  BY DEF RollbackToSavepoint
<1> DEFINE n == Len(layers)
<1>4. /\ n \in Nat /\ DOMAIN layers = 1 .. n /\ DOMAIN layers' = 1 .. i /\ Len(layers') = i /\ i \in 1 .. n
      /\ durable' = durable
      /\ \A j \in 1 .. i :
           /\ layers'[j].scope = layers[j].scope
           /\ layers'[j].rows = IF j = i THEN {} ELSE layers[j].rows
  <2>1. i \in DOMAIN layers
    BY DEF LayersOf
  <2>2. /\ layers' \in Seq(Layer) /\ n \in Nat /\ i \in 1 .. n
        /\ Len(layers') = i /\ durable' = durable
        /\ \A j \in 1 .. i :
             /\ layers'[j].scope = layers[j].scope
             /\ layers'[j].rows = IF j = i THEN {} ELSE layers[j].rows
    BY <1>3, <2>1, Shown, EmptyStep DEF Full
  <2> QED
    BY <2>2, Shown DEF Full
<1> HIDE DEF n
<1>5. \A j \in 1 .. i : \A row \in layers'[j].rows : j < i /\ row \in layers[j].rows
  BY <1>4
<1>6. /\ \A s : LayersOf(s)' \subseteq LayersOf(s)
  BY <1>4 DEF LayersOf
<1>7. FreshInv'
  BY <1>1, <1>2 DEF Full, CallbackInv, FreshInv
<1>8. HeldInv'
  <2>1. ASSUME NEW s \in Scopes, NEW row \in Commits(s) \cup Rollbacks(s)
        PROVE  /\ stage'[s] \notin {"idle", "queued", "saved", "failed"}
               /\ Own(s, row)' /\ progress'[row[1]] > 0
               /\ row[1] = s \/ stage'[row[1]] = "saved"
    BY <1>1, <1>2, <2>1, Holder DEF Full, CallbackInv, HeldInv
  <2>2. \A s \in Running' : progress'[s] > 0 => Name(s)' \in Rollbacks(s)'
    BY <1>1, <1>2 DEF Full, CallbackInv, HeldInv
  <2> QED
    BY <1>2, <2>1, <2>2 DEF HeldInv
<1>9. PairInv'
  BY <1>1, <1>2 DEF Full, CallbackInv, PairInv
<1>10. InsideInv'
  <2> SUFFICES ASSUME NEW j \in DOMAIN layers', NEW row \in layers'[j].rows, row \in Rows, NEW t \in Lineage[row[1]]
               PROVE  /\ t \in Running' => \A k \in LayersOf(t)' : k <= j
                      /\ RootOf(t) \in Running' => stage'[t] \notin {"idle", "queued"}
    BY DEF InsideInv
  <2>1. j \in DOMAIN layers /\ row \in layers[j].rows /\ t \in Scopes
    BY <1>4, <1>5, RowFacts, Nested
  <2>2. /\ t \in Running => \A k \in LayersOf(t) : k <= j
        /\ RootOf(t) \in Running => stage[t] \notin {"idle", "queued"}
    BY <2>1 DEF Full, CallbackInv, InsideInv
  <2> QED
    BY <1>2, <1>6, <2>1, <2>2
<1>11. KeptInv'
  <2> SUFFICES ASSUME NEW s \in Scopes, NEW row \in Rollbacks(s)
               PROVE  /\ progress[row[1]] > 1 =>
                           /\ stage'[s] = "committed" => row \in durable
                           /\ s \in Running' =>
                                \E j \in DOMAIN layers' :
                                  /\ row \in layers'[j].rows
                                  /\ \A t \in Running' \ {s} : s \in Lineage[t] => \A k \in LayersOf(t)' : j < k
                      /\ stage'[s] \in {"undone", "redo"} => row \notin (durable \cup LayerRows(1))'
    BY <1>1, <1>2, <1>4 DEF KeptInv
  <2>1. row \in Rows /\ s \in Lineage[row[1]] /\ RootOf(row[1]) = RootOf(s)
    BY Holder
  <2>2. CASE s = u
    <3>1. row \notin durable
      BY <1>1, <2>1, <2>2 DEF Full, Inv, TransactionInv, DurableInv, Running
    <3>2. row \notin LayerRows(1)'
      <4> SUFFICES ASSUME NEW j \in 1 .. i, row \in layers'[j].rows PROVE FALSE
        BY <1>4 DEF LayerRows
      <4>1. j < i /\ row \in layers[j].rows /\ j \in DOMAIN layers
        BY <1>4, <1>5
      <4>2. i <= j
        BY <1>1, <1>3, <2>1, <2>2, <4>1 DEF Full, CallbackInv, InsideInv
      <4> QED
        BY <1>4, <4>1, <4>2
    <3> QED
      BY <1>2, <1>4, <2>2, <3>1, <3>2
  <2>3. CASE s # u
    <3>1. stage'[s] = stage[s]
      BY <1>2, <2>3
    <3>2. stage'[s] \in {"undone", "redo"} => row \notin (durable \cup LayerRows(1))'
      BY <2>1, <3>1, StaysGone
    <3>3. progress[row[1]] > 1 /\ stage'[s] = "committed" => row \in durable
      BY <3>1 DEF Full, CallbackInv, KeptInv
    <3>4. ASSUME progress[row[1]] > 1, s \in Running'
          PROVE  \E j \in DOMAIN layers' :
                   /\ row \in layers'[j].rows
                   /\ \A t \in Running' \ {s} : s \in Lineage[t] => \A k \in LayersOf(t)' : j < k
      <4>1. PICK j \in 1 .. n :
              /\ row \in layers[j].rows
              /\ \A t \in Running \ {s} : s \in Lineage[t] => \A k \in LayersOf(t) : j < k
        BY <1>2, <1>4, <3>4 DEF Full, CallbackInv, KeptInv
      <4>2. j < i
        BY <1>1, <1>2, <1>3, <2>3, <3>4, <4>1
      <4>3. j \in DOMAIN layers' /\ row \in layers'[j].rows
        BY <1>4, <4>1, <4>2
      <4> QED
        BY <1>2, <1>6, <4>1, <4>3
    <3> QED
      BY <3>2, <3>3, <3>4
  <2> QED
    BY <2>2, <2>3
<1>12. FiredInv'
  <2>1. \A s \in Scopes : stage[s] \in Ending => stage'[s] \in Ending
    BY <1>2 DEF Ending
  <2>2. \A r \in Roots : stage'[r] = stage[r]
    BY <1>1, <1>2
  <2> QED
    BY <1>1, <2>1, <2>2, FiredKept
<1>13. TrackInv'
  <2> SUFFICES ASSUME NEW t \in Scopes, RootOf(t) \in known, progress[t] > 0, stage'[RootOf(t)] # "failed",
                      <<"rollback", Name(t)>> \notin fired
               PROVE  \E x \in Lineage[t] : Name(t) \in Rollbacks(x)'
    BY <1>1, <1>2 DEF TrackInv
  <2>1. stage[RootOf(t)] # "failed" /\ Lineage[t] \subseteq Scopes
    BY <1>1, <1>2, Nested
  <2> QED
    BY <1>2, <2>1 DEF Full, CallbackInv, TrackInv
<1> QED
  BY <1>7, <1>8, <1>9, <1>10, <1>11, <1>12, <1>13 DEF CallbackInv

(* A savepoint that cannot be undone drops its callbacks: nobody can tell what they would. *)
LEMMA CallsRollbackFails ==
  ASSUME Full, Structured, [Next]_vars, NEW u \in Savepoints, RollbackToFails(u)
  PROVE  CallbackInv'
<1>1. /\ UNCHANGED <<attempt, progress, layers, durable, fired>>
      /\ stage \in [Scopes -> Stages] /\ u \in Scopes /\ u \notin Roots /\ stage[u] = "threw"
      /\ stage' = [stage EXCEPT ![u] = "failed"] /\ known' = known \ {RootOf(u)}
      /\ attempt \in [Roots -> Nat] /\ Roots \subseteq Scopes
  BY Shown DEF Full, RollbackToFails, driverVars
<1>2. /\ Commits(u)' = {} /\ Rollbacks(u)' = {}
      /\ \A s \in Scopes \ {u} : Commits(s)' = Commits(s) /\ Rollbacks(s)' = Rollbacks(s)
  <2>1. /\ onCommit' = [onCommit EXCEPT ![u] = <<>>] /\ onRollback' = [onRollback EXCEPT ![u] = <<>>]
        /\ onCommit \in [Scopes -> Seq(Rows)] /\ onRollback \in [Scopes -> Seq(Rows)]
    BY Shown DEF Full, RollbackToFails
  <2> QED
    BY <1>1, <2>1, RangeEmpty DEF Commits, Rollbacks
<1>3. /\ \A s \in Scopes : Name(s)' = Name(s) /\ RootOf(s) \in Roots /\ LayersOf(s)' = LayersOf(s)
      /\ \A s, row : Own(s, row)' <=> Own(s, row)
      /\ Running' = Running \ {u} /\ \A s \in Running : s \in Scopes
      /\ \A s \in Scopes \ {u} : stage'[s] = stage[s]
      /\ stage'[u] = "failed"
  BY <1>1, OneRoot DEF Name, Own, Running, LayersOf
<1>4. FreshInv'
  BY <1>1, <1>3 DEF Full, CallbackInv, FreshInv
<1>5. HeldInv'
  <2>1. ASSUME NEW s \in Scopes, NEW row \in Commits(s)' \cup Rollbacks(s)'
        PROVE  /\ stage'[s] \notin {"idle", "queued", "saved", "failed"}
               /\ Own(s, row)' /\ progress'[row[1]] > 0
               /\ row[1] = s \/ stage'[row[1]] = "saved"
    <3>1. s # u /\ row \in Commits(s) \cup Rollbacks(s)
      BY <1>2, <2>1
    <3> QED
      BY <1>1, <1>3, <3>1, Holder DEF Full, CallbackInv, HeldInv
  <2>2. \A s \in Running' : progress'[s] > 0 => Name(s)' \in Rollbacks(s)'
    BY <1>1, <1>2, <1>3 DEF Full, CallbackInv, HeldInv
  <2> QED
    BY <2>1, <2>2 DEF HeldInv
<1>6. PairInv'
  <2>1. ASSUME NEW s \in Scopes, s \in Running' \/ stage'[s] = "committed"
        PROVE  s # u /\ (s \in Running \/ stage[s] = "committed")
    BY <1>3, <2>1
  <2>2. ASSUME NEW s \in Scopes, s \in Running' \/ stage'[s] = "committed", NEW row \in Commits(s)'
        PROVE  row \in Rollbacks(s)' /\ progress'[row[1]] = 3
    BY <1>1, <1>2, <2>1, <2>2 DEF Full, CallbackInv, PairInv
  <2>3. ASSUME NEW s \in Scopes, NEW row \in Rollbacks(s)', progress'[row[1]] = 3
        PROVE  /\ s \in Running' => row \in Commits(s)'
               /\ stage'[s] = "committed" /\ s \in known' => row \in Commits(s)' \/ <<"commit", row>> \in fired'
    BY <1>1, <1>2, <1>3, <2>3 DEF Full, CallbackInv, PairInv
  <2> QED
    BY <2>2, <2>3 DEF PairInv
<1>7. InsideInv'
  <2> SUFFICES ASSUME NEW j \in DOMAIN layers, NEW row \in layers[j].rows \cap Rows, NEW t \in Lineage[row[1]]
               PROVE  /\ t \in Running' => \A i \in LayersOf(t)' : i <= j
                      /\ RootOf(t) \in Running' => stage'[t] \notin {"idle", "queued"}
    BY <1>1 DEF InsideInv
  <2>1. t \in Scopes
    BY RowFacts, Nested
  <2>2. /\ t \in Running => \A i \in LayersOf(t) : i <= j
        /\ RootOf(t) \in Running => stage[t] \notin {"idle", "queued"}
    BY DEF Full, CallbackInv, InsideInv
  <2> QED
    BY <1>3, <2>1, <2>2
<1>8. KeptInv'
  <2> SUFFICES ASSUME NEW s \in Scopes, NEW row \in Rollbacks(s)'
               PROVE  /\ progress[row[1]] > 1 =>
                           /\ stage'[s] = "committed" => row \in durable
                           /\ s \in Running' =>
                                \E j \in DOMAIN layers :
                                  /\ row \in layers[j].rows
                                  /\ \A t \in Running' \ {s} : s \in Lineage[t] => \A i \in LayersOf(t)' : j < i
                      /\ stage'[s] \in {"undone", "redo"} => row \notin durable \cup LayerRows(1)
    BY <1>1 DEF KeptInv, LayerRows
  <2>1. s # u /\ row \in Rollbacks(s)
    BY <1>2
  <2>2. /\ progress[row[1]] > 1 =>
             /\ stage[s] = "committed" => row \in durable
             /\ s \in Running =>
                  \E j \in DOMAIN layers :
                    /\ row \in layers[j].rows
                    /\ \A t \in Running \ {s} : s \in Lineage[t] => \A i \in LayersOf(t) : j < i
        /\ stage[s] \in {"undone", "redo"} => row \notin durable \cup LayerRows(1)
    BY <2>1 DEF Full, CallbackInv, KeptInv
  <2>3. \A t \in Running' : t \in Running /\ LayersOf(t)' = LayersOf(t)
    BY <1>3
  <2> QED
    BY <1>3, <2>1, <2>2, <2>3
<1>9. FiredInv'
  <2>1. \A s \in Scopes : stage[s] \in Ending => stage'[s] \in Ending
    BY <1>3 DEF Ending
  <2>2. \A r \in Roots : stage'[r] = stage[r]
    BY <1>1, <1>3
  <2> QED
    BY <1>1, <2>1, <2>2, FiredKept
<1>10. TrackInv'
  <2> SUFFICES ASSUME NEW t \in Scopes, RootOf(t) \in known', progress[t] > 0, stage'[RootOf(t)] # "failed",
                      <<"rollback", Name(t)>> \notin fired
               PROVE  \E x \in Lineage[t] : Name(t) \in Rollbacks(x)'
    BY <1>1, <1>3 DEF TrackInv
  <2>1. stage[RootOf(t)] # "failed" /\ RootOf(t) \in known /\ RootOf(t) # RootOf(u)
    BY <1>1, <1>3
  <2>2. PICK x \in Lineage[t] : Name(t) \in Rollbacks(x)
    BY <2>1 DEF Full, CallbackInv, TrackInv
  <2>3. x \in Scopes /\ RootOf(x) = RootOf(t)
    BY RootOfInside
  <2> QED
    BY <1>2, <2>1, <2>2, <2>3
<1> QED
  BY <1>4, <1>5, <1>6, <1>7, <1>8, <1>9, <1>10 DEF CallbackInv

(* A statement that ends when no transaction runs. *)
LEMMA CallsStatement ==
  ASSUME Full, Structured, [Next]_vars, NEW q \in Queries, Put(q), Running = {},
         UNCHANGED <<scopeVars, callbackVars>>
  PROVE  CallbackInv'
<1>1. /\ UNCHANGED <<stage, attempt, progress, onCommit, onRollback, fired, known>> /\ Running' = {}
      /\ \A s \in Scopes : /\ Name(s)' = Name(s)
                           /\ Commits(s)' = Commits(s) /\ Rollbacks(s)' = Rollbacks(s)
      /\ \A s, row : Own(s, row)' <=> Own(s, row)
      /\ attempt \in [Roots -> Nat]
  BY Shown DEF Full, scopeVars, callbackVars, Running, Name, Commits, Rollbacks, Own
<1>2. FreshInv'
  BY <1>1 DEF Full, CallbackInv, FreshInv
<1>3. HeldInv'
  BY <1>1 DEF Full, CallbackInv, HeldInv
<1>4. PairInv'
  BY <1>1 DEF Full, CallbackInv, PairInv
<1>5. InsideInv'
  BY <1>1 DEF InsideInv
<1>6. KeptInv'
  <2> SUFFICES ASSUME NEW s \in Scopes, NEW row \in Rollbacks(s)
               PROVE  /\ progress[row[1]] > 1 /\ stage[s] = "committed" => row \in durable'
                      /\ stage[s] \in {"undone", "redo"} => row \notin (durable \cup LayerRows(1))'
    BY <1>1 DEF KeptInv
  <2>1. row \in Rows
    BY Holder
  <2> QED
    BY <2>1, StaysGone, Driven DEF Full, CallbackInv, KeptInv
<1>7. FiredInv'
  BY <1>1, FiredKept
<1>8. TrackInv'
  BY <1>1, Nested DEF Full, CallbackInv, TrackInv
<1> QED
  BY <1>2, <1>3, <1>4, <1>5, <1>6, <1>7, <1>8 DEF CallbackInv

LEMMA InitCalls == Init => CallbackInv
<1> SUFFICES ASSUME Init PROVE CallbackInv
  OBVIOUS
<1>1. /\ stage \in [Scopes -> {"idle"}] /\ progress \in [Scopes -> {0}] /\ layers = <<>> /\ durable = {} /\ fired = {}
      /\ Running = {}
      /\ \A s \in Scopes : Commits(s) = {} /\ Rollbacks(s) = {}
  BY RangeEmpty DEF Init, Running, Commits, Rollbacks
<1> QED
  BY <1>1 DEF CallbackInv, FreshInv, HeldInv, PairInv, InsideInv, KeptInv, FiredInv, CallbacksTellTruth, TrackInv

(* Every step keeps what CallbackInv says. *)
LEMMA CallsStay ==
  ASSUME Full, Structured, [Next]_vars
  PROVE  CallbackInv'
<1>1. /\ stage \in [Scopes -> Stages] /\ known \subseteq Roots /\ Roots \subseteq Scopes
      /\ \A s \in Savepoints : s \in Scopes /\ s \notin Roots
  BY Shown DEF Full
<1>2. ASSUME UNCHANGED <<scopeVars, driverVars, callbackVars>> PROVE CallbackInv'
  BY <1>2, CallsAlike DEF scopeVars, driverVars, callbackVars
<1>3. ASSUME NEW r \in Roots, RootStep(r) PROVE CallbackInv'
  <2>1. CASE Request(r) \/ Resume(r)
    BY <1>2, <2>1 DEF Request, Resume
  <2>2. CASE BeginTransaction(r)
    BY <2>2, CallsBegin
  <2>3. CASE BeginFails(r) \/ CommitFails(r) \/ RollbackFails(r)
    <3>1. Running' = {} /\ \A t \in Scopes : r \in Lineage[t] /\ t # r => stage[t] \in Over
      BY <2>3, Leaves DEF Full
    <3>2. /\ GiveUp(r) \/ (r \in Roots /\ \E n : Retry(r, n))
          /\ fired' = fired /\ known' \subseteq known /\ stage[r] # "saved"
          /\ \/ attempt' = attempt /\ stage[r] # "idle"
             \/ r \in Roots /\ stage[r] = "idle" /\ attempt' = [attempt EXCEPT ![r] = @ + 1]
      <4>1. CASE BeginFails(r)
        BY <4>1 DEF BeginFails
      <4>2. CASE CommitFails(r)
        BY <4>2 DEF CommitFails
      <4>3. CASE RollbackFails(r)
        BY <4>3 DEF RollbackFails
      <4> QED
        BY <2>3, <4>1, <4>2, <4>3
    <3>3. r \in Scopes /\ (r \in Savepoints => onRollback[r] = <<>>)
      BY <1>1
    <3>4. Running' = {} \/ UNCHANGED <<attempt, layers>>
      BY <3>1
    <3> QED
      BY <3>1, <3>2, <3>3, <3>4, CallsEnded
  <2>4. CASE Commit(r)
    BY <2>4, CallsCommit
  <2>5. CASE Rollback(r)
    BY <2>5, CallsRollback
  <2>6. CASE AfterCommit(r)
    BY <2>6, CallsAfterCommit
  <2> QED
    BY <1>3, <2>1, <2>2, <2>3, <2>4, <2>5, <2>6 DEF RootStep
<1>4. ASSUME NEW s \in Scopes, ScopeStep(s) PROVE CallbackInv'
  <2>1. CASE RegisterRollback(s)
    BY <2>1, CallsRegisterRollback
  <2>2. CASE Write(s)
    BY <2>2, CallsWrite
  <2>3. CASE RegisterCommit(s)
    BY <2>3, CallsRegisterCommit
  <2>4. CASE End(s)
    <3>1. PICK v \in {"returned", "threw", "conflict"} : stage' = [stage EXCEPT ![s] = v]
      BY <2>4 DEF End
    <3>2. /\ s \in Running
          /\ UNCHANGED <<attempt, progress, layers, durable, onCommit, onRollback, fired, known>>
      BY <2>4 DEF End, InCallback, Running, driverVars, callbackVars
    <3>3. \A t \in Scopes : stage'[t] = stage[t] \/ (t = s /\ stage'[t] = v)
      BY <1>1, <3>1
    <3> QED
      BY <3>2, <3>3, CallsAlike
  <2>5. CASE AfterRollback(s)
    BY <2>5, CallsAfterRollback
  <2>6. CASE Settled(s)
    <3>1. /\ GiveUp(s) \/ (s \in Roots /\ \E n : Retry(s, n))
          /\ UNCHANGED <<attempt, layers, fired, known>> /\ stage[s] \in {"undone", "redo"}
          /\ onRollback[s] = <<>>
      BY <2>6 DEF Settled, Full, Inv, TransactionInv, NestInv, Scopes, driverVars
    <3>2. \A t \in Scopes : s \in Lineage[t] /\ t # s => stage[t] \in Over
      BY <3>1, RootAlone, NoneInside DEF Full, Scopes
    <3>3. /\ fired' = fired /\ known' \subseteq known /\ stage[s] # "saved"
          /\ s \in Savepoints => onRollback[s] = <<>>
          /\ \/ attempt' = attempt /\ stage[s] # "idle"
             \/ s \in Roots /\ stage[s] = "idle" /\ attempt' = [attempt EXCEPT ![s] = @ + 1]
          /\ Running' = {} \/ UNCHANGED <<attempt, layers>>
      BY <3>1
    <3>4. GiveUp(s) \/ (s \in Roots /\ \E n : Retry(s, n))
      BY <3>1
    <3> QED
      BY <3>2, <3>3, <3>4, CallsEnded
  <2> QED
    BY <1>4, <2>1, <2>2, <2>3, <2>4, <2>5, <2>6 DEF ScopeStep
<1>5. ASSUME NEW s \in Savepoints, SavepointStep(s) PROVE CallbackInv'
  <2>1. CASE Start(s) \/ ReleaseFails(s)
    <3>1. UNCHANGED <<attempt, progress, layers, durable, onCommit, onRollback, fired, known>>
      BY <2>1 DEF Start, ReleaseFails, driverVars, callbackVars
    <3>2. \A t \in Scopes : \/ stage'[t] = stage[t]
                            \/ t \in Running /\ stage'[t] = "threw"
                            \/ t \in Savepoints /\ stage[t] = "idle" /\ stage'[t] = "queued"
      BY <1>1, <2>1 DEF Start, ReleaseFails, Running
    <3> QED
      BY <3>1, <3>2, CallsAlike
  <2>2. CASE CreateSavepoint(s)
    <3>1. CASE OpenLayer(s) /\ stage' = [stage EXCEPT ![s] = "open"]
      BY <2>2, <3>1, CallsCreate
    <3>2. CASE stage' = [stage EXCEPT ![s] = "failed"] /\ UNCHANGED driverVars
      <4>1. UNCHANGED <<attempt, progress, layers, durable, onCommit, onRollback, fired, known>>
        BY <2>2, <3>2 DEF CreateSavepoint, driverVars, callbackVars
      <4>2. \A t \in Scopes : \/ stage'[t] = stage[t]
                              \/ t \in Savepoints /\ stage[t] = "queued" /\ stage'[t] = "failed"
        BY <1>1, <2>2, <3>2 DEF CreateSavepoint
      <4> QED
        BY <4>1, <4>2, CallsAlike
    <3> QED
      BY <2>2, <3>1, <3>2 DEF CreateSavepoint
  <2>3. CASE ReleaseSavepoint(s)
    BY <2>3, CallsRelease
  <2>4. CASE RollbackToSavepoint(s)
    BY <2>4, CallsRollbackTo
  <2>5. CASE RollbackToFails(s)
    BY <2>5, CallsRollbackFails
  <2> QED
    BY <1>5, <2>1, <2>2, <2>3, <2>4, <2>5 DEF SavepointStep
<1>6. ASSUME NEW q \in Queries, Statement(q) PROVE CallbackInv'
  <2>1. UNCHANGED <<scopeVars, callbackVars>>
    BY <1>6 DEF Statement
  <2>2. UNCHANGED driverVars \/ (Put(q) /\ Running = {})
    BY <1>6, StatementAlone DEF Full
  <2> QED
    BY <1>2, <2>1, <2>2, CallsStatement
<1>7. CASE UNCHANGED vars
  BY <1>2, <1>7 DEF vars
<1> QED
  BY <1>3, <1>4, <1>5, <1>6, <1>7 DEF Next

LEMMA FullStep ==
  ASSUME Structured
  PROVE  Full /\ [Next]_vars => Full'
<1> SUFFICES ASSUME Full, [Next]_vars PROVE Full'
  OBVIOUS
<1>1. Inv'
  BY InvStep DEF Full
<1> QED
  BY <1>1, CallsStay DEF Full

LEMMA FullInvariance ==
  ASSUME Structured
  PROVE  (Spec => []Full) /\ (MediaSpec => []Full)
<1>1. Full /\ [Next]_vars => Full'
  BY FullStep
<1>2. (Init => Full) /\ (MediaInit => Full)
  BY InitInv, InitCalls DEF Full, MediaInit
<1>3. [MediaNext]_<<vars, mediaVars>> => [Next]_vars
  BY MediaStep
<1> QED
  BY <1>1, <1>2, <1>3, PTL DEF Spec, MediaSpec

(* When the callbacks of a root transaction have run, the one of a scope inside it ran too, or
   is held by the root, which committed. *)
LEMMA HeldAtEnd ==
  ASSUME Full, NEW r \in known, Drained(r), NEW s \in Scopes, r \in Lineage[s], progress[s] > 0
  PROVE  /\ Name(s) \in Rows
         /\ <<"rollback", Name(s)>> \in fired \/ Name(s) \in Rollbacks(r)
<1>1. /\ r \in Roots /\ r \in Scopes /\ RootOf(s) = r /\ RootOf(r) = r
      /\ stage[r] \in {"committed", "undone", "redo"}
  BY Shown, OneRoot, RootOfRoot DEF Full, Drained
<1> DEFINE name == Name(s)
           undone == <<"rollback", name>> \in fired
<1>2. undone \/ \E t \in Lineage[s] : name \in Rollbacks(t)
  BY <1>1 DEF Full, CallbackInv, TrackInv
<1>3. undone => name \in Rows
  BY Shown DEF Full
<1>4. ASSUME NEW t \in Lineage[s], name \in Rollbacks(t) PROVE name \in Rows /\ t = r
  <2>1. t \in Scopes /\ RootOf(t) = r
    BY <1>1, RootOfInside
  <2>2. name \in Rows /\ stage[t] \notin {"idle", "saved", "failed"}
    BY <1>4, <2>1, Holder
  <2>3. t \in Savepoints => stage[r] = "open"
    BY <2>1, <2>2, UnderWay DEF Full
  <2>4. t \in Roots
    BY <1>1, <2>1, <2>3 DEF Scopes
  <2> QED
    BY <2>1, <2>2, <2>4, RootOfRoot
<1> QED
  BY <1>2, <1>3, <1>4

LEMMA FullForgetsNothing == Full => NothingForgotten
<1> SUFFICES ASSUME Full, NEW r \in known, Drained(r), NEW s \in Scopes, r \in Lineage[s]
             PROVE  LET saved == Name(s) \in durable
                    IN  /\ progress[s] >= 2 => saved # (<<"rollback", Name(s)>> \in fired)
                        /\ progress[s] = 3 => saved = (<<"commit", Name(s)>> \in fired)
  BY DEF NothingForgotten
<1>1. /\ r \in Roots /\ r \in Scopes /\ RootOf(s) = r /\ RootOf(r) = r
      /\ stage[r] \in {"committed", "undone", "redo"} /\ progress[s] \in 0 .. 3
  BY Shown, OneRoot, RootOfRoot DEF Full, Drained
<1> DEFINE name == Name(s)
           undone == <<"rollback", name>> \in fired
           done == <<"commit", name>> \in fired
<1>2. ASSUME progress[s] > 0 PROVE name \in Rows /\ (undone \/ name \in Rollbacks(r))
  BY <1>2, HeldAtEnd
<1>3. name[1] = s
  BY DEF Name
<1>4. undone => name \notin durable
  BY Shown DEF Full, CallbackInv, FiredInv, CallbacksTellTruth
<1>5. done => name \in durable
  BY Shown DEF Full, CallbackInv, FiredInv, CallbacksTellTruth
<1>6. ASSUME progress[s] >= 2, ~ undone PROVE name \in durable
  <2>1. name \in Rollbacks(r)
    BY <1>1, <1>2, <1>6
  <2>2. stage[r] = "committed"
    BY <1>1, <2>1, RangeEmpty DEF Drained, Rollbacks
  <2> QED
    BY <1>1, <1>3, <1>6, <2>1, <2>2 DEF Full, CallbackInv, KeptInv
<1>7. ASSUME progress[s] = 3, name \in durable PROVE done
  <2>1. name \in Rollbacks(r)
    BY <1>2, <1>4, <1>7
  <2>2. name \in Rows /\ RootOf(name[1]) = r
    BY <1>1, <1>3, <2>1, Holder
  <2>3. stage[r] = "committed"
    BY <1>1, <1>7, <2>2 DEF Full, Inv, TransactionInv, DurableInv
  <2>4. Commits(r) = {}
    BY <2>3, RangeEmpty DEF Drained, Commits
  <2> QED
    BY <1>1, <1>3, <1>7, <2>1, <2>3, <2>4 DEF Full, CallbackInv, PairInv
<1> HIDE DEF undone, done
<1>8. progress[s] >= 2 => (name \in durable) # undone
  BY <1>4, <1>6
<1>9. progress[s] = 3 => (name \in durable <=> done)
  BY <1>5, <1>7
<1> QED
  BY <1>8, <1>9 DEF undone, done

-------------------------------------------------------------------------------
(* The theorems about callbacks *)

LEMMA FullTruth == Full => CallbacksTellTruth
BY DEF Full, CallbackInv, FiredInv

(* CallbacksTellTruth: an afterCommit callback runs only for a durable row, an afterRollback
   callback only for one that is gone for good, however savepoints were released into each
   other or undone, and whatever the driver failed at. *)
THEOREM CallbacksTruthful ==
  ASSUME Structured
  PROVE  Spec => []CallbacksTellTruth
BY FullInvariance, FullTruth, PTL

(* NothingForgotten: when a transaction whose outcome is known has run its callbacks, every
   scope that wrote had the right one run, and not the other. *)
THEOREM NothingIsForgotten ==
  ASSUME Structured
  PROVE  Spec => []NothingForgotten
BY FullInvariance, FullForgetsNothing, PTL

(* CallbacksTellTruth and NothingForgotten of a transaction with media mutations in it: what
   removes files runs as callbacks, and these are not mistaken. *)
THEOREM MediaCallbacks ==
  ASSUME Structured
  PROVE  MediaSpec => [](CallbacksTellTruth /\ NothingForgotten)
BY FullInvariance, FullTruth, FullForgetsNothing, PTL

-------------------------------------------------------------------------------
(* What makes the properties of media mutations inductive *)

(* Files are those of media scopes, of attempts that have begun; one whose write did not
   end well, or whose afterRollback callback ran, was compensated. *)
FilesInv ==
    /\ \A file \in files \cup written \cup cleaned : file[1] \in Media
    /\ \A file \in written : file[1] \in Savepoints => file[2] <= attempt[RootOf(file[1])]
    /\ files \subseteq written \cup cleaned
    /\ \A row \in Rows : row[1] \in Media /\ <<"rollback", row>> \in fired => row \in cleaned

(* Between two attempts nothing inside a root transaction has started. *)
IdleInv == \A s \in Scopes : stage[RootOf(s)] = "idle" => stage[s] = "idle"

(* The scope is in an attempt, or is a root transaction that may come to its first. *)
Current(s) == s \in Roots \/ stage[RootOf(s)] # "idle"

(* The scope has asked for its transaction, and not left it. *)
Asked(s) ==
    \/ stage[s] = "queued" \/ s \in Running
    \/ s \in Roots /\ stage[s] = "idle" /\ phase[s] # "idle"

(* A media scope has its file before it asks for a transaction, and keeps it to the end. *)
StoredAt(s) ==
    /\ Asked(s) => FileOf(s) \in written
    /\ FileOf(s) \in written /\ Current(s) /\ (stage[s] \in {"idle", "queued"} \/ s \in Running)
            => FileOf(s) \in files

(* A media scope that returned took all steps, one that took none has not ended or was
   compensated, and one that stored its file and has not started is awaited. *)
AwaitedAt(s) ==
    /\ stage[s] \in {"returned", "saved", "committed"} => progress[s] = 3
    /\ progress[s] = 0 => \/ stage[s] \in {"idle", "queued", "open"}
                          \/ stage[s] = "failed" /\ FileOf(s) \in cleaned
    /\ s \in Savepoints /\ stage[s] = "idle" /\ stage[RootOf(s)] # "idle" /\ FileOf(s) \in written
            => stage[Parent[s]] = "open"

(* Rows are of attempts that have begun, and a media row has its file. *)
PointedInv ==
    \A row \in Rows \cap (durable \cup LayerRows(1)) :
        /\ row[2] <= attempt[RootOf(row[1])]
        /\ row[1] \in Media => row \in files

MediaInv ==
    /\ MediaTypeOK /\ FilesInv /\ IdleInv /\ PointedInv /\ ReplacedUntilDurable
    /\ \A s \in Media : StoredAt(s) /\ AwaitedAt(s)

-------------------------------------------------------------------------------
(* Media mutations: how scopes move, and what becomes of their files *)

MediaFull == Full /\ MediaInv

MediaMove == [MediaNext]_<<vars, mediaVars>>

Past == {"returned", "threw", "conflict", "undone", "redo"}

(* The root transaction is retried, and all in it starts anew. *)
Again(s) ==
    /\ \A t \in Scopes : RootOf(t) = RootOf(s) => stage'[t] = "idle"
    /\ attempt'[RootOf(s)] \in Nat \ {0} /\ attempt'[RootOf(s)] < MaxAttempts[RootOf(s)]

Moves(s) ==
    \/ s \in Savepoints /\ Start(s) /\ Ready(s) /\ UNCHANGED mediaVars /\ stage[s] = "idle" /\ stage'[s] = "queued"
    \/ s \in Roots /\ BeginTransaction(s) /\ UNCHANGED mediaVars /\ stage[s] = "idle" /\ stage'[s] = "open"
    \/ s \in Roots /\ BeginFails(s) /\ CompensateUnstarted(s) /\ stage[s] = "idle" /\ stage'[s] = "failed"
    \/ s \in Savepoints /\ CreateSavepoint(s) /\ UNCHANGED mediaVars /\ stage[s] = "queued" /\ stage'[s] = "open"
    \/ s \in Savepoints /\ CreateSavepoint(s) /\ CompensateUnstarted(s) /\ stage[s] = "queued" /\ stage'[s] = "failed"
    \/ MediaEnd(s) /\ stage[s] = "open" /\ stage'[s] \in {"returned", "threw", "conflict"}
    \/ /\ stage[s] \in Past /\ stage'[s] \in {"threw", "undone", "redo", "saved", "committed", "failed"}
       /\ stage'[s] \in {"saved", "committed", "threw"} => stage[s] = "returned"
    \/ Again(s)

LEMMA Retrying ==
  ASSUME Inv, NEW r \in Roots, NEW n \in Nat \ {0}, Retry(r, n), attempt'[r] = n, NEW s \in Scopes, stage'[s] # stage[s]
  PROVE  Again(s)
<1>1. \A t \in Scopes : stage'[t] = IF RootOf(t) = r THEN "idle" ELSE stage[t]
  BY RetryStage, OneRoot
<1>2. RootOf(s) = r /\ n < MaxAttempts[r]
  BY <1>1 DEF Retry
<1> QED
  BY <1>1, <1>2 DEF Again

LEMMA StageStep ==
  ASSUME Full, Structured, MediaMove, NEW s \in Scopes, stage'[s] # stage[s]
  PROVE  Moves(s)
<1>1. /\ Inv /\ stage \in [Scopes -> Stages] /\ attempt \in [Roots -> Nat] /\ Roots \subseteq Scopes
      /\ \A t \in Savepoints : t \in Scopes /\ t \notin Roots
  BY Shown DEF Full
<1>2. ~ UNCHANGED vars
  BY DEF vars, scopeVars
<1>3. MediaNext
  BY <1>2 DEF MediaMove
<1>4. \A r \in Roots : stage[r] \notin {"idle", "failed"} => attempt[r] > 0
  BY <1>1 DEF Inv, TransactionInv, RootInv
<1>5. ASSUME NEW m \in Media, PutFile(m) PROVE FALSE
  BY <1>2, <1>5 DEF PutFile
<1>6. ASSUME NEW r \in Roots, MediaRootStep(r) PROVE Moves(s)
  <2>1. CASE BeginTransaction(r) /\ UNCHANGED mediaVars
    <3>1. stage' = [stage EXCEPT ![r] = "open"] /\ stage[r] = "idle"
      BY <2>1 DEF BeginTransaction
    <3>2. r = s /\ stage'[s] = "open"
      BY <1>1, <3>1
    <3> QED
      BY <2>1, <3>1, <3>2 DEF Moves
  <2>2. CASE BeginFails(r) /\ CompensateUnstarted(r)
    <3>1. CASE GiveUp(r)
      <4>1. r = s /\ stage'[s] = "failed"
        BY <1>1, <3>1 DEF GiveUp
      <4>2. stage[s] = "idle"
        BY <2>2, <4>1 DEF BeginFails
      <4> QED
        BY <2>2, <4>1, <4>2 DEF Moves
    <3>2. CASE Retry(r, attempt[r] + 1)
      <4>1. attempt'[r] = attempt[r] + 1 /\ attempt[r] + 1 \in Nat \ {0}
        BY <1>1, <2>2 DEF BeginFails
      <4> QED
        BY <1>1, <3>2, <4>1, Retrying DEF Moves
    <3> QED
      BY <2>2, <3>1, <3>2 DEF BeginFails
  <2>3. CASE CommitFails(r)
    <3>1. stage[r] = "returned" /\ attempt' = attempt
      BY <2>3 DEF CommitFails
    <3>2. CASE GiveUp(r)
      <4>1. r = s /\ stage'[s] = "failed"
        BY <1>1, <3>2 DEF GiveUp
      <4> QED
        BY <3>1, <4>1 DEF Moves, Past
    <3>3. CASE Retry(r, attempt[r])
      <4>1. attempt'[r] = attempt[r] /\ attempt[r] \in Nat \ {0}
        BY <1>1, <1>4, <3>1
      <4> QED
        BY <1>1, <3>3, <4>1, Retrying DEF Moves
    <3> QED
      BY <2>3, <3>2, <3>3 DEF CommitFails
  <2>4. CASE Commit(r) \/ Rollback(r)
    <3>1. s = r
      BY <1>1, <2>4 DEF Commit, Rollback
    <3>2. CASE Commit(r)
      <4>1. stage[s] = "returned" /\ stage'[s] = "committed"
        BY <1>1, <3>1, <3>2 DEF Commit
      <4> QED
        BY <4>1 DEF Moves, Past
    <3>3. CASE Rollback(r)
      <4>1. stage[s] \in {"threw", "conflict"} /\ stage'[s] \in {"undone", "redo"}
        BY <1>1, <3>1, <3>3 DEF Rollback
      <4> QED
        BY <4>1 DEF Moves, Past
    <3> QED
      BY <2>4, <3>2, <3>3
  <2>5. CASE RollbackFails(r)
    <3>1. r = s /\ stage'[s] = "failed" /\ stage[s] \in {"threw", "conflict"}
      BY <1>1, <2>5 DEF RollbackFails, GiveUp
    <3> QED
      BY <3>1 DEF Moves, Past
  <2>6. CASE Request(r) \/ Resume(r) \/ AfterCommit(r)
    BY <2>6 DEF Request, Resume, AfterCommit, scopeVars
  <2> QED
    BY <1>6, <2>1, <2>2, <2>3, <2>4, <2>5, <2>6 DEF MediaRootStep, MediaAfterCommit
<1>7. ASSUME NEW u \in Scopes, MediaScopeStep(u) PROVE Moves(s)
  <2>1. CASE AfterRollback(u)
    <3>1. u = s /\ stage[s] \in {"undone", "redo"} /\ stage'[s] = "undone"
      BY <1>1, <2>1 DEF AfterRollback
    <3> QED
      BY <3>1 DEF Moves, Past
  <2>2. CASE RegisterRollback(u) \/ Write(u) \/ RegisterCommit(u)
    BY <2>2 DEF RegisterRollback, Write, RegisterCommit
  <2>3. CASE MediaEnd(u)
    <3>1. stage[u] = "open" /\ \E o \in {"returned", "threw", "conflict"} : stage' = [stage EXCEPT ![u] = o]
      BY <2>3 DEF MediaEnd, End, InCallback
    <3>2. s = u /\ stage'[s] \in {"returned", "threw", "conflict"}
      BY <1>1, <3>1
    <3> QED
      BY <2>3, <3>1, <3>2 DEF Moves
  <2>4. CASE Settled(u)
    <3>1. stage[u] \in {"undone", "redo"} /\ attempt' = attempt
      BY <2>4 DEF Settled
    <3>2. CASE GiveUp(u)
      <4>1. u = s /\ stage'[s] = "failed"
        BY <1>1, <3>2 DEF GiveUp
      <4> QED
        BY <3>1, <4>1 DEF Moves, Past
    <3>3. CASE stage[u] = "redo" /\ Retry(u, attempt[u])
      <4>1. u \in Roots
        BY <1>1, <3>3 DEF Inv, TransactionInv, NestInv, Scopes
      <4>2. attempt'[u] = attempt[u] /\ attempt[u] \in Nat \ {0}
        BY <1>1, <1>4, <3>1, <4>1
      <4> QED
        BY <1>1, <3>3, <4>1, <4>2, Retrying DEF Moves
    <3> QED
      BY <2>4, <3>2, <3>3 DEF Settled
  <2> QED
    BY <1>7, <2>1, <2>2, <2>3, <2>4 DEF MediaScopeStep, MediaAfterRollback
<1>8. ASSUME NEW u \in Savepoints, MediaSavepointStep(u) PROVE Moves(s)
  <2>1. CASE Start(u) /\ Ready(u) /\ UNCHANGED mediaVars
    <3>1. stage[u] = "idle" /\ stage' = [stage EXCEPT ![u] = "queued"]
      BY <2>1 DEF Start
    <3>2. s = u /\ stage'[s] = "queued"
      BY <1>1, <3>1
    <3> QED
      BY <2>1, <3>1, <3>2 DEF Moves
  <2>2. CASE CreateSavepoint(u) /\ IF stage'[u] = "failed" THEN CompensateUnstarted(u) ELSE UNCHANGED mediaVars
    <3>1. stage[u] = "queued" /\ \E o \in {"open", "failed"} : stage' = [stage EXCEPT ![u] = o]
      BY <2>2 DEF CreateSavepoint
    <3>2. s = u /\ stage'[s] \in {"open", "failed"}
      BY <1>1, <3>1
    <3>3. CASE stage'[u] = "failed"
      BY <2>2, <3>1, <3>2, <3>3 DEF Moves
    <3>4. CASE stage'[u] # "failed"
      BY <2>2, <3>1, <3>2, <3>4 DEF Moves
    <3> QED
      BY <3>3, <3>4
  <2>3. CASE RollbackToFails(u) \/ ReleaseFails(u) \/ RollbackToSavepoint(u)
    <3>1. /\ stage[u] \in {"returned", "threw"}
          /\ \/ stage' = [stage EXCEPT ![u] = "failed"] \/ stage' = [stage EXCEPT ![u] = "undone"]
             \/ stage[u] = "returned" /\ stage' = [stage EXCEPT ![u] = "threw"]
      BY <2>3 DEF RollbackToFails, ReleaseFails, RollbackToSavepoint
    <3>2. s = u /\ (stage'[s] \in {"failed", "undone"} \/ (stage'[s] = "threw" /\ stage[s] = "returned"))
      BY <1>1, <3>1
    <3> QED
      BY <3>1, <3>2 DEF Moves, Past
  <2>4. CASE ReleaseSavepoint(u)
    <3>1. stage[u] = "returned" /\ stage' = [stage EXCEPT ![u] = "saved"]
      BY <2>4 DEF ReleaseSavepoint
    <3>2. s = u /\ stage'[s] = "saved"
      BY <1>1, <3>1
    <3> QED
      BY <3>1, <3>2 DEF Moves, Past
  <2> QED
    BY <1>8, <2>1, <2>2, <2>3, <2>4 DEF MediaSavepointStep, MediaFails
<1>9. ASSUME NEW q \in Queries, Statement(q) PROVE FALSE
  BY <1>9 DEF Statement, scopeVars
<1> QED
  BY <1>3, <1>5, <1>6, <1>7, <1>8, <1>9 DEF MediaNext

LEMMA ProgressStep ==
  ASSUME Full, Structured, MediaMove, NEW s \in Scopes, progress'[s] # progress[s]
  PROVE  \/ stage[s] = "open" /\ stage'[s] = "open" /\ progress'[s] = progress[s] + 1
         \/ stage'[s] = "idle" /\ stage'[RootOf(s)] = "idle"
<1>1. /\ Inv /\ stage \in [Scopes -> Stages] /\ progress \in [Scopes -> 0 .. 3] /\ Roots \subseteq Scopes
  BY Shown DEF Full
<1>2. ~ UNCHANGED progress
  OBVIOUS
<1>3. [Next]_vars
  BY MediaStep DEF MediaMove
<1>4. ASSUME NEW r \in Roots, NEW n, Retry(r, n) PROVE stage'[s] = "idle" /\ stage'[RootOf(s)] = "idle"
  <2>1. RootOf(s) = r
    BY <1>1, <1>4, Retried
  <2>2. r \in Scopes /\ RootOf(r) = r
    BY RootOfRoot
  <2> QED
    BY <1>1, <1>4, <2>1, <2>2, Retried
<1>5. ASSUME NEW u \in Scopes, RegisterRollback(u) \/ Write(u) \/ RegisterCommit(u)
      PROVE  stage[s] = "open" /\ stage'[s] = "open" /\ progress'[s] = progress[s] + 1
  <2>1. /\ stage' = stage /\ stage[u] = "open"
        /\ \/ progress[u] = 0 /\ progress' = [progress EXCEPT ![u] = 1]
           \/ progress[u] = 1 /\ progress' = [progress EXCEPT ![u] = 2]
           \/ progress[u] = 2 /\ progress' = [progress EXCEPT ![u] = 3]
    BY <1>5 DEF RegisterRollback, Write, RegisterCommit, InCallback
  <2>2. s = u
    BY <1>1, <2>1
  <2> QED
    BY <1>1, <2>1, <2>2
<1>6. ASSUME NEW u \in Scopes, Settled(u) PROVE stage'[s] = "idle" /\ stage'[RootOf(s)] = "idle"
  <2>1. Retry(u, attempt[u]) /\ stage[u] = "redo"
    BY <1>2, <1>6 DEF Settled, GiveUp
  <2>2. u \in Roots
    BY <1>1, <2>1 DEF Inv, TransactionInv, NestInv, Scopes
  <2> QED
    BY <1>4, <2>1, <2>2
<1>7. ASSUME NEW r \in Roots, RootStep(r) PROVE stage'[s] = "idle" /\ stage'[RootOf(s)] = "idle"
  <2>1. \E n : Retry(r, n)
    BY <1>2, <1>7 DEF RootStep, Request, Resume, BeginTransaction, BeginFails, Commit, CommitFails, Rollback,
       RollbackFails, AfterCommit, GiveUp, scopeVars
  <2> QED
    BY <1>4, <2>1
<1>8. ASSUME NEW u \in Savepoints, SavepointStep(u) PROVE FALSE
  BY <1>2, <1>8 DEF SavepointStep, Start, CreateSavepoint, ReleaseSavepoint, ReleaseFails, RollbackToSavepoint,
     RollbackToFails
<1>9. ASSUME NEW q \in Queries, Statement(q) PROVE FALSE
  BY <1>2, <1>9 DEF Statement, scopeVars
<1>10. ASSUME NEW u \in Scopes, End(u) \/ AfterRollback(u) PROVE FALSE
  BY <1>2, <1>10 DEF End, AfterRollback
<1>11. CASE UNCHANGED vars
  BY <1>2, <1>11 DEF vars, scopeVars
<1> QED
  BY <1>3, <1>5, <1>6, <1>7, <1>8, <1>9, <1>10, <1>11 DEF Next, ScopeStep

LEMMA AttemptStep ==
  ASSUME Full, Structured, MediaMove, NEW r \in Roots
  PROVE  /\ attempt[r] \in Nat /\ attempt'[r] \in Nat /\ attempt[r] <= attempt'[r]
         /\ attempt'[r] # attempt[r] => stage[r] = "idle" /\ attempt'[r] = attempt[r] + 1 /\ written' = written
<1>1. /\ Inv /\ attempt \in [Roots -> Nat] /\ Roots \subseteq Scopes
  BY Shown DEF Full
<1> SUFFICES ASSUME attempt'[r] # attempt[r]
             PROVE  stage[r] = "idle" /\ attempt'[r] = attempt[r] + 1 /\ written' = written
  BY <1>1
<1>2. ~ UNCHANGED attempt
  OBVIOUS
<1>3. MediaNext
  BY <1>2 DEF MediaMove, vars, scopeVars
<1>4. ASSUME NEW u \in Roots, MediaRootStep(u) PROVE stage[r] = "idle" /\ attempt'[r] = attempt[r] + 1 /\ written' = written
  <2>1. CASE (BeginTransaction(u) /\ UNCHANGED mediaVars) \/ (BeginFails(u) /\ CompensateUnstarted(u))
    <3>1. stage[u] = "idle" /\ attempt' = [attempt EXCEPT ![u] = @ + 1]
      BY <2>1 DEF BeginTransaction, BeginFails
    <3>2. written' = written
      BY <2>1 DEF CompensateUnstarted, Compensate, mediaVars
    <3> QED
      BY <1>1, <3>1, <3>2
  <2>2. CASE ~ ((BeginTransaction(u) /\ UNCHANGED mediaVars) \/ (BeginFails(u) /\ CompensateUnstarted(u)))
    BY <1>2, <1>4, <2>2 DEF MediaRootStep, MediaAfterCommit, Request, Resume, Commit, CommitFails, Rollback,
       RollbackFails, AfterCommit, scopeVars
  <2> QED
    BY <2>1, <2>2
<1>5. ASSUME NEW u \in Scopes, MediaScopeStep(u) PROVE FALSE
  BY <1>2, <1>5 DEF MediaScopeStep, MediaAfterRollback, MediaEnd, AfterRollback, RegisterRollback, Write,
     RegisterCommit, End, Settled
<1>6. ASSUME NEW u \in Savepoints, MediaSavepointStep(u) PROVE FALSE
  BY <1>2, <1>6 DEF MediaSavepointStep, MediaFails, Start, CreateSavepoint, ReleaseSavepoint, ReleaseFails,
     RollbackToSavepoint, RollbackToFails
<1>7. ASSUME NEW q \in Queries, Statement(q) PROVE FALSE
  BY <1>2, <1>7 DEF Statement, scopeVars
<1>8. ASSUME NEW m \in Media, PutFile(m) PROVE FALSE
  BY <1>2, <1>8 DEF PutFile, vars, scopeVars
<1> QED
  BY <1>3, <1>4, <1>5, <1>6, <1>7, <1>8 DEF MediaNext

(* The scope may still be going to write its row, or has. *)
Going == {"idle", "queued", "open", "returned", "threw", "conflict"}

LEMMA FileFacts ==
  ASSUME NEW s \in Media
  PROVE  /\ s \in Scopes /\ FileOf(s)[1] = s /\ FileOf(s)'[1] = s
         /\ s \in Roots => FileOf(s) = <<s, 1>> /\ FileOf(s)' = <<s, 1>> /\ MaxAttempts[s] = 1
         /\ s \in Savepoints => /\ FileOf(s) = Name(s) /\ FileOf(s) = <<s, attempt[RootOf(s)]>>
                                /\ FileOf(s)' = <<s, attempt'[RootOf(s)]>> /\ s \notin Roots
BY MediaAssumption DEF FileOf, Name

(* What a step does to files. *)
Quiet ==
    /\ UNCHANGED <<files, written, cleaned>>
    /\ \A row \in Rows : row[1] \in Media /\ <<"rollback", row>> \in fired' => <<"rollback", row>> \in fired

NotStarted(s) ==
    /\ Compensate(FileOf(s)) /\ fired' = fired /\ stage'[s] = "failed"
    /\ (s \in Roots /\ stage[s] = "idle") \/ (s \in Savepoints /\ stage[s] = "queued")

RolledBack(s, file) ==
    /\ stage[s] \in {"undone", "redo"} /\ stage'[s] \in {"undone", "redo"}
    /\ \A t \in Scopes \ {s} : stage'[t] = stage[t]
    /\ file \in Rollbacks(s) /\ file[1] \in Media
    /\ Compensate(file) /\ fired' = fired \cup {<<"rollback", file>>}

LEMMA Effects ==
  ASSUME Full, Structured, MediaMove
  PROVE  \/ Quiet
         \/ \E m \in Media : PutFile(m)
         \/ \E s \in Media : NotStarted(s)
         \/ \E s \in Scopes : \E file \in Rollbacks(s) : RolledBack(s, file)
<1> DEFINE Goal == \/ Quiet
                   \/ \E m \in Media : PutFile(m)
                   \/ \E s \in Media : NotStarted(s)
                   \/ \E s \in Scopes : \E file \in Rollbacks(s) : RolledBack(s, file)
<1>1. /\ Inv /\ stage \in [Scopes -> Stages] /\ attempt \in [Roots -> Nat] /\ Roots \subseteq Scopes
      /\ onRollback \in [Scopes -> Seq(Rows)]
      /\ \A t \in Savepoints : t \in Scopes /\ t \notin Roots
  BY Shown DEF Full
<1>2. ASSUME UNCHANGED <<files, written, cleaned>>, fired' = fired PROVE Goal
  BY <1>2 DEF Quiet
<1>3. ASSUME NEW s \in Media, CompensateUnstarted(s), fired' = fired, stage'[s] = "failed",
             (s \in Roots /\ stage[s] = "idle") \/ (s \in Savepoints /\ stage[s] = "queued")
      PROVE  Goal
  BY <1>3 DEF CompensateUnstarted, NotStarted
<1>4. ASSUME NEW s \in Scopes \ Media, CompensateUnstarted(s), fired' = fired PROVE Goal
  BY <1>2, <1>4 DEF CompensateUnstarted, mediaVars
<1>5. ASSUME NEW r \in Roots, MediaRootStep(r) PROVE Goal
  <2>1. CASE BeginFails(r) /\ CompensateUnstarted(r)
    <3>1. fired' = fired /\ stage[r] = "idle" /\ (GiveUp(r) \/ Retry(r, attempt[r] + 1))
      BY <2>1 DEF BeginFails
    <3>2. CASE r \in Media
      <4>1. ~ Retry(r, attempt[r] + 1)
        BY <1>1, <3>2, FileFacts DEF Retry
      <4>2. stage'[r] = "failed"
        BY <1>1, <3>1, <4>1 DEF GiveUp
      <4> QED
        BY <1>3, <2>1, <3>1, <3>2, <4>2
    <3>3. CASE r \notin Media
      BY <1>1, <1>4, <2>1, <3>1, <3>3
    <3> QED
      BY <3>2, <3>3
  <2>2. CASE MediaAfterCommit(r)
    <3>1. \A row : <<"rollback", row>> \in fired' => <<"rollback", row>> \in fired
      BY <2>2 DEF MediaAfterCommit, AfterCommit
    <3> QED
      BY <2>2, <3>1 DEF MediaAfterCommit, Quiet
  <2>3. CASE /\ Request(r) \/ Resume(r) \/ BeginTransaction(r) \/ Commit(r) \/ CommitFails(r) \/ Rollback(r)
                \/ RollbackFails(r)
             /\ UNCHANGED mediaVars
    <3>1. fired' = fired
      BY <2>3 DEF Request, Resume, BeginTransaction, Commit, CommitFails, Rollback, RollbackFails, callbackVars
    <3> QED
      BY <1>2, <2>3, <3>1 DEF mediaVars
  <2> QED
    BY <1>5, <2>1, <2>2, <2>3 DEF MediaRootStep
<1>6. ASSUME NEW s \in Scopes, MediaScopeStep(s) PROVE Goal
  <2>1. CASE MediaAfterRollback(s)
    <3> DEFINE file == Last(onRollback[s])
    <3>1. /\ stage[s] \in {"undone", "redo"} /\ stage'[s] \in {"undone", "redo"}
          /\ \A t \in Scopes \ {s} : stage'[t] = stage[t]
          /\ fired' = fired \cup {<<"rollback", file>>} /\ onRollback[s] # <<>>
      BY <1>1, <2>1 DEF MediaAfterRollback, AfterRollback
    <3>2. file \in Rollbacks(s)
      BY <1>1, <3>1, RangeEnds DEF Rollbacks
    <3>3. IF file[1] \in Media THEN Compensate(file) ELSE UNCHANGED mediaVars
      BY <2>1 DEF MediaAfterRollback
    <3> HIDE DEF file
    <3>4. CASE file[1] \in Media
      BY <3>1, <3>2, <3>3, <3>4 DEF RolledBack
    <3>5. CASE file[1] \notin Media
      <4>1. \A row \in Rows : row[1] \in Media /\ <<"rollback", row>> \in fired' => <<"rollback", row>> \in fired
        BY <3>1, <3>5
      <4> QED
        BY <3>3, <3>5, <4>1 DEF Quiet, mediaVars
    <3> QED
      BY <3>4, <3>5
  <2>2. CASE (RegisterRollback(s) \/ Write(s) \/ RegisterCommit(s) \/ End(s) \/ Settled(s)) /\ UNCHANGED mediaVars
    <3>1. fired' = fired
      BY <2>2 DEF RegisterRollback, Write, RegisterCommit, End, Settled, callbackVars
    <3> QED
      BY <1>2, <2>2, <3>1 DEF mediaVars
  <2> QED
    BY <1>6, <2>1, <2>2 DEF MediaScopeStep, MediaEnd
<1>7. ASSUME NEW s \in Savepoints, MediaSavepointStep(s) PROVE Goal
  <2>1. fired' = fired
    BY <1>7 DEF MediaSavepointStep, MediaFails, Start, CreateSavepoint, ReleaseSavepoint, ReleaseFails,
       RollbackToSavepoint, RollbackToFails, callbackVars
  <2>2. CASE CreateSavepoint(s) /\ stage'[s] = "failed" /\ CompensateUnstarted(s)
    <3>1. stage[s] = "queued"
      BY <2>2 DEF CreateSavepoint
    <3>2. CASE s \in Media
      BY <1>3, <2>1, <2>2, <3>1, <3>2
    <3>3. CASE s \notin Media
      BY <1>1, <1>4, <2>1, <2>2, <3>3
    <3> QED
      BY <3>2, <3>3
  <2>3. CASE UNCHANGED mediaVars
    BY <1>2, <2>1, <2>3 DEF mediaVars
  <2> QED
    BY <1>7, <2>2, <2>3 DEF MediaSavepointStep, MediaFails
<1>8. ASSUME NEW q \in Queries, Statement(q), UNCHANGED mediaVars PROVE Goal
  BY <1>2, <1>8 DEF Statement, callbackVars, mediaVars
<1>9. CASE UNCHANGED <<vars, mediaVars>>
  BY <1>2, <1>9 DEF vars, callbackVars, mediaVars
<1> QED
  BY <1>5, <1>6, <1>7, <1>8, <1>9 DEF MediaMove, MediaNext

(* A file is not deleted while its scope may write its row, nor while the row is there. *)
LEMMA KeepsFile ==
  ASSUME MediaFull, Structured, MediaMove, NEW file \in files,
         stage'[file[1]] \in Going \/ file \in Rows \cap (durable \cup LayerRows(1))'
  PROVE  file \in files'
<1>1. /\ Full /\ Inv /\ [Next]_vars /\ PointedInv /\ Roots \subseteq Scopes /\ attempt \in [Roots -> Nat]
      /\ layers \in Seq(Layer) /\ DOMAIN layers = 1 .. Len(layers) /\ durable \subseteq Rows
  BY MediaStep, Shown DEF MediaFull, MediaInv, Full, MediaMove
<1>2. CASE UNCHANGED files
  BY <1>2
<1>3. ASSUME NEW m \in Media, PutFile(m) PROVE file \in files'
  BY <1>3 DEF PutFile
<1>4. ASSUME NEW s \in Media, NotStarted(s), file \notin files' PROVE FALSE
  <2>1. file = FileOf(s) /\ file[1] = s /\ s \in Scopes
    BY <1>4, FileFacts DEF NotStarted, Compensate
  <2>2. file \in Rows \cap (durable \cup LayerRows(1))' /\ stage' # stage
    BY <1>4, <2>1 DEF NotStarted, Going
  <2>3. file \in durable \cup LayerRows(1)
    <3>1. ASSUME NEW x \in Scopes, Write(x) PROVE FALSE
      BY <2>2, <3>1 DEF Write
    <3> QED
      BY <1>1, <2>2, <3>1, Driven
  <2>4. CASE s \in Roots
    <3>1. attempt[s] = 0
      <4>1. attempt[s] < MaxAttempts[s] /\ MaxAttempts[s] = 1
        BY <1>1, <1>4, <2>4, FileFacts DEF NotStarted, Inv, TransactionInv, RootInv
      <4> QED
        BY <1>1, <2>4, <4>1
    <3>2. file[2] = 1 /\ RootOf(file[1]) = s
      BY <2>1, <2>4, FileFacts, RootOfRoot
    <3>3. file[2] <= attempt[RootOf(file[1])]
      BY <1>1, <2>2, <2>3 DEF PointedInv
    <3> QED
      BY <3>1, <3>2, <3>3
  <2>5. CASE s \in Savepoints /\ stage[s] = "queued"
    <3>1. stage[RootOf(s)] = "open" /\ RootOf(s) \in Running
      BY <1>1, <2>5, UnderWay
    <3>2. file \notin durable
      BY <1>1, <2>1, <3>1 DEF Inv, TransactionInv, DurableInv
    <3>3. PICK j \in DOMAIN layers : file \in layers[j].rows
      BY <1>1, <2>3, <3>2 DEF LayerRows
    <3>4. s \in Lineage[file[1]]
      BY <2>1, Nested
    <3> QED
      BY <1>1, <2>2, <2>5, <3>1, <3>3, <3>4 DEF Full, CallbackInv, InsideInv
  <2> QED
    BY <1>4, <2>4, <2>5 DEF NotStarted
<1>5. ASSUME NEW s \in Scopes, NEW f \in Rollbacks(s), RolledBack(s, f), file \notin files' PROVE FALSE
  <2>1. file = f
    BY <1>5 DEF RolledBack, Compensate
  <2>2. file \in Rows /\ file[1] \in Scopes /\ (file[1] = s \/ stage[file[1]] = "saved")
    BY <1>1, <2>1, Holder
  <2>3. stage'[file[1]] \in {"undone", "redo", "saved"}
    BY <1>5, <2>2 DEF RolledBack
  <2>4. file \notin (durable \cup LayerRows(1))'
    BY <1>1, <1>5, <2>1, <2>2, StaysGone DEF RolledBack
  <2> QED
    BY <2>3, <2>4 DEF Going
<1> QED
  BY <1>1, <1>2, <1>3, <1>4, <1>5, Effects DEF Quiet

(* A root transaction comes to the gate by its own request only. *)
LEMMA WakeLetsIn ==
  ASSUME SchedulerInv, NEW r \in Roots, phase[r] = "idle", NEW moved, moved[r] = "idle",
         moved \in [Roots \cup Queries -> Places], NEW active, NEW operations, Wake(moved, active, operations)
  PROVE  phase'[r] = "idle"
<1>1. CASE phase' = moved
  BY <1>1
<1>2. CASE exclusiveWaiters # <<>> /\ phase' = [moved EXCEPT ![Head(exclusiveWaiters)] = "handed"]
  <2>1. phase[Head(exclusiveWaiters)] = "waiting"
    BY <1>2, QueueHead DEF SchedulerInv, Gate
  <2> QED
    BY <1>2, <2>1
<1>3. CASE phase' = [p \in Roots \cup Queries |-> IF p \in OperationWaiters THEN "admitted" ELSE moved[p]]
  <2>1. r \notin OperationWaiters
    BY DEF OperationWaiters, At
  <2> QED
    BY <1>3, <2>1
<1> QED
  BY <1>1, <1>2, <1>3 DEF Wake

LEMMA IdleAtGate ==
  ASSUME Inv, MediaMove, NEW r \in Roots, phase[r] = "idle", phase'[r] # "idle"
  PROVE  Request(r) /\ Ready(r) /\ UNCHANGED mediaVars
<1>1. /\ SchedulerInv /\ phase \in [Roots \cup Queries -> Places] /\ r \notin Queries
      /\ {"idle", "waiting", "exclusive", "slot", "running"} \subseteq Places
  BY SchedulerAssumption DEF Inv, SchedulerInv, Gate, Phases, Places
<1>2. MediaNext
  BY DEF MediaMove, vars, gateVars
<1>3. ASSUME NEW u \in Roots, LeaveExclusive(u) PROVE FALSE
  <2> DEFINE moved == [phase EXCEPT ![u] = "idle"]
  <2>1. moved[r] = "idle" /\ moved \in [Roots \cup Queries -> Places]
    BY <1>1
  <2>2. Wake(moved, FALSE, activeOperations)
    BY <1>3 DEF LeaveExclusive
  <2> HIDE DEF moved
  <2> QED
    BY <1>1, <2>1, <2>2, WakeLetsIn
<1>4. ASSUME NEW q \in Queries, NEW n, TakeSlot(q, n) PROVE FALSE
  <2> DEFINE moved == [phase EXCEPT ![q] = "idle"]
  <2>1. q # r /\ moved[r] = "idle" /\ moved \in [Roots \cup Queries -> Places]
    BY <1>1
  <2>2. CASE phase' = [phase EXCEPT ![q] = "running"] \/ phase' = [phase EXCEPT ![q] = "slot"]
    BY <1>1, <2>1, <2>2
  <2>3. CASE Wake(moved, exclusiveActive, n - 1)
    <3> HIDE DEF moved
    <3> QED
      BY <1>1, <2>1, <2>3, WakeLetsIn
  <2> QED
    BY <1>4, <2>2, <2>3 DEF TakeSlot
<1>5. ASSUME NEW q \in Queries, FinishOperation(q) PROVE FALSE
  <2>1. q # r
    BY <1>1
  <2>2. CASE slotWaiters = <<>>
    <3> DEFINE moved == [phase EXCEPT ![q] = "idle"]
    <3>1. moved[r] = "idle" /\ moved \in [Roots \cup Queries -> Places]
      BY <1>1, <2>1
    <3>2. Wake(moved, exclusiveActive, activeOperations - 1)
      BY <1>5, <2>2 DEF FinishOperation
    <3> HIDE DEF moved
    <3> QED
      BY <1>1, <3>1, <3>2, WakeLetsIn
  <2>3. CASE slotWaiters # <<>>
    <3> DEFINE moved == [phase EXCEPT ![q] = "idle", ![Head(slotWaiters)] = "running"]
    <3>1. Head(slotWaiters) \in Queries
      BY <1>1, <2>3, QueueHead DEF SchedulerInv, Taken
    <3>2. moved[r] = "idle" /\ moved \in [Roots \cup Queries -> Places]
      BY <1>1, <2>1, <3>1
    <3>3. Wake(moved, exclusiveActive, activeOperations - 1)
      BY <1>5, <2>3 DEF FinishOperation
    <3> HIDE DEF moved
    <3> QED
      BY <1>1, <3>2, <3>3, WakeLetsIn
  <2> QED
    BY <2>2, <2>3
<1>6. ASSUME NEW q \in Queries, Statement(q) PROVE FALSE
  <2>1. CASE RequestOperation(q)
    <3>1. phase' # [phase EXCEPT ![q] = "waiting"]
      BY <1>1
    <3> QED
      BY <1>4, <2>1, <3>1 DEF RequestOperation
  <2> QED
    BY <1>4, <1>5, <1>6, <2>1 DEF Statement, EnterOperation
<1>7. ASSUME NEW u \in Roots, MediaRootStep(u), ~ (Request(r) /\ Ready(r) /\ UNCHANGED mediaVars) PROVE FALSE
  <2>1. CASE Request(u) /\ Ready(u) /\ UNCHANGED mediaVars
    <3>1. u # r
      BY <1>7, <2>1
    <3>2. phase' = [phase EXCEPT ![u] = "waiting"] \/ phase' = [phase EXCEPT ![u] = "exclusive"]
      BY <2>1 DEF Request, RequestExclusive
    <3> QED
      BY <1>1, <3>1, <3>2
  <2>2. CASE Resume(u)
    <3>1. phase[u] = "handed" /\ phase' = [phase EXCEPT ![u] = "exclusive"]
      BY <2>2 DEF Resume, ResumeExclusive
    <3> QED
      BY <1>1, <3>1
  <2>3. CASE BeginTransaction(u) \/ AfterCommit(u)
    BY <2>3 DEF BeginTransaction, AfterCommit, gateVars
  <2>4. CASE BeginFails(u) \/ Commit(u) \/ CommitFails(u) \/ Rollback(u) \/ RollbackFails(u)
    BY <1>3, <2>4 DEF BeginFails, Commit, CommitFails, Rollback, RollbackFails
  <2> QED
    BY <1>7, <2>1, <2>2, <2>3, <2>4 DEF MediaRootStep, MediaAfterCommit
<1>8. ASSUME NEW u \in Scopes, MediaScopeStep(u) PROVE FALSE
  BY <1>8 DEF MediaScopeStep, MediaAfterRollback, MediaEnd, RegisterRollback, Write, RegisterCommit, End,
     AfterRollback, Settled, gateVars
<1>9. ASSUME NEW u \in Savepoints, MediaSavepointStep(u) PROVE FALSE
  BY <1>9 DEF MediaSavepointStep, MediaFails, Start, CreateSavepoint, ReleaseSavepoint, ReleaseFails,
     RollbackToSavepoint, RollbackToFails, gateVars
<1>10. ASSUME NEW m \in Media, PutFile(m) PROVE FALSE
  BY <1>10 DEF PutFile, vars, gateVars
<1> QED
  BY <1>2, <1>6, <1>7, <1>8, <1>9, <1>10 DEF MediaNext

-------------------------------------------------------------------------------
(* Media mutations: the invariant *)

LEMMA IdleStays ==
  ASSUME MediaFull, Structured, MediaMove
  PROVE  IdleInv'
<1> SUFFICES ASSUME NEW s \in Scopes, stage'[RootOf(s)] = "idle", stage'[s] # "idle" PROVE FALSE
  BY DEF IdleInv
<1>1. /\ Full /\ Inv /\ RootOf(s) \in Roots /\ RootOf(s) \in Scopes /\ RootOf(RootOf(s)) = RootOf(s)
      /\ \A t \in Savepoints : t \notin Roots
  BY Shown, OneRoot, RootOfRoot DEF MediaFull, Full
<1>2. CASE stage[RootOf(s)] # "idle"
  <2>1. Moves(RootOf(s))
    BY <1>1, <1>2, StageStep
  <2>2. Again(RootOf(s))
    BY <1>1, <1>2, <2>1 DEF Moves
  <2> QED
    BY <1>1, <2>2 DEF Again
<1>3. CASE stage[RootOf(s)] = "idle"
  <2>1. stage[s] = "idle"
    BY <1>3 DEF MediaFull, MediaInv, IdleInv
  <2>2. Moves(s)
    BY <1>1, <2>1, StageStep
  <2>3. s # RootOf(s)
    OBVIOUS
  <2>4. s \in Savepoints /\ s \notin Roots
    BY <1>1, <2>3, RootOfRoot DEF Scopes
  <2>5. CASE Start(s)
    <3>1. RootOf(s) \in Lineage[Parent[s]]
      BY <1>1, <2>3, <2>4, LineageStep, OneRoot
    <3> QED
      BY <1>3, <2>5, <3>1 DEF Start, Active, Running
  <2>6. CASE Again(s)
    BY <2>6 DEF Again
  <2> QED
    BY <2>1, <2>2, <2>4, <2>5, <2>6 DEF Moves, Past
<1> QED
  BY <1>2, <1>3

(* The name of a scope's file changes between two attempts only, when no file has it. *)
LEMMA NameChanges ==
  ASSUME MediaFull, Structured, MediaMove, NEW s \in Media, FileOf(s)' # FileOf(s)
  PROVE  /\ s \in Savepoints /\ stage[RootOf(s)] = "idle" /\ stage[s] = "idle"
         /\ FileOf(s)' \notin written'
<1>1. s \in Scopes /\ s \in Savepoints /\ s \notin Roots
  BY FileFacts DEF Scopes
<1>2. RootOf(s) \in Roots /\ attempt'[RootOf(s)] # attempt[RootOf(s)]
  BY <1>1, FileFacts, OneRoot
<1>3. /\ stage[RootOf(s)] = "idle" /\ attempt'[RootOf(s)] = attempt[RootOf(s)] + 1 /\ written' = written
      /\ attempt[RootOf(s)] \in Nat
  BY <1>2, AttemptStep DEF MediaFull
<1>4. stage[s] = "idle"
  BY <1>1, <1>3 DEF MediaFull, MediaInv, IdleInv
<1>5. FileOf(s)' \notin written
  <2>1. FileOf(s)' = <<s, attempt[RootOf(s)] + 1>>
    BY <1>1, <1>3, FileFacts
  <2>2. \A file \in written : file[1] = s => file[2] <= attempt[RootOf(s)]
    BY <1>1 DEF MediaFull, MediaInv, FilesInv
  <2> QED
    BY <1>3, <2>1, <2>2
<1> QED
  BY <1>1, <1>3, <1>4, <1>5

(* A file is written by its own scope. *)
LEMMA Writes ==
  ASSUME Full, Structured, MediaMove
  PROVE  /\ written \subseteq written' /\ cleaned \subseteq cleaned'
         /\ \A s \in Media : FileOf(s) \in written' \ written => PutFile(s) /\ FileOf(s) \in files'
<1>1. CASE Quiet
  BY <1>1 DEF Quiet
<1>2. ASSUME NEW m \in Media, PutFile(m)
      PROVE  /\ written \subseteq written' /\ cleaned \subseteq cleaned'
             /\ \A s \in Media : FileOf(s) \in written' \ written => PutFile(s) /\ FileOf(s) \in files'
  <2>1. /\ written \subseteq written' /\ cleaned \subseteq cleaned'
        /\ \/ written' = written
           \/ written' = written \cup {FileOf(m)} /\ files' = files \cup {FileOf(m)}
    BY <1>2 DEF PutFile
  <2>2. ASSUME NEW s \in Media, FileOf(s) \in written' \ written PROVE s = m /\ FileOf(s) \in files'
    <3>1. FileOf(s) = FileOf(m) /\ FileOf(m) \in files'
      BY <2>1, <2>2
    <3> QED
      BY <3>1, FileFacts
  <2> QED
    BY <1>2, <2>1, <2>2
<1>3. ASSUME NEW file, Compensate(file) PROVE written' = written /\ cleaned \subseteq cleaned'
  BY <1>3 DEF Compensate
<1> QED
  BY <1>1, <1>2, <1>3, Effects DEF NotStarted, RolledBack

LEMMA StoredStays ==
  ASSUME MediaFull, Structured, MediaMove, NEW s \in Media
  PROVE  StoredAt(s)'
<1>1. /\ Full /\ Inv /\ s \in Scopes /\ StoredAt(s) /\ FilesInv /\ IdleInv /\ RootOf(s) \in Roots /\ RootOf(s) \in Scopes
      /\ \A t \in Savepoints : t \in Scopes /\ t \notin Roots
  BY Shown, FileFacts, OneRoot DEF MediaFull, MediaInv, Full
<1>2. s \in Roots => ~ Again(s)
  <2>1. ASSUME s \in Roots PROVE MaxAttempts[s] = 1 /\ RootOf(s) = s
    BY <2>1, FileFacts, RootOfRoot
  <2> QED
    BY <2>1 DEF Again
<1>3. stage'[s] # stage[s] => Moves(s)
  BY <1>1, StageStep
<1>4. ASSUME (stage'[s] = "queued" \/ s \in Running') \/ (s \in Roots /\ stage'[s] = "idle" /\ phase'[s] # "idle")
      PROVE  FileOf(s)' \in written'
  <2>1. CASE FileOf(s)' # FileOf(s)
    <3>1. s \in Savepoints /\ stage[RootOf(s)] = "idle" /\ stage[s] = "idle"
      BY <2>1, NameChanges
    <3>2. s \notin Roots /\ stage'[s] # "idle"
      BY <1>1, <1>4, <3>1 DEF Running
    <3>3. Start(s)
      BY <1>1, <1>3, <1>4, <3>1, <3>2 DEF Moves, Past, Again, Running
    <3>4. RootOf(s) \in Lineage[Parent[s]]
      BY <1>1, <3>1, LineageStep, OneRoot
    <3> QED
      BY <3>1, <3>3, <3>4 DEF Start, Active, Running
  <2>2. CASE FileOf(s)' = FileOf(s)
    <3> SUFFICES FileOf(s) \in written
      BY <1>1, <2>2, Writes
    <3>1. CASE stage'[s] = stage[s]
      <4>1. CASE stage[s] = "queued" \/ s \in Running
        BY <1>1, <4>1 DEF StoredAt, Asked
      <4>2. CASE ~ (stage[s] = "queued" \/ s \in Running)
        <5>1. s \in Roots /\ stage[s] = "idle" /\ phase'[s] # "idle"
          BY <1>1, <1>4, <3>1, <4>2 DEF Running
        <5>2. phase[s] = "idle" => Ready(s)
          BY <1>1, <5>1, IdleAtGate
        <5> QED
          BY <1>1, <5>1, <5>2 DEF StoredAt, Asked, Ready
      <4> QED
        BY <4>1, <4>2
    <3>2. CASE stage'[s] # stage[s]
      <4>1. Moves(s)
        BY <1>3, <3>2
      <4>2. CASE s \in Savepoints /\ Start(s) /\ Ready(s)
        BY <4>2 DEF Ready
      <4>3. CASE s \in Roots /\ BeginTransaction(s)
        <5>1. stage[s] = "idle" /\ phase[s] = "exclusive"
          BY <4>3 DEF BeginTransaction
        <5> QED
          BY <1>1, <4>3, <5>1 DEF StoredAt, Asked
      <4>4. CASE stage[s] = "queued"
        BY <1>1, <4>4 DEF StoredAt, Asked
      <4>5. CASE stage[s] \in {"open", "returned"}
        BY <1>1, <4>5 DEF StoredAt, Asked, Running
      <4>6. CASE Again(s)
        <5>1. stage'[s] = "idle"
          BY <1>1, <4>6 DEF Again
        <5> QED
          BY <1>1, <1>2, <1>4, <4>6, <5>1 DEF Running
      <4>7. CASE stage'[s] \in {"undone", "redo", "saved", "committed", "failed"}
        BY <1>4, <4>7 DEF Running
      <4> QED
        BY <4>1, <4>2, <4>3, <4>4, <4>5, <4>6, <4>7 DEF Moves
    <3> QED
      BY <3>1, <3>2
  <2> QED
    BY <2>1, <2>2
<1>5. ASSUME FileOf(s)' \in written', Current(s)', stage'[s] \in {"idle", "queued"} \/ s \in Running'
      PROVE  FileOf(s)' \in files'
  <2>1. FileOf(s)' = FileOf(s)
    BY <1>5, NameChanges
  <2>2. stage'[s] \in Going
    BY <1>5 DEF Going, Running
  <2>3. CASE FileOf(s) \notin written
    BY <1>1, <1>5, <2>1, <2>3, Writes
  <2>4. CASE FileOf(s) \in written
    <3>1. ~ Again(s)
      <4>1. CASE s \in Roots
        BY <1>2, <4>1
      <4>2. CASE s \notin Roots
        <5>1. stage'[RootOf(s)] # "idle"
          BY <1>5, <4>2 DEF Current
        <5> QED
          BY <1>1, <5>1, RootOfRoot DEF Again
      <4> QED
        BY <4>1, <4>2
    <3>2. Current(s)
      <4> SUFFICES ASSUME s \notin Roots, stage[RootOf(s)] = "idle" PROVE FALSE
        BY DEF Current
      <4>1. stage'[RootOf(s)] # stage[RootOf(s)]
        BY <1>5 DEF Current
      <4>2. Moves(RootOf(s))
        BY <1>1, <4>1, StageStep
      <4>3. BeginTransaction(RootOf(s)) \/ BeginFails(RootOf(s))
        <5>1. ~ Again(RootOf(s))
          <6>1. RootOf(RootOf(s)) = RootOf(s)
            BY <1>1, RootOfRoot
          <6> QED
            BY <1>1, <3>1, <6>1 DEF Again
        <5> QED
          BY <1>1, <4>2, <5>1 DEF Moves, Past, MediaEnd, End, InCallback
      <4>4. attempt'[RootOf(s)] = attempt[RootOf(s)] + 1 /\ attempt[RootOf(s)] \in Nat
        BY <1>1, <4>3, Shown DEF BeginTransaction, BeginFails
      <4>5. s \in Savepoints
        BY <1>1 DEF Scopes
      <4> QED
        BY <1>1, <2>1, <4>4, <4>5, FileFacts
    <3>3. stage[s] \in {"idle", "queued"} \/ s \in Running
      <4>1. CASE stage'[s] = stage[s]
        BY <1>1, <1>5, <4>1 DEF Running
      <4>2. CASE Moves(s)
        BY <1>1, <1>5, <3>1, <4>2 DEF Moves, Past, Running
      <4> QED
        BY <1>3, <4>1, <4>2
    <3>4. FileOf(s) \in files
      BY <1>1, <2>4, <3>2, <3>3 DEF StoredAt, Asked
    <3> QED
      BY <2>1, <2>2, <3>4, FileFacts, KeepsFile
  <2> QED
    BY <2>3, <2>4
<1> QED
  BY <1>4, <1>5 DEF StoredAt, Asked

LEMMA AwaitedStays ==
  ASSUME MediaFull, Structured, MediaMove, NEW s \in Media
  PROVE  AwaitedAt(s)'
<1>1. /\ Full /\ Inv /\ s \in Scopes /\ AwaitedAt(s) /\ FilesInv /\ IdleInv /\ RootOf(s) \in Roots /\ RootOf(s) \in Scopes
      /\ \A t \in Savepoints : t \in Scopes /\ t \notin Roots
      /\ progress \in [Scopes -> 0 .. 3]
  BY Shown, FileFacts, OneRoot DEF MediaFull, MediaInv, Full
<1>2. stage'[s] # stage[s] => Moves(s)
  BY <1>1, StageStep
<1>3. Again(s) => stage'[s] = "idle" /\ stage'[RootOf(s)] = "idle"
  BY <1>1, RootOfRoot DEF Again
<1>4. \/ progress'[s] = progress[s]
      \/ stage[s] = "open" /\ stage'[s] = "open" /\ progress'[s] = progress[s] + 1
      \/ stage'[s] = "idle"
  BY <1>1, ProgressStep
<1>5. MediaEnd(s) => progress[s] > 0 /\ (stage'[s] = "returned" => progress[s] = 3)
  BY DEF MediaEnd
<1>6. ASSUME stage'[s] \in {"returned", "saved", "committed"} PROVE progress'[s] = 3
  <2>1. progress'[s] = progress[s]
    BY <1>4, <1>6
  <2>2. stage[s] \in {"returned", "saved", "committed"} \/ MediaEnd(s)
    <3>1. CASE stage'[s] = stage[s]
      BY <1>6, <3>1
    <3>2. CASE Moves(s)
      BY <1>3, <1>6, <3>2 DEF Moves
    <3> QED
      BY <1>2, <3>1, <3>2
  <2>3. CASE stage[s] \in {"returned", "saved", "committed"}
    BY <1>1, <2>1, <2>3 DEF AwaitedAt
  <2>4. CASE MediaEnd(s) /\ stage[s] \notin {"returned", "saved", "committed"}
    <3>1. stage'[s] # stage[s]
      BY <1>6, <2>4
    <3>2. stage'[s] = "returned"
      BY <1>2, <1>3, <1>6, <2>4, <3>1 DEF Moves, Past
    <3> QED
      BY <1>5, <2>1, <2>4, <3>2
  <2> QED
    BY <2>2, <2>3, <2>4
<1>7. ASSUME progress'[s] = 0, stage'[s] \notin {"idle", "queued", "open"}
      PROVE  stage'[s] = "failed" /\ FileOf(s)' \in cleaned'
  <2>1. progress[s] = 0
    BY <1>1, <1>4, <1>7
  <2>2. stage[s] \in {"idle", "queued", "open"} \/ (stage[s] = "failed" /\ FileOf(s) \in cleaned)
    BY <1>1, <2>1 DEF AwaitedAt
  <2>3. CASE stage'[s] = stage[s]
    <3>1. stage[s] = "failed" /\ FileOf(s) \in cleaned
      BY <1>7, <2>2, <2>3
    <3>2. FileOf(s)' = FileOf(s)
      BY <3>1, NameChanges
    <3> QED
      BY <1>1, <2>3, <3>1, <3>2, Writes
  <2>4. CASE stage'[s] # stage[s]
    <3>1. CompensateUnstarted(s) /\ stage'[s] = "failed"
      BY <1>2, <1>3, <1>5, <1>7, <2>1, <2>2, <2>4 DEF Moves, Past
    <3>2. FileOf(s) \in cleaned'
      BY <3>1 DEF CompensateUnstarted, Compensate
    <3>3. FileOf(s)' = FileOf(s)
      <4>1. CASE s \in Roots
        BY <4>1, FileFacts
      <4>2. CASE s \in Savepoints
        <5>1. stage[s] # "idle"
          BY <1>1, <1>2, <1>7, <2>4, <4>2 DEF Moves, Past, Again, MediaEnd, End, InCallback
        <5> QED
          BY <5>1, NameChanges
      <4> QED
        BY <1>1, <4>1, <4>2 DEF Scopes
    <3> QED
      BY <3>1, <3>2, <3>3
  <2> QED
    BY <2>3, <2>4
<1>8. ASSUME s \in Savepoints, stage'[s] = "idle", stage'[RootOf(s)] # "idle", FileOf(s)' \in written'
      PROVE  stage'[Parent[s]] = "open"
  <2>1. stage[s] = "idle"
    BY <1>2, <1>3, <1>8 DEF Moves
  <2>2. FileOf(s)' = FileOf(s)
    BY <1>8, NameChanges
  <2>3. Parent[s] \in Scopes /\ RootOf(Parent[s]) = RootOf(s)
    <3>1. Parent[s] \in Scopes /\ Parent[s] \in Lineage[s]
      BY <1>8, LineageStep, Nested
    <3> QED
      BY <1>1, <3>1, RootOfInside
  <2>4. CASE FileOf(s) \notin written
    <3>1. PutFile(s)
      BY <1>1, <1>8, <2>2, <2>4, Writes
    <3> QED
      BY <1>1, <1>8, <3>1 DEF PutFile, InCallback, vars, scopeVars
  <2>5. CASE FileOf(s) \in written
    <3>1. stage[RootOf(s)] # "idle"
      <4> SUFFICES ASSUME stage[RootOf(s)] = "idle" PROVE FALSE
        OBVIOUS
      <4>1. Moves(RootOf(s))
        BY <1>1, <1>8, StageStep
      <4>2. ~ Again(RootOf(s))
        BY <1>1, <1>8 DEF Again
      <4>3. BeginTransaction(RootOf(s)) \/ BeginFails(RootOf(s))
        BY <1>1, <4>1, <4>2 DEF Moves, Past, MediaEnd, End, InCallback
      <4>4. attempt'[RootOf(s)] = attempt[RootOf(s)] + 1 /\ attempt[RootOf(s)] \in Nat
        BY <1>1, <4>3, Shown DEF BeginTransaction, BeginFails
      <4> QED
        BY <1>8, <2>2, <4>4, FileFacts
    <3>2. stage[Parent[s]] = "open"
      BY <1>1, <1>8, <2>1, <2>5, <3>1 DEF AwaitedAt
    <3>3. ASSUME stage'[Parent[s]] # "open" PROVE FALSE
      <4>1. Moves(Parent[s])
        BY <1>1, <2>3, <3>2, <3>3, StageStep
      <4>2. ~ Again(Parent[s])
        <5> SUFFICES ASSUME \A t \in Scopes : RootOf(t) = RootOf(Parent[s]) => stage'[t] = "idle" PROVE FALSE
          BY DEF Again
        <5>1. RootOf(RootOf(s)) = RootOf(s)
          BY <1>1, RootOfRoot
        <5> QED
          BY <1>1, <1>8, <2>3, <5>1
      <4>3. MediaEnd(Parent[s])
        BY <3>2, <4>1, <4>2 DEF Moves, Past
      <4> QED
        BY <1>8, <2>1, <2>5, <4>3 DEF MediaEnd, MediaAwaited
    <3> QED
      BY <3>3
  <2> QED
    BY <2>4, <2>5
<1> QED
  BY <1>6, <1>7, <1>8 DEF AwaitedAt

LEMMA FilesStay ==
  ASSUME MediaFull, Structured, MediaMove
  PROVE  FilesInv'
<1>1. /\ Full /\ FilesInv /\ \A m \in Media : m \in Scopes /\ FileOf(m)[1] = m
      /\ \A s \in Savepoints : s \in Scopes /\ s \notin Roots
      /\ files \cup written \cup cleaned \subseteq Rows
  BY FileFacts, Shown DEF MediaFull, MediaInv, MediaTypeOK, Full
<1> DEFINE Ours == /\ \A file \in (files \cup written \cup cleaned)' : file[1] \in Media
                   /\ \A file \in written' : file[1] \in Savepoints => file[2] <= attempt'[RootOf(file[1])]
                   /\ (files \subseteq written \cup cleaned)'
           Undone == \A row \in Rows : row[1] \in Media /\ <<"rollback", row>> \in fired' => row \in cleaned'
<1>2. ASSUME NEW file \in written, file[1] \in Savepoints PROVE file[2] <= attempt'[RootOf(file[1])]
  <2>1. file[1] \in Scopes /\ file[2] \in Nat /\ RootOf(file[1]) \in Roots
    BY <1>1, RowFacts
  <2>2. file[2] <= attempt[RootOf(file[1])]
    BY <1>1, <1>2 DEF FilesInv
  <2> QED
    BY <1>1, <2>1, <2>2, AttemptStep
<1>3. CASE Quiet
  <2>1. Ours
    BY <1>1, <1>2, <1>3 DEF Quiet, FilesInv
  <2>2. Undone
    BY <1>1, <1>3 DEF Quiet, FilesInv
  <2> QED
    BY <2>1, <2>2 DEF FilesInv
<1>4. ASSUME NEW m \in Media, PutFile(m) PROVE FilesInv'
  <2>1. /\ fired' = fired /\ attempt' = attempt
        /\ written \cup cleaned \cup {FileOf(m)} \subseteq written' \cup cleaned'
        /\ written' \subseteq written \cup {FileOf(m)} /\ cleaned' \subseteq cleaned \cup {FileOf(m)}
        /\ files' \subseteq files \cup {FileOf(m)} /\ cleaned \subseteq cleaned'
    BY <1>4 DEF PutFile, vars, scopeVars, callbackVars
  <2>2. m \in Savepoints => FileOf(m)[2] <= attempt'[RootOf(m)]
    <3>1. attempt[RootOf(m)] \in Nat
      BY <1>1, OneRoot, Shown DEF Full
    <3>2. m \in Savepoints => FileOf(m)[2] = attempt[RootOf(m)]
      BY FileFacts
    <3> QED
      BY <2>1, <3>1, <3>2
  <2>3. Ours
    BY <1>1, <1>2, <2>1, <2>2 DEF FilesInv
  <2>4. Undone
    BY <1>1, <2>1 DEF FilesInv
  <2> QED
    BY <2>3, <2>4 DEF FilesInv
<1>5. ASSUME NEW file, file[1] \in Media, Compensate(file) PROVE Ours
  <2>1. files' \subseteq files /\ written' = written /\ cleaned' = cleaned \cup {file}
    BY <1>5 DEF Compensate
  <2> QED
    BY <1>1, <1>2, <1>5, <2>1 DEF FilesInv
<1>6. ASSUME NEW s \in Media, NotStarted(s) PROVE FilesInv'
  <2>1. Compensate(FileOf(s)) /\ fired' = fired /\ cleaned \subseteq cleaned'
    BY <1>6 DEF NotStarted, Compensate
  <2>2. Ours
    BY <1>1, <1>5, <2>1
  <2>3. Undone
    BY <1>1, <2>1 DEF FilesInv
  <2> QED
    BY <2>2, <2>3 DEF FilesInv
<1>7. ASSUME NEW s \in Scopes, NEW file \in Rollbacks(s), RolledBack(s, file) PROVE FilesInv'
  <2>1. /\ Compensate(file) /\ fired' = fired \cup {<<"rollback", file>>} /\ file[1] \in Media
        /\ cleaned' = cleaned \cup {file}
    BY <1>7 DEF RolledBack, Compensate
  <2>2. Ours
    BY <1>5, <2>1
  <2>3. Undone
    BY <1>1, <2>1 DEF FilesInv
  <2> QED
    BY <2>2, <2>3 DEF FilesInv
<1> QED
  BY <1>1, <1>3, <1>4, <1>6, <1>7, Effects

(* The row that a media scope writes names the file that it stored. *)
LEMMA WritesOwnFile ==
  ASSUME MediaFull, NEW s \in Media, Write(s)
  PROVE  Name(s) = FileOf(s) /\ Name(s) \in files /\ stage'[s] \in Going
<1>1. /\ Full /\ Inv /\ s \in Scopes /\ StoredAt(s) /\ stage[s] = "open" /\ s \in Running /\ stage' = stage
  BY FileFacts DEF MediaFull, MediaInv, Full, Write, InCallback, Running
<1>2. Current(s)
  BY <1>1, RootRuns DEF Current, Running
<1>3. FileOf(s) \in files
  BY <1>1, <1>2 DEF StoredAt, Asked
<1>4. Name(s) = FileOf(s)
  <2>1. CASE s \in Savepoints
    BY <2>1, FileFacts
  <2>2. CASE s \in Roots
    <3>1. RootOf(s) = s /\ FileOf(s) = <<s, 1>> /\ MaxAttempts[s] = 1
      BY <2>2, FileFacts, RootOfRoot
    <3>2. Name(s) \in Rows /\ Name(s)[2] = attempt[s]
      BY <1>1, <3>1, NameIsRow DEF Name
    <3>3. attempt[s] \in Nat /\ attempt[s] > 0 /\ attempt[s] <= 1
      BY <1>1, <2>2, <3>1, <3>2, RowFacts DEF Inv, TypeOK
    <3> QED
      BY <3>1, <3>3 DEF Name
  <2> QED
    BY <1>1, <2>1, <2>2 DEF Scopes
<1> QED
  BY <1>1, <1>3, <1>4 DEF Going

LEMMA PointedStays ==
  ASSUME MediaFull, Structured, MediaMove
  PROVE  PointedInv'
<1>1. Full /\ Inv /\ [Next]_vars
  BY MediaStep DEF MediaFull, Full, MediaMove
<1> SUFFICES ASSUME NEW row \in Rows, row \in (durable \cup LayerRows(1))'
             PROVE  /\ row[2] <= attempt'[RootOf(row[1])]
                    /\ row[1] \in Media => row \in files'
  BY DEF PointedInv
<1>2. /\ row[1] \in Scopes /\ row[2] \in Nat /\ RootOf(row[1]) \in Roots
      /\ attempt[RootOf(row[1])] \in Nat /\ attempt'[RootOf(row[1])] \in Nat
      /\ attempt[RootOf(row[1])] <= attempt'[RootOf(row[1])]
  BY <1>1, RowFacts, AttemptStep
<1>3. CASE row \in durable \cup LayerRows(1)
  <2>1. row[2] <= attempt[RootOf(row[1])] /\ (row[1] \in Media => row \in files)
    BY <1>3 DEF MediaFull, MediaInv, PointedInv
  <2> QED
    BY <1>2, <2>1, KeepsFile
<1>4. ASSUME NEW s \in Scopes, Write(s), row = Name(s)
      PROVE  /\ row[2] <= attempt'[RootOf(row[1])]
             /\ row[1] \in Media => row \in files'
  <2>1. row[1] = s /\ row[2] = attempt[RootOf(s)]
    BY <1>4 DEF Name
  <2>2. s \in Media => row \in files
    BY <1>4, WritesOwnFile
  <2> QED
    BY <1>2, <2>1, <2>2, KeepsFile
<1> QED
  BY <1>1, <1>3, <1>4, Driven

LEMMA ReplacedStays ==
  ASSUME MediaFull, Structured, MediaMove
  PROVE  ReplacedUntilDurable'
<1>1. Full /\ Inv /\ [Next]_vars /\ ReplacedUntilDurable
  BY MediaStep DEF MediaFull, MediaInv, Full, MediaMove
<1>2. durable \subseteq durable'
  BY <1>1, Driven
<1>3. CASE replaced' = replaced
  BY <1>1, <1>2, <1>3 DEF ReplacedUntilDurable
<1>4. ASSUME NEW r \in Roots, MediaAfterCommit(r) PROVE ReplacedUntilDurable'
  <2> DEFINE first == Head(onCommit[r])
  <2>1. /\ stage[r] = "committed" /\ onCommit[r] # <<>> /\ onCommit \in [Scopes -> Seq(Rows)] /\ r \in Scopes
        /\ replaced' = replaced \/ replaced' = replaced \ {first[1]}
    BY <1>1, <1>4, Shown DEF MediaAfterCommit, AfterCommit
  <2>2. first \in Commits(r)
    BY <2>1, RangeEnds DEF Commits
  <2> HIDE DEF first
  <2>3. first \in Rollbacks(r) /\ progress[first[1]] = 3
    BY <1>1, <2>1, <2>2, Holder DEF Full, CallbackInv, PairInv
  <2>4. first \in durable
    BY <1>1, <2>1, <2>3 DEF Full, CallbackInv, KeptInv
  <2> QED
    BY <1>1, <1>2, <2>1, <2>4 DEF ReplacedUntilDurable
<1>5. (\E r \in Roots : MediaAfterCommit(r)) \/ replaced' = replaced
  BY DEF MediaMove, MediaNext, PutFile, MediaRootStep, MediaScopeStep, MediaSavepointStep, MediaAfterRollback,
     MediaEnd, MediaFails, CompensateUnstarted, Compensate, mediaVars
<1> QED
  BY <1>3, <1>4, <1>5

LEMMA MediaTypesStay ==
  ASSUME MediaFull, Structured, MediaMove
  PROVE  MediaTypeOK'
<1>1. /\ Full /\ Inv /\ [Next]_vars /\ files \cup written \cup cleaned \subseteq Rows /\ replaced \subseteq Media
      /\ \A s \in Savepoints : s \in Scopes /\ s \notin Roots
  BY MediaStep, Shown DEF MediaFull, MediaInv, MediaTypeOK, Full, MediaMove
<1>2. TypeOK'
  BY <1>1, InvStep DEF Inv
<1>3. replaced' \subseteq replaced
  BY DEF MediaMove, MediaNext, PutFile, MediaRootStep, MediaScopeStep, MediaSavepointStep, MediaAfterRollback,
     MediaAfterCommit, MediaEnd, MediaFails, CompensateUnstarted, Compensate, mediaVars
<1>4. ASSUME NEW s \in Media, s \in Savepoints => RootOf(s) \in Running PROVE FileOf(s) \in Rows
  <2>1. CASE s \in Roots
    <3>1. FileOf(s) \in {s} \X (1 .. MaxAttempts[RootOf(s)]) /\ s \in Scopes
      BY <2>1, FileFacts, RootOfRoot
    <3> QED
      BY <3>1 DEF Rows
  <2>2. CASE s \in Savepoints
    <3>1. RootOf(s) \in Roots /\ RootOf(RootOf(s)) = RootOf(s) /\ s \in Scopes
      BY <1>1, <2>2, OneRoot, RootOfRoot
    <3>2. <<RootOf(s), attempt[RootOf(s)]>> \in Rows
      BY <1>1, <1>4, <2>2, <3>1, NameIsRow DEF Name
    <3>3. attempt[RootOf(s)] \in Nat /\ attempt[RootOf(s)] > 0 /\ attempt[RootOf(s)] <= MaxAttempts[RootOf(s)]
      BY <1>1, <3>1, <3>2, RowFacts DEF Inv, TypeOK
    <3>4. FileOf(s) \in {s} \X (1 .. MaxAttempts[RootOf(s)])
      BY <2>2, <3>1, <3>3, FileFacts
    <3> QED
      BY <3>1, <3>4 DEF Rows
  <2> QED
    BY <2>1, <2>2, FileFacts DEF Scopes
<1>5. (files \cup written \cup cleaned)' \subseteq Rows
  <2>1. CASE Quiet
    BY <1>1, <2>1 DEF Quiet
  <2>2. ASSUME NEW m \in Media, PutFile(m) PROVE (files \cup written \cup cleaned)' \subseteq Rows
    <3>1. m \in Savepoints => RootOf(m) \in Running
      <4> SUFFICES ASSUME m \in Savepoints PROVE RootOf(m) \in Running
        OBVIOUS
      <4>1. stage[Parent[m]] = "open"
        BY <1>1, <2>2 DEF PutFile, InCallback
      <4>2. Parent[m] \in Scopes /\ RootOf(Parent[m]) = RootOf(m)
        <5>1. Parent[m] \in Scopes /\ Parent[m] \in Lineage[m]
          BY LineageStep, Nested
        <5> QED
          BY <1>1, <5>1, RootOfInside
      <4> QED
        BY <1>1, <4>1, <4>2, RootRuns DEF Running
    <3>2. FileOf(m) \in Rows
      BY <1>4, <3>1
    <3>3. (files \cup written \cup cleaned)' \subseteq files \cup written \cup cleaned \cup {FileOf(m)}
      BY <2>2 DEF PutFile
    <3> QED
      BY <1>1, <3>2, <3>3
  <2>3. ASSUME NEW file \in Rows, Compensate(file) PROVE (files \cup written \cup cleaned)' \subseteq Rows
    BY <1>1, <2>3 DEF Compensate
  <2>4. ASSUME NEW s \in Media, NotStarted(s) PROVE (files \cup written \cup cleaned)' \subseteq Rows
    <3>1. s \in Savepoints => RootOf(s) \in Running
      BY <1>1, <2>4, UnderWay DEF NotStarted
    <3>2. FileOf(s) \in Rows
      BY <1>4, <3>1
    <3> QED
      BY <2>3, <2>4, <3>2 DEF NotStarted
  <2>5. ASSUME NEW s \in Scopes, NEW file \in Rollbacks(s), RolledBack(s, file)
        PROVE  (files \cup written \cup cleaned)' \subseteq Rows
    BY <1>1, <2>3, <2>5, Holder DEF RolledBack
  <2> QED
    BY <1>1, <2>1, <2>2, <2>4, <2>5, Effects
<1> QED
  BY <1>1, <1>2, <1>3, <1>5 DEF MediaTypeOK

LEMMA MediaFullStep ==
  ASSUME Structured
  PROVE  MediaFull /\ MediaMove => MediaFull'
<1> SUFFICES ASSUME MediaFull, MediaMove PROVE MediaFull'
  OBVIOUS
<1>1. Full'
  BY FullStep, MediaStep DEF MediaFull, MediaMove
<1>2. MediaTypeOK' /\ FilesInv' /\ IdleInv' /\ PointedInv' /\ ReplacedUntilDurable'
  BY MediaTypesStay, FilesStay, IdleStays, PointedStays, ReplacedStays
<1>3. ASSUME NEW s \in Media PROVE StoredAt(s)' /\ AwaitedAt(s)'
  BY StoredStays, AwaitedStays
<1> QED
  BY <1>1, <1>2, <1>3 DEF MediaFull, MediaInv

LEMMA InitMedia == MediaInit => MediaInv
<1> SUFFICES ASSUME MediaInit PROVE MediaInv
  OBVIOUS
<1>1. /\ Inv /\ files = {} /\ written = {} /\ cleaned = {} /\ replaced = Media /\ fired = {}
      /\ stage = [s \in Scopes |-> "idle"] /\ layers = <<>> /\ durable = {}
      /\ phase = [p \in Roots \cup Queries |-> "idle"] /\ Media \subseteq Scopes /\ Roots \subseteq Scopes
  BY InitInv, MediaAssumption DEF MediaInit, Init, SchedulerInit, Scopes
<1>2. MediaTypeOK /\ FilesInv /\ ReplacedUntilDurable
  BY <1>1 DEF MediaTypeOK, FilesInv, ReplacedUntilDurable, Inv
<1>3. IdleInv /\ PointedInv
  <2>1. LayerRows(1) = {}
    <3>1. Len(<<>>) = 0
      OBVIOUS
    <3> QED
      BY <1>1, <3>1 DEF LayerRows
  <2> QED
    BY <1>1, <2>1 DEF IdleInv, PointedInv
<1>4. ASSUME NEW s \in Media PROVE StoredAt(s) /\ AwaitedAt(s)
  <2>1. s \in Scopes /\ stage[s] = "idle" /\ s \notin Running /\ FileOf(s) \notin written
    BY <1>1 DEF Running
  <2>2. s \in Roots => phase[s] = "idle"
    BY <1>1
  <2>3. StoredAt(s)
    BY <2>1, <2>2 DEF StoredAt, Asked
  <2> QED
    BY <2>1, <2>3 DEF AwaitedAt
<1> QED
  BY <1>2, <1>3, <1>4 DEF MediaInv

LEMMA MediaFullInvariance ==
  ASSUME Structured
  PROVE  MediaSpec => []MediaFull
<1>1. MediaInit => MediaFull
  BY InitInv, InitCalls, InitMedia DEF MediaFull, Full, MediaInit
<1>2. MediaFull /\ [MediaNext]_<<vars, mediaVars>> => MediaFull'
  BY MediaFullStep DEF MediaMove
<1> QED
  BY <1>1, <1>2, PTL DEF MediaSpec

LEMMA FullPoints == MediaFull => NoDanglingRow
<1> SUFFICES ASSUME MediaFull, NEW row \in durable, row[1] \in Media PROVE row \in files
  BY DEF NoDanglingRow
<1>1. row \in Rows
  BY Shown DEF MediaFull, Full
<1> QED
  BY <1>1 DEF MediaFull, MediaInv, PointedInv

LEMMA FullOrphansNone == MediaFull => NoOrphanFile
<1> SUFFICES ASSUME MediaFull, NEW r \in known, Drained(r), NEW file \in files \ cleaned,
                    r \in Lineage[file[1]], file[2] = attempt[r], file \notin durable
             PROVE  FALSE
  BY DEF NoOrphanFile
<1> DEFINE s == file[1]
<1>1. /\ Full /\ Inv /\ s \in Media /\ s \in Scopes /\ AwaitedAt(s) /\ file \in Rows /\ file \in written
      /\ <<"rollback", file>> \notin fired
  <2>1. Full /\ Inv /\ s \in Media /\ AwaitedAt(s) /\ file \in Rows /\ file \in written
    BY DEF MediaFull, MediaInv, Full, FilesInv, MediaTypeOK
  <2>2. <<"rollback", file>> \notin fired
    BY <2>1 DEF MediaFull, MediaInv, FilesInv
  <2> QED
    BY <2>1, <2>2, FileFacts
<1>2. /\ r \in Roots /\ RootOf(s) = r /\ stage[r] \in {"committed", "undone", "redo"}
      /\ progress[s] \in 0 .. 3 /\ \A t \in Savepoints : t \in Scopes /\ t \notin Roots
  BY <1>1, OneRoot, Shown DEF Drained
<1>3. file = Name(s)
  BY <1>1, <1>2, RowFacts DEF Name
<1>4. file = FileOf(s)
  <2>1. CASE s \in Savepoints
    BY <1>1, <1>3, <2>1, FileFacts
  <2>2. CASE s \in Roots
    <3>1. r = s /\ FileOf(s) = <<s, 1>> /\ MaxAttempts[s] = 1
      BY <1>1, <1>2, <2>2, FileFacts, RootOfRoot
    <3>2. attempt[s] \in Nat /\ attempt[s] > 0 /\ attempt[s] <= 1
      BY <1>1, <2>2, <3>1, RowFacts DEF Inv, TypeOK
    <3> QED
      BY <1>1, <3>1, <3>2, RowFacts
  <2> QED
    BY <1>1, <2>1, <2>2 DEF Scopes
<1>5. CASE progress[s] >= 2
  <2>1. NothingForgotten
    BY <1>1, FullForgetsNothing
  <2>2. (Name(s) \in durable) # (<<"rollback", Name(s)>> \in fired)
    BY <1>1, <1>5, <2>1 DEF NothingForgotten
  <2> QED
    BY <1>1, <1>3, <2>2
<1>6. CASE progress[s] = 1
  <2>1. Name(s) \in Rollbacks(r)
    BY <1>1, <1>2, <1>3, <1>6, HeldAtEnd
  <2>2. stage[r] = "committed"
    BY <1>2, <2>1, RangeEmpty DEF Drained, Rollbacks
  <2>3. s = r \/ stage[s] = "saved"
    BY <1>1, <1>2, <1>3, <2>1, Holder, RootOfRoot
  <2> QED
    BY <1>1, <1>6, <2>2, <2>3 DEF AwaitedAt
<1>7. CASE progress[s] = 0
  <2>1. stage[s] \in {"idle", "queued", "open"}
    BY <1>1, <1>4, <1>7 DEF AwaitedAt
  <2>2. s # r /\ s \in Savepoints
    BY <1>1, <1>2, <2>1, RootOfRoot DEF Scopes
  <2>3. stage[s] = "idle"
    BY <1>1, <1>2, <2>1, <2>2, UnderWay
  <2>4. stage[Parent[s]] = "open"
    BY <1>1, <1>2, <1>4, <2>2, <2>3 DEF AwaitedAt
  <2>5. Parent[s] \in Scopes /\ RootOf(Parent[s]) = r
    <3>1. Parent[s] \in Scopes /\ Parent[s] \in Lineage[s]
      BY <2>2, LineageStep, Nested
    <3> QED
      BY <1>1, <1>2, <3>1, RootOfInside
  <2> QED
    BY <1>1, <1>2, <2>4, <2>5, RootRuns DEF Running
<1> QED
  BY <1>2, <1>5, <1>6, <1>7

-------------------------------------------------------------------------------
(* The theorems about media mutations *)

(* NoDanglingRow: a media row never becomes durable without its file, although the file is
   stored before the transaction, removed by a callback of it or by its caller, and the answer
   to the commit may be lost. *)
THEOREM MediaRowsHaveFiles ==
  ASSUME Structured
  PROVE  MediaSpec => []NoDanglingRow
BY MediaFullInvariance, FullPoints, PTL DEF MediaMove

(* ReplacedUntilDurable: the file that a mutation replaces stays until the row that names the
   new one is durable, also when the mutation is nested and its transaction retried. *)
THEOREM ReplacedFilesKept ==
  ASSUME Structured
  PROVE  MediaSpec => []ReplacedUntilDurable
<1>1. MediaFull => ReplacedUntilDurable
  BY DEF MediaFull, MediaInv
<1> QED
  BY <1>1, MediaFullInvariance, PTL

(* NoOrphanFile: a file whose row did not become durable is compensated for, by a callback or
   by the caller, when its transaction's outcome is known and the callbacks have run. *)
THEOREM NoFileOrphaned ==
  ASSUME Structured
  PROVE  MediaSpec => []NoOrphanFile
BY MediaFullInvariance, FullOrphansNone, PTL
===============================================================================
