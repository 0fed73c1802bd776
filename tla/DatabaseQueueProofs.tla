------------------------- MODULE DatabaseQueueProofs --------------------------
(* Proofs about DatabaseQueue, for any numbers of jobs, workers and commands. *)
EXTENDS DatabaseQueue, FiniteSetTheorems, TLAPS

-------------------------------------------------------------------------------
(* What makes the properties inductive *)

(* The reservation id of a row is the newest one issued for it, and every holder
   works under an issued one. *)
LeaseNumbers ==
    /\ \A j \in Jobs : reservation[j] \in {0, issued[j]}
    /\ \A w \in Workers : pc[w] \in Holding =>
         held[w].lease \in 1 .. issued[held[w].job]

(* A row belongs to a dispatch, and a reservation still in the row was made for
   the dispatch the row belongs to. *)
DispatchNumbers ==
    /\ \A j \in stored : epoch[j] >= 1
    /\ \A w \in Workers : pc[w] \in Holding =>
         /\ held[w].epoch <= epoch[held[w].job]
         /\ Matches(held[w]) => held[w].epoch = epoch[held[w].job]

LeaseInv == LeaseNumbers /\ DispatchNumbers /\ LeaseUnique /\ LeaseHeld

(* Attempt numbers of the current dispatch grow with every reservation, and no
   two reservations of a dispatch share one. *)
AttemptInv ==
    /\ \A r \in ran :
         /\ r.epoch <= epoch[r.job]
         /\ r.epoch = epoch[r.job] => r.attempt <= attempts[r.job]
    /\ \A w \in Workers : pc[w] \in Holding =>
         (held[w].epoch = epoch[held[w].job] => held[w].attempt <= attempts[held[w].job])
    /\ \A w \in Workers : pc[w] = "reserved" => RunOf(held[w]) \notin ran
    /\ \A v, w \in Workers :
         (v # w /\ pc[v] \in Holding /\ pc[w] \in Holding) => RunOf(held[v]) # RunOf(held[w])

(* Whoever is about to delete a row has settled its dispatch already. *)
LossInv ==
    /\ \A w \in Workers : pc[w] = "acknowledging" => <<held[w].job, held[w].epoch>> \in done
    /\ \A w \in Workers : (pc[w] = "deleting" /\ FailedStore) =>
         RecordOf(held[w]) \in failed \cup consumed
    /\ \A a \in Admins : requeued[a] \subseteq consumed
    /\ NothingLost

USE DEF Holding, Held, Record, Run

LEMMA AboutToLapseIsFinite == Cardinality(AboutToLapse) \in Nat
<1>1. IsFiniteSet(Workers)
  BY ConstantsAssumption
<1>2. AboutToLapse \subseteq Workers
  BY DEF AboutToLapse
<1> QED
  BY <1>1, <1>2, FS_Subset, FS_CardinalityType

LEMMA InitTypeOK == Init => TypeOK
BY ConstantsAssumption DEF Init, TypeOK, TableOK, WorkersOK, CommandsOK, HistoryOK

LEMMA TableStep ==
  ASSUME TypeOK, Next
  PROVE  TableOK'
<1> USE ConstantsAssumption DEF TypeOK, TableOK, WorkersOK, CommandsOK
<1>1. ASSUME UNCHANGED table, failed' \subseteq failed \cup Record
      PROVE  TableOK'
  BY <1>1 DEF table
<1>2. ASSUME NEW j \in Jobs, NEW d \in Nat, Insert(j, d), UNCHANGED failed
      PROVE  TableOK'
  BY <1>2 DEF Insert
<1>3. ASSUME NEW w \in Workers, DeleteMatching(held[w]), UNCHANGED failed
      PROVE  TableOK'
  BY <1>3 DEF DeleteMatching
<1>4. CASE \E j \in Jobs, d \in Delays : Dispatch(j, d)
  BY <1>4, <1>2 DEF Dispatch
<1>5. ASSUME NEW w \in Workers, WorkerStep(w)
      PROVE  TableOK'
  <2>1. CASE Start(w) \/ Reject(w) \/ StartHandler(w) \/ RunFailedHooks(w)
    BY <2>1, <1>1 DEF Start, Reject, StartHandler, RunFailedHooks
  <2>2. CASE Acknowledge(w) \/ Delete(w)
    BY <2>2, <1>3 DEF Acknowledge, Delete
  <2>3. CASE Persist(w)
    BY <2>3, <1>1, NoJobAssumption DEF Persist, RecordOf
  <2>4. CASE \E d \in Delays : Release(w, d)
    BY <2>4 DEF Release, Matches
  <2> QED
    BY <1>5, <2>1, <2>2, <2>3, <2>4 DEF WorkerStep
<1>6. ASSUME NEW w \in Workers, NEW j \in Jobs, Reserve(w, j)
      PROVE  TableOK'
  BY <1>6 DEF Reserve
<1>7. ASSUME NEW w \in Workers, HandlerSettles(w) \/ TimesOut(w) \/ Stop(w) \/ Crash(w)
      PROVE  TableOK'
  BY <1>7, <1>1 DEF HandlerSettles, HandlerReturns, HandlerReleases, HandlerThrows,
                    TimesOut, Stop, Crash
<1>8. CASE Tick
  BY <1>8 DEF Tick, AtMost
<1>9. CASE Clear
  BY <1>9 DEF Clear
<1>10. ASSUME NEW a \in Admins, AdminStep(a)
       PROVE  TableOK'
  <2>1. ASSUME NEW r \in batch[a], RetryDispatch(a, r)
        PROVE  TableOK'
    BY <2>1, <1>1, <1>2 DEF RetryDispatch
  <2>2. CASE (\E S \in SUBSET failed : RetryLoad(a, S)) \/ RetryForget(a) \/ RetryCrash(a)
    BY <2>2, <1>1 DEF RetryLoad, RetryForget, RetryCrash
  <2> QED
    BY <1>10, <2>1, <2>2 DEF AdminStep
<1>11. CASE Flush \/ \E r \in failed : Forget(r)
  BY <1>11, <1>1 DEF Flush, Forget, Discard
<1> QED
  BY <1>4, <1>5, <1>6, <1>7, <1>8, <1>9, <1>10, <1>11 DEF Next, Proceed

LEMMA HeldByBusy ==
  ASSUME TypeOK, NEW w \in Workers
  PROVE  pc[w] \notin {"stopped", "idle"} => held[w] \in Held
BY DEF TypeOK, WorkersOK

LEMMA WorkersStep ==
  ASSUME TypeOK, Next
  PROVE  WorkersOK'
<1> USE ConstantsAssumption, NoJobAssumption DEF TypeOK, TableOK, WorkersOK
<1>1. ASSUME UNCHANGED worker
      PROVE  WorkersOK'
  BY <1>1 DEF worker
<1>2. ASSUME NEW w \in Workers, NEW next \in {"stopped", "idle"}, LetGo(w, next)
      PROVE  WorkersOK'
  BY <1>2 DEF LetGo
<1>3. ASSUME NEW w \in Workers, pc[w] \notin {"stopped", "idle"},
             NEW v \in {"hook", "no_hook", "timed_out"}, Fails(w, v), UNCHANGED <<held, spent, clock>>
      PROVE  WorkersOK'
  BY <1>3 DEF Fails
<1>4. ASSUME NEW w \in Workers, WorkerStep(w)
      PROVE  WorkersOK'
  <2>1. CASE Start(w) \/ StartHandler(w) \/ Persist(w) \/ Delete(w)
    BY <2>1 DEF Start, StartHandler, Persist, Delete
  <2>2. CASE Reject(w)
    BY <2>2, <1>3 DEF Reject
  <2>3. CASE Acknowledge(w) \/ RunFailedHooks(w) \/ \E d \in Delays : Release(w, d)
    BY <2>3, <1>2 DEF Acknowledge, RunFailedHooks, Release
  <2> QED
    BY <1>4, <2>1, <2>2, <2>3 DEF WorkerStep
<1>5. ASSUME NEW w \in Workers, NEW j \in Jobs, Reserve(w, j)
      PROVE  WorkersOK'
  <2>1. [job |-> j, epoch |-> epoch[j], lease |-> issued[j] + 1, attempt |-> attempts[j] + 1] \in Held
    BY DEF HistoryOK
  <2> QED
    BY <1>5, <2>1 DEF Reserve
<1>6. ASSUME NEW w \in Workers, HandlerSettles(w)
      PROVE  WorkersOK'
  <2>1. CASE HandlerReturns(w) \/ HandlerReleases(w)
    BY <2>1 DEF HandlerReturns, HandlerReleases
  <2>2. CASE HandlerThrows(w)
    BY <2>2, <1>3 DEF HandlerThrows
  <2> QED
    BY <1>6, <2>1, <2>2 DEF HandlerSettles
<1>7. ASSUME NEW w \in Workers, TimesOut(w)
      PROVE  WorkersOK'
  BY <1>7, <1>2, <1>3 DEF TimesOut, Timed
<1>8. ASSUME NEW w \in Workers, Stop(w) \/ Crash(w)
      PROVE  WorkersOK'
  BY <1>8, <1>2 DEF Stop, Crash
<1>9. CASE Tick
  <2>1. ASSUME NEW w \in Workers, Timed(w)
        PROVE  AtMost(spent[w] + 1, Timeout[held[w].job]) \in Nat
    <3>1. held[w].job \in Jobs
      BY <2>1 DEF Timed
    <3>2. Timeout[held[w].job] \in Nat
      BY <2>1, <3>1 DEF Timed
    <3> QED
      BY <3>2 DEF AtMost
  <2>2. spent' \in [Workers -> Nat]
    BY <1>9, <2>1 DEF Tick
  <2>3. clock' \in [Workers -> 0 .. RetryAfter]
    BY <1>9 DEF Tick, AtMost
  <2> QED
    BY <1>9, <2>2, <2>3 DEF Tick
<1>10. CASE Clear \/ Flush \/ (\E r \in failed : Forget(r)) \/ \E j \in Jobs, d \in Delays : Dispatch(j, d)
  BY <1>10, <1>1 DEF Clear, Flush, Forget, Discard, Dispatch
<1>11. CASE \E a \in Admins : AdminStep(a)
  BY <1>11, <1>1 DEF AdminStep, RetryLoad, RetryDispatch, RetryForget, RetryCrash
<1> QED
  BY <1>4, <1>5, <1>6, <1>7, <1>8, <1>9, <1>10, <1>11 DEF Next, Proceed

LEMMA CommandsStep ==
  ASSUME TypeOK, Next
  PROVE  CommandsOK'
<1> USE ConstantsAssumption DEF TypeOK, TableOK, CommandsOK
<1>1. ASSUME UNCHANGED <<commands, disruptions>>
      PROVE  CommandsOK'
  BY <1>1 DEF commands
<1>2. ASSUME NEW w \in Workers,
             \/ WorkerStep(w) \/ HandlerSettles(w) \/ TimesOut(w)
             \/ \E j \in Jobs : Reserve(w, j)
      PROVE  CommandsOK'
  BY <1>2, <1>1 DEF WorkerStep, Start, Reject, StartHandler, Acknowledge, Persist, Delete,
                    RunFailedHooks, Release, HandlerSettles, HandlerReturns, HandlerReleases,
                    HandlerThrows, TimesOut, Reserve
<1>3. ASSUME NEW w \in Workers, Stop(w) \/ Crash(w)
      PROVE  CommandsOK'
  BY <1>3 DEF Stop, Crash, commands
<1>4. CASE Tick
  BY <1>4, AboutToLapseIsFinite DEF Tick, commands
<1>5. CASE Clear \/ Flush \/ (\E r \in failed : Forget(r)) \/ \E j \in Jobs, d \in Delays : Dispatch(j, d)
  BY <1>5, <1>1 DEF Clear, Flush, Forget, Discard, Dispatch
<1>6. ASSUME NEW a \in Admins, AdminStep(a)
      PROVE  CommandsOK'
  <2>1. ASSUME NEW S \in SUBSET failed, RetryLoad(a, S)
        PROVE  CommandsOK'
    BY <2>1 DEF RetryLoad
  <2>2. ASSUME NEW r \in batch[a], RetryDispatch(a, r)
        PROVE  CommandsOK'
    BY <2>2 DEF RetryDispatch
  <2>3. CASE RetryForget(a) \/ RetryCrash(a)
    BY <2>3 DEF RetryForget, RetryCrash
  <2> QED
    BY <1>6, <2>1, <2>2, <2>3 DEF AdminStep
<1> QED
  BY <1>2, <1>3, <1>4, <1>5, <1>6 DEF Next, Proceed

LEMMA HistoryStep ==
  ASSUME TypeOK, Next
  PROVE  HistoryOK'
<1> USE NoJobAssumption DEF TypeOK, TableOK, HistoryOK
<1>1. ASSUME UNCHANGED history
      PROVE  HistoryOK'
  BY <1>1 DEF history
<1>2. ASSUME NEW w \in Workers, WorkerStep(w)
      PROVE  HistoryOK'
  <2>1. CASE StartHandler(w)
    <3>1. held[w] \in Held
      BY <2>1, HeldByBusy DEF StartHandler
    <3> QED
      BY <2>1, <3>1 DEF StartHandler, RunOf
  <2>2. CASE RunFailedHooks(w)
    <3>1. held[w] \in Held
      BY <2>2, HeldByBusy DEF RunFailedHooks
    <3> QED
      BY <2>2, <3>1 DEF RunFailedHooks, RecordOf
  <2>3. CASE \/ Start(w) \/ Reject(w) \/ Acknowledge(w) \/ Persist(w) \/ Delete(w)
             \/ \E d \in Delays : Release(w, d)
    BY <2>3, <1>1 DEF Start, Reject, Acknowledge, Persist, Delete, Release
  <2> QED
    BY <1>2, <2>1, <2>2, <2>3 DEF WorkerStep
<1>3. ASSUME NEW w \in Workers, HandlerReturns(w)
      PROVE  HistoryOK'
  <2>1. held[w] \in Held
    BY <1>3, HeldByBusy DEF HandlerReturns
  <2> QED
    BY <1>3, <2>1 DEF HandlerReturns
<1>4. ASSUME NEW w \in Workers,
             \/ HandlerReleases(w) \/ HandlerThrows(w) \/ TimesOut(w) \/ Stop(w) \/ Crash(w)
             \/ \E j \in Jobs : Reserve(w, j)
      PROVE  HistoryOK'
  BY <1>4, <1>1 DEF HandlerReleases, HandlerThrows, TimesOut, Stop, Crash, Reserve
<1>5. CASE Tick
  BY <1>5, <1>1 DEF Tick
<1>6. CASE Clear
  BY <1>6 DEF Clear, Clearable
<1>7. CASE Flush \/ \E r \in failed : Forget(r)
  BY <1>7 DEF Flush, Forget, Discard
<1>8. CASE \E j \in Jobs, d \in Delays : Dispatch(j, d)
  BY <1>8 DEF Dispatch, Insert
<1>9. ASSUME NEW a \in Admins, AdminStep(a)
      PROVE  HistoryOK'
  <2>1. ASSUME NEW r \in batch[a], RetryDispatch(a, r)
        PROVE  HistoryOK'
    <3>1. r \in Record
      BY DEF CommandsOK
    <3> QED
      BY <2>1, <3>1 DEF RetryDispatch, Insert
  <2>2. CASE (\E S \in SUBSET failed : RetryLoad(a, S)) \/ RetryForget(a) \/ RetryCrash(a)
    BY <2>2, <1>1 DEF RetryLoad, RetryForget, RetryCrash
  <2> QED
    BY <1>9, <2>1, <2>2 DEF AdminStep
<1> QED
  BY <1>2, <1>3, <1>4, <1>5, <1>6, <1>7, <1>8, <1>9 DEF Next, Proceed, HandlerSettles

(* Every variable keeps its type, and workers hold jobs exactly where they
   should, in every run of the queue. *)
THEOREM TypeCorrect == Spec => []TypeOK
<1>1. ASSUME TypeOK, [Next]_vars
      PROVE  TypeOK'
  <2>1. CASE Next
    BY <1>1, <2>1, TableStep, WorkersStep, CommandsStep, HistoryStep DEF TypeOK
  <2>2. CASE UNCHANGED vars
    BY <1>1, <2>2 DEF vars, table, worker, commands, history,
                      TypeOK, TableOK, WorkersOK, CommandsOK, HistoryOK
  <2> QED
    BY <1>1, <2>1, <2>2
<1> QED
  BY InitTypeOK, <1>1, PTL DEF Spec

-------------------------------------------------------------------------------
(* Exclusive leases *)

(* No worker gains a reservation in the step; those that keep one keep it as is. *)
KeepsHolding ==
    \A w \in Workers : pc'[w] \in Holding =>
      /\ pc[w] \in Holding
      /\ held'[w] = held[w]
      /\ clock'[w] = clock[w]

LEMMA KeptNumbers ==
  ASSUME TypeOK, LeaseInv, KeepsHolding, UNCHANGED issued,
         \A j \in Jobs : reservation'[j] \in {0, reservation[j]}
  PROVE  LeaseNumbers' /\ LeaseUnique'
<1> USE DEF LeaseInv, TypeOK, TableOK, WorkersOK, KeepsHolding
<1>1. \A j \in Jobs : reservation'[j] \in {0, issued'[j]}
  BY DEF LeaseNumbers
<1>2. \A w \in Workers : pc'[w] \in Holding => held'[w].lease \in 1 .. issued'[held'[w].job]
  BY DEF LeaseNumbers
<1>3. LeaseUnique'
  BY DEF LeaseUnique
<1> QED
  BY <1>1, <1>2, <1>3 DEF LeaseNumbers

LEMMA QuietLeases ==
  ASSUME TypeOK, LeaseInv, KeepsHolding, UNCHANGED <<stored, reservation, age, issued, epoch>>
  PROVE  LeaseInv'
<1>1. LeaseNumbers' /\ LeaseUnique'
  BY KeptNumbers DEF TypeOK, TableOK
<1>2. DispatchNumbers'
  BY DEF LeaseInv, DispatchNumbers, KeepsHolding, Matches
<1>3. LeaseHeld'
  BY DEF LeaseInv, LeaseHeld, KeepsHolding, Matches
<1> QED
  BY <1>1, <1>2, <1>3 DEF LeaseInv

LEMMA InsertLeases ==
  ASSUME TypeOK, LeaseInv, KeepsHolding, NEW j \in Jobs \ stored, NEW d \in Nat, Insert(j, d)
  PROVE  LeaseInv'
<1> USE DEF TypeOK, TableOK, WorkersOK, HistoryOK, Insert
<1>1. LeaseNumbers' /\ LeaseUnique'
  BY KeptNumbers
<1>2. ASSUME NEW w \in Workers, pc'[w] \in Holding
      PROVE  /\ held'[w] = held[w] /\ held[w] \in Held /\ held[w].lease >= 1
             /\ held[w].job = j => ~Matches(held[w]) /\ ~Matches(held[w])'
  <2>1. pc[w] \in Holding /\ held'[w] = held[w]
    BY <1>2 DEF KeepsHolding
  <2>2. held[w] \in Held
    BY <2>1, HeldByBusy
  <2>3. held[w].lease >= 1
    BY <2>1, <2>2 DEF LeaseInv, LeaseNumbers
  <2> QED
    BY <2>1, <2>2, <2>3 DEF Matches
<1>3. DispatchNumbers'
  <2>1. \A k \in stored' : epoch'[k] >= 1
    BY DEF LeaseInv, DispatchNumbers
  <2>2. ASSUME NEW w \in Workers, pc'[w] \in Holding
        PROVE  /\ held'[w].epoch <= epoch'[held'[w].job]
               /\ Matches(held[w])' => held'[w].epoch = epoch'[held'[w].job]
    <3>1. CASE held[w].job = j
      BY <2>2, <3>1, <1>2 DEF LeaseInv, DispatchNumbers, KeepsHolding
    <3>2. CASE held[w].job # j
      BY <2>2, <3>2, <1>2 DEF LeaseInv, DispatchNumbers, KeepsHolding, Matches
    <3> QED
      BY <3>1, <3>2
  <2> QED
    BY <2>1, <2>2 DEF DispatchNumbers
<1>4. LeaseHeld'
  <2>1. ASSUME NEW w \in Workers, pc'[w] \in Holding, clock'[w] < RetryAfter
        PROVE  Matches(held[w])' /\ age'[held'[w].job] = clock'[w]
    <3>1. pc[w] \in Holding /\ clock'[w] = clock[w] /\ held'[w] = held[w]
      BY <2>1 DEF KeepsHolding
    <3>2. Matches(held[w]) /\ age[held[w].job] = clock[w]
      BY <2>1, <3>1 DEF LeaseInv, LeaseHeld
    <3>3. held[w].job # j
      BY <3>2, <2>1, <1>2
    <3> QED
      BY <3>1, <3>2, <3>3, <1>2, <2>1 DEF Matches
  <2> QED
    BY <2>1 DEF LeaseHeld
<1> QED
  BY <1>1, <1>3, <1>4 DEF LeaseInv

(* A row disappears, or its reservation is given up, by the hand of worker v,
   whose reservation it carried: nobody else's holds. *)
LEMMA SettleLeases ==
  ASSUME TypeOK, LeaseInv, KeepsHolding, NEW v \in Workers,
         pc[v] \in Holding, pc'[v] \notin Holding,
         UNCHANGED <<issued, epoch>>, stored' \subseteq stored,
         \A j \in Jobs : reservation'[j] \in {0, reservation[j]},
         \A j \in Jobs : j # held[v].job \/ ~Matches(held[v]) =>
           (j \in stored' <=> j \in stored) /\ reservation'[j] = reservation[j] /\ age'[j] = age[j]
  PROVE  LeaseInv'
<1> USE DEF TypeOK, TableOK, WorkersOK, HistoryOK
<1>1. LeaseNumbers' /\ LeaseUnique'
  BY KeptNumbers
<1>2. ASSUME NEW w \in Workers, pc'[w] \in Holding
      PROVE  /\ w # v /\ pc[w] \in Holding
             /\ held'[w] = held[w] /\ clock'[w] = clock[w]
             /\ held[w] \in Held /\ held[w].lease >= 1
             /\ Matches(held[w])' => Matches(held[w])
             /\ Matches(held[w]) =>
                  Matches(held[w])' /\ age'[held[w].job] = age[held[w].job]
  <2>1. w # v /\ pc[w] \in Holding /\ held'[w] = held[w] /\ clock'[w] = clock[w]
    BY <1>2 DEF KeepsHolding
  <2>2. held[w] \in Held
    BY <2>1, HeldByBusy
  <2>3. held[w].lease >= 1
    BY <2>1, <2>2 DEF LeaseInv, LeaseNumbers
  <2>4. held[w].job = held[v].job => held[w].lease # held[v].lease
    BY <2>1 DEF LeaseInv, LeaseUnique
  <2>5. Matches(held[w])' => Matches(held[w])
    BY <2>1, <2>2, <2>3 DEF Matches
  <2>6. Matches(held[w]) => Matches(held[w])' /\ age'[held[w].job] = age[held[w].job]
    BY <2>1, <2>2, <2>4 DEF Matches
  <2> QED
    BY <2>1, <2>2, <2>3, <2>5, <2>6
<1>3. DispatchNumbers'
  BY <1>2 DEF LeaseInv, DispatchNumbers
<1>4. LeaseHeld'
  BY <1>2 DEF LeaseInv, LeaseHeld
<1> QED
  BY <1>1, <1>3, <1>4 DEF LeaseInv

LEMMA Saturated ==
  ASSUME NEW m \in Nat, NEW c \in 0 .. m, ~(c < m)
  PROVE  c = m
OBVIOUS

LEMMA ReserveLeases ==
  ASSUME TypeOK, LeaseInv, NEW v \in Workers, NEW j \in Jobs, Reserve(v, j)
  PROVE  LeaseInv'
<1> USE ConstantsAssumption DEF TypeOK, TableOK, WorkersOK, HistoryOK
<1> DEFINE h == [job |-> j, epoch |-> epoch[j], lease |-> issued[j] + 1, attempt |-> attempts[j] + 1]
<1>1. /\ held' = [held EXCEPT ![v] = h] /\ h \in Held
      /\ pc' = [pc EXCEPT ![v] = "reserved"] /\ clock' = [clock EXCEPT ![v] = 0]
      /\ reservation' = [reservation EXCEPT ![j] = issued[j] + 1]
      /\ issued' = [issued EXCEPT ![j] = @ + 1] /\ age' = [age EXCEPT ![j] = 0]
      /\ UNCHANGED <<stored, epoch>> /\ Available(j)
  BY DEF Reserve, history
<1>2. ASSUME NEW w \in Workers, w # v, pc'[w] \in Holding
      PROVE  /\ pc[w] \in Holding /\ held'[w] = held[w] /\ clock'[w] = clock[w]
             /\ held[w] \in Held /\ held[w].lease \in 1 .. issued[held[w].job]
             /\ held[w].job = j => held[w].lease < h.lease
             /\ held[w].job = j => (clock[w] = RetryAfter /\ ~Matches(held[w])')
  <2>1. pc[w] \in Holding /\ held'[w] = held[w] /\ clock'[w] = clock[w]
    BY <1>1, <1>2
  <2>2. held[w] \in Held
    BY <2>1, HeldByBusy
  <2>3. held[w].lease \in 1 .. issued[held[w].job]
    BY <2>1 DEF LeaseInv, LeaseNumbers
  <2>4. held[w].job = j => held[w].lease < h.lease
    BY <2>2, <2>3
  <2>5. held[w].job = j => ~Matches(held[w])'
    BY <1>1, <2>1, <2>2, <2>4 DEF Matches
  <2>6. ASSUME held[w].job = j
        PROVE  clock[w] = RetryAfter
    <3>1. clock[w] \in 0 .. RetryAfter /\ RetryAfter \in Nat
      BY ConstantsAssumption DEF TypeOK, WorkersOK
    <3>2. ~(clock[w] < RetryAfter)
      <4> SUFFICES ASSUME clock[w] < RetryAfter
                   PROVE  FALSE
        OBVIOUS
      <4>1. reservation[j] = held[w].lease /\ age[j] = clock[w]
        BY <2>1, <2>6 DEF LeaseInv, LeaseHeld, Matches
      <4> QED
        BY <1>1, <2>3, <2>6, <4>1 DEF Available
    <3> QED
      BY <3>1, <3>2, Saturated
  <2> QED
    BY <2>1, <2>2, <2>3, <2>4, <2>5, <2>6
<1>3. held'[v] = h /\ Matches(held[v])' /\ age'[j] = clock'[v]
  BY <1>1 DEF Available, Matches
<1>4. LeaseNumbers'
  <2>1. \A k \in Jobs : reservation'[k] \in {0, issued'[k]}
    BY <1>1 DEF LeaseInv, LeaseNumbers
  <2>2. ASSUME NEW w \in Workers, pc'[w] \in Holding
        PROVE  held'[w].lease \in 1 .. issued'[held'[w].job]
    BY <1>1, <1>2, <1>3, <2>2
  <2> QED
    BY <2>1, <2>2 DEF LeaseNumbers
<1>5. DispatchNumbers'
  <2>1. ASSUME NEW w \in Workers, w # v, pc'[w] \in Holding
        PROVE  /\ held'[w].epoch <= epoch'[held'[w].job]
               /\ Matches(held[w])' => held'[w].epoch = epoch'[held'[w].job]
    <3>1. CASE held[w].job = j
      BY <2>1, <1>1, <1>2, <3>1 DEF LeaseInv, DispatchNumbers
    <3>2. CASE held[w].job # j
      <4>1. Matches(held[w])' => Matches(held[w])
        BY <2>1, <1>1, <1>2, <3>2 DEF Matches
      <4> QED
        BY <2>1, <1>1, <1>2, <4>1 DEF LeaseInv, DispatchNumbers
    <3> QED
      BY <3>1, <3>2
  <2>2. held'[v].epoch <= epoch'[held'[v].job] /\ held'[v].epoch = epoch'[held'[v].job]
    BY <1>1, <1>3
  <2> QED
    BY <1>1, <2>1, <2>2 DEF LeaseInv, DispatchNumbers
<1>6. LeaseUnique'
  <2>1. ASSUME NEW u \in Workers, NEW w \in Workers, u # w,
               pc'[u] \in Holding, pc'[w] \in Holding, held'[u].job = held'[w].job
        PROVE  held'[u].lease # held'[w].lease
    <3>1. CASE u = v
      BY <2>1, <3>1, <1>1, <1>2, <1>3
    <3>2. CASE w = v
      BY <2>1, <3>2, <1>1, <1>2, <1>3
    <3>3. CASE u # v /\ w # v
      BY <2>1, <3>3, <1>2 DEF LeaseInv, LeaseUnique
    <3> QED
      BY <3>1, <3>2, <3>3
  <2> QED
    BY <2>1 DEF LeaseUnique
<1>7. LeaseHeld'
  <2>1. ASSUME NEW w \in Workers, w # v, pc'[w] \in Holding, clock'[w] < RetryAfter
        PROVE  Matches(held[w])' /\ age'[held'[w].job] = clock'[w]
    <3>1. held[w].job # j
      BY <2>1, <1>2
    <3>2. Matches(held[w]) /\ age[held[w].job] = clock[w]
      BY <2>1, <1>2 DEF LeaseInv, LeaseHeld
    <3> QED
      BY <1>1, <1>2, <2>1, <3>1, <3>2 DEF Matches
  <2> QED
    BY <2>1, <1>1, <1>3 DEF LeaseHeld
<1> QED
  BY <1>4, <1>5, <1>6, <1>7 DEF LeaseInv

LEMMA TickLeases ==
  ASSUME TypeOK, LeaseInv, Tick
  PROVE  LeaseInv'
<1> USE ConstantsAssumption DEF TypeOK, TableOK, WorkersOK, HistoryOK
<1>1. UNCHANGED <<stored, reservation, issued, pc, held, epoch>>
  BY DEF Tick, history
<1>2. LeaseNumbers' /\ DispatchNumbers' /\ LeaseUnique'
  BY <1>1 DEF LeaseInv, LeaseNumbers, DispatchNumbers, LeaseUnique, Matches
<1>3. ASSUME NEW w \in Workers, pc[w] \in Holding, clock'[w] < RetryAfter
      PROVE  Matches(held[w])' /\ age'[held'[w].job] = clock'[w]
  <2>1. clock[w] < RetryAfter /\ clock'[w] = AtMost(clock[w] + 1, RetryAfter)
    BY <1>3 DEF Tick, AtMost
  <2>2. held[w] \in Held
    BY <1>3, HeldByBusy
  <2>3. Matches(held[w]) /\ age[held[w].job] = clock[w] /\ held[w].lease >= 1
    BY <1>3, <2>1, <2>2 DEF LeaseInv, LeaseHeld, LeaseNumbers
  <2>4. age'[held[w].job] = AtMost(age[held[w].job] + 1, RetryAfter)
    BY <2>2, <2>3 DEF Tick, Matches
  <2> QED
    BY <1>1, <2>1, <2>3, <2>4 DEF Matches
<1> QED
  BY <1>1, <1>2, <1>3 DEF LeaseInv, LeaseHeld

LEMMA ClearLeases ==
  ASSUME TypeOK, LeaseInv, Clear
  PROVE  LeaseInv'
<1> USE DEF TypeOK, TableOK, WorkersOK, HistoryOK
<1>1. UNCHANGED <<reservation, age, issued, pc, held, clock, epoch>> /\ stored' = stored \ Clearable
  BY DEF Clear, worker
<1>2. LeaseNumbers' /\ DispatchNumbers' /\ LeaseUnique'
  BY <1>1 DEF LeaseInv, LeaseNumbers, DispatchNumbers, LeaseUnique, Matches
<1>3. ASSUME NEW w \in Workers, pc[w] \in Holding, clock[w] < RetryAfter
      PROVE  Matches(held[w])' /\ age'[held'[w].job] = clock'[w]
  <2>1. held[w] \in Held
    BY <1>3, HeldByBusy
  <2>2. Matches(held[w]) /\ age[held[w].job] = clock[w] /\ held[w].lease >= 1
    BY <1>3, <2>1 DEF LeaseInv, LeaseHeld, LeaseNumbers
  <2>3. held[w].job \notin Clearable
    BY <1>3, <2>1, <2>2 DEF Clearable, Matches
  <2> QED
    BY <1>1, <2>2, <2>3 DEF Matches
<1> QED
  BY <1>1, <1>2, <1>3 DEF LeaseInv, LeaseHeld

LEMMA LeaseStep ==
  ASSUME TypeOK, LeaseInv, Next
  PROVE  LeaseInv'
<1> USE ConstantsAssumption DEF TypeOK, TableOK, WorkersOK, CommandsOK, HistoryOK
<1>1. CASE \E j \in Jobs, d \in Delays : Dispatch(j, d)
  <2>1. PICK j \in Jobs, d \in Delays : Dispatch(j, d)
    BY <1>1
  <2>2. KeepsHolding /\ Insert(j, d) /\ d \in Nat /\ j \notin stored
    BY <2>1 DEF Dispatch, worker, KeepsHolding, LeaseInv, DispatchNumbers
  <2> QED
    BY <2>2, InsertLeases
<1>2. ASSUME NEW w \in Workers, WorkerStep(w)
      PROVE  LeaseInv'
  <2>1. CASE Start(w) \/ Reject(w) \/ StartHandler(w) \/ Persist(w) \/ RunFailedHooks(w)
    <3>1. KeepsHolding /\ UNCHANGED <<stored, reservation, age, issued, epoch>>
      BY <2>1 DEF Start, Reject, StartHandler, Persist, RunFailedHooks, LetGo, Fails, table, history,
                  KeepsHolding
    <3> QED
      BY <3>1, QuietLeases
  <2>2. CASE Acknowledge(w) \/ Delete(w)
    <3>1. /\ KeepsHolding /\ pc[w] \in Holding /\ pc'[w] \notin Holding
          /\ DeleteMatching(held[w]) /\ UNCHANGED epoch
      BY <2>2 DEF Acknowledge, Delete, LetGo, history, KeepsHolding
    <3>2. held[w] \in Held
      BY <3>1, HeldByBusy
    <3> QED
      BY <3>1, <3>2, SettleLeases DEF DeleteMatching
  <2>3. ASSUME NEW d \in Delays, Release(w, d)
        PROVE  LeaseInv'
    <3>1. /\ KeepsHolding /\ pc[w] \in Holding /\ pc'[w] \notin Holding
          /\ UNCHANGED <<stored, issued, epoch>>
      BY <2>3 DEF Release, LetGo, history, KeepsHolding
    <3>2. held[w] \in Held
      BY <3>1, HeldByBusy
    <3>3. /\ \A j \in Jobs : reservation'[j] \in {0, reservation[j]}
          /\ \A j \in Jobs : j # held[w].job \/ ~Matches(held[w]) =>
               (j \in stored' <=> j \in stored) /\ reservation'[j] = reservation[j] /\ age'[j] = age[j]
      BY <2>3, <3>1, <3>2 DEF Release
    <3> QED
      BY <3>1, <3>3, SettleLeases
  <2> QED
    BY <1>2, <2>1, <2>2, <2>3 DEF WorkerStep
<1>3. ASSUME NEW w \in Workers, NEW j \in Jobs, Reserve(w, j)
      PROVE  LeaseInv'
  BY <1>3, ReserveLeases
<1>4. ASSUME NEW w \in Workers, HandlerSettles(w) \/ TimesOut(w) \/ Stop(w) \/ Crash(w)
      PROVE  LeaseInv'
  <2>1. KeepsHolding /\ UNCHANGED <<stored, reservation, age, issued, epoch>>
    BY <1>4 DEF HandlerSettles, HandlerReturns, HandlerReleases, HandlerThrows, TimesOut, Timed, Stop,
                Crash, LetGo, Fails, table, history, KeepsHolding
  <2> QED
    BY <2>1, QuietLeases
<1>5. CASE Tick
  BY <1>5, TickLeases
<1>6. CASE Clear
  BY <1>6, ClearLeases
<1>7. ASSUME NEW a \in Admins, AdminStep(a)
      PROVE  LeaseInv'
  <2>1. ASSUME NEW r \in batch[a], RetryDispatch(a, r), r.job \notin stored
        PROVE  LeaseInv'
    <3>1. KeepsHolding /\ Insert(r.job, 0) /\ r.job \in Jobs \ stored
      BY <2>1 DEF RetryDispatch, worker, KeepsHolding
    <3> QED
      BY <3>1, InsertLeases
  <2>2. ASSUME \/ \E S \in SUBSET failed : RetryLoad(a, S)
               \/ \E r \in batch[a] : RetryDispatch(a, r) /\ r.job \in stored
               \/ RetryForget(a) \/ RetryCrash(a)
        PROVE  LeaseInv'
    <3>1. KeepsHolding /\ UNCHANGED <<stored, reservation, age, issued, epoch>>
      BY <2>2 DEF RetryLoad, RetryDispatch, RetryForget, RetryCrash, table, worker, history, KeepsHolding
    <3> QED
      BY <3>1, QuietLeases
  <2> QED
    BY <1>7, <2>1, <2>2 DEF AdminStep
<1>8. CASE Flush \/ \E r \in failed : Forget(r)
  <2>1. KeepsHolding /\ UNCHANGED <<stored, reservation, age, issued, epoch>>
    BY <1>8 DEF Flush, Forget, Discard, table, worker, KeepsHolding
  <2> QED
    BY <2>1, QuietLeases
<1> QED
  BY <1>1, <1>2, <1>3, <1>4, <1>5, <1>6, <1>7, <1>8 DEF Next, Proceed

LEMMA LeaseInductive == Spec => []LeaseInv
<1>1. Init => LeaseInv
  BY DEF Init, LeaseInv, LeaseNumbers, DispatchNumbers, LeaseUnique, LeaseHeld
<1>2. ASSUME TypeOK, LeaseInv, [Next]_vars
      PROVE  LeaseInv'
  <2>1. CASE UNCHANGED vars
    BY <1>2, <2>1 DEF vars, table, worker, history, LeaseInv, LeaseNumbers, DispatchNumbers,
                      LeaseUnique, LeaseHeld, Matches
  <2> QED
    BY <1>2, <2>1, LeaseStep
<1> QED
  BY <1>1, <1>2, TypeCorrect, PTL DEF Spec

(* For retryAfter after it reserved a job, a worker owns the job's row alone,
   and a superseded reservation can never touch the row again. *)
THEOREM ExclusiveLease == Spec => [](LeaseUnique /\ LeaseHeld)
<1>1. LeaseInv => LeaseUnique /\ LeaseHeld
  BY DEF LeaseInv
<1> QED
  BY <1>1, LeaseInductive, PTL

-------------------------------------------------------------------------------
(* Attempts *)

KeepsRuns ==
    /\ KeepsHolding
    /\ \A w \in Workers : pc'[w] = "reserved" => pc[w] = "reserved"

LEMMA QuietAttempts ==
  ASSUME TypeOK, AttemptInv, KeepsRuns, UNCHANGED <<attempts, epoch, ran>>
  PROVE  AttemptInv'
BY DEF AttemptInv, KeepsRuns, KeepsHolding, RunOf

LEMMA InsertAttempts ==
  ASSUME TypeOK, LeaseInv, AttemptInv, KeepsRuns, UNCHANGED ran,
         NEW j \in Jobs, NEW d \in Nat, Insert(j, d)
  PROVE  AttemptInv'
<1> USE DEF TypeOK, TableOK, WorkersOK, HistoryOK, KeepsRuns, KeepsHolding
<1>1. attempts' = [attempts EXCEPT ![j] = 0] /\ epoch' = [epoch EXCEPT ![j] = @ + 1]
  BY DEF Insert
<1>2. ASSUME NEW r \in ran
      PROVE  r.epoch <= epoch'[r.job] /\ (r.epoch = epoch'[r.job] => r.attempt <= attempts'[r.job])
  <2>1. r \in Run /\ r.epoch <= epoch[r.job]
    BY DEF AttemptInv
  <2> QED
    BY <1>1, <2>1 DEF AttemptInv
<1>3. ASSUME NEW w \in Workers, pc'[w] \in Holding, held'[w].epoch = epoch'[held'[w].job]
      PROVE  held'[w].attempt <= attempts'[held'[w].job]
  <2>1. held[w] \in Held /\ held'[w] = held[w] /\ pc[w] \in Holding
    BY <1>3, HeldByBusy
  <2>2. held[w].epoch <= epoch[held[w].job]
    BY <2>1 DEF LeaseInv, DispatchNumbers
  <2> QED
    BY <1>1, <1>3, <2>1, <2>2 DEF AttemptInv
<1> QED
  BY <1>2, <1>3 DEF AttemptInv, RunOf

LEMMA StartHandlerAttempts ==
  ASSUME TypeOK, LeaseInv, AttemptInv, NEW v \in Workers, StartHandler(v)
  PROVE  AttemptInv'
<1>1. /\ pc[v] = "reserved" /\ pc' = [pc EXCEPT ![v] = "running"]
      /\ ran' = ran \cup {RunOf(held[v])} /\ UNCHANGED <<attempts, held, epoch>>
  BY DEF StartHandler, table
<1>2. held[v] \in Held
  BY <1>1, HeldByBusy
<1>3. RunOf(held[v]).epoch <= epoch[RunOf(held[v]).job]
  BY <1>1, <1>2 DEF LeaseInv, DispatchNumbers, RunOf
<1>4. RunOf(held[v]).epoch = epoch[RunOf(held[v]).job] =>
        RunOf(held[v]).attempt <= attempts[RunOf(held[v]).job]
  BY <1>1, <1>2 DEF AttemptInv, RunOf
<1>5. ASSUME NEW w \in Workers, pc'[w] = "reserved"
      PROVE  RunOf(held'[w]) \notin ran'
  <2>1. w # v /\ pc[w] = "reserved"
    BY <1>1, <1>5 DEF TypeOK, WorkersOK
  <2>2. RunOf(held[w]) \notin ran /\ RunOf(held[w]) # RunOf(held[v])
    BY <1>1, <2>1 DEF AttemptInv
  <2> QED
    BY <1>1, <2>2
<1>6. ASSUME NEW w \in Workers, pc'[w] \in Holding
      PROVE  pc[w] \in Holding
  BY <1>1, <1>6 DEF TypeOK, WorkersOK
<1>7. \A r \in ran' : /\ r.epoch <= epoch'[r.job]
                      /\ r.epoch = epoch'[r.job] => r.attempt <= attempts'[r.job]
  BY <1>1, <1>3, <1>4 DEF AttemptInv
<1>8. \A w \in Workers : pc'[w] \in Holding =>
        (held'[w].epoch = epoch'[held'[w].job] => held'[w].attempt <= attempts'[held'[w].job])
  BY <1>1, <1>6 DEF AttemptInv
<1>9. \A u, w \in Workers : (u # w /\ pc'[u] \in Holding /\ pc'[w] \in Holding)
                              => RunOf(held'[u]) # RunOf(held'[w])
  BY <1>1, <1>6 DEF AttemptInv
<1> QED
  BY <1>5, <1>7, <1>8, <1>9 DEF AttemptInv, RunOf

LEMMA ReserveAttempts ==
  ASSUME TypeOK, LeaseInv, AttemptInv, NEW v \in Workers, NEW j \in Jobs, Reserve(v, j)
  PROVE  AttemptInv'
<1> DEFINE h == [job |-> j, epoch |-> epoch[j], lease |-> issued[j] + 1, attempt |-> attempts[j] + 1]
<1>1. /\ held' = [held EXCEPT ![v] = h] /\ pc' = [pc EXCEPT ![v] = "reserved"]
      /\ attempts' = [attempts EXCEPT ![j] = @ + 1] /\ UNCHANGED <<epoch, ran>>
  BY DEF Reserve, history
<1>2. held'[v] = h /\ attempts[j] \in Nat /\ epoch[j] \in Nat
  BY <1>1 DEF TypeOK, WorkersOK, TableOK, HistoryOK
<1>3. ASSUME NEW r \in ran
      PROVE  /\ r.epoch <= epoch'[r.job]
             /\ r.epoch = epoch'[r.job] => r.attempt <= attempts'[r.job]
             /\ RunOf(h) # r
  <2>1. r \in Run
    BY DEF TypeOK, HistoryOK
  <2>2. r.epoch <= epoch[r.job] /\ (r.epoch = epoch[r.job] => r.attempt <= attempts[r.job])
    BY DEF AttemptInv
  <2> QED
    BY <1>1, <1>2, <2>1, <2>2 DEF RunOf, TypeOK, TableOK
<1>4. ASSUME NEW w \in Workers, w # v, pc'[w] \in Holding
      PROVE  /\ pc[w] \in Holding /\ held'[w] = held[w] /\ pc'[w] = pc[w]
             /\ held[w].epoch = epoch[held[w].job] => held[w].attempt <= attempts'[held[w].job]
             /\ RunOf(held[w]) # RunOf(h)
  <2>1. pc[w] \in Holding /\ held'[w] = held[w] /\ pc'[w] = pc[w]
    BY <1>1, <1>4 DEF TypeOK, WorkersOK
  <2>2. held[w] \in Held
    BY <2>1, HeldByBusy
  <2>3. held[w].epoch = epoch[held[w].job] => held[w].attempt <= attempts[held[w].job]
    BY <2>1 DEF AttemptInv
  <2> QED
    BY <1>1, <1>2, <2>1, <2>2, <2>3 DEF RunOf, TypeOK, TableOK
<1>5. \A r \in ran' : /\ r.epoch <= epoch'[r.job]
                      /\ r.epoch = epoch'[r.job] => r.attempt <= attempts'[r.job]
  BY <1>1, <1>3
<1>6. h.attempt <= attempts'[h.job]
  BY <1>1, <1>2 DEF TypeOK, TableOK
<1>7. \A w \in Workers : pc'[w] \in Holding =>
        (held'[w].epoch = epoch'[held'[w].job] => held'[w].attempt <= attempts'[held'[w].job])
  BY <1>1, <1>2, <1>4, <1>6
<1>8. \A w \in Workers : pc'[w] = "reserved" => RunOf(held'[w]) \notin ran'
  BY <1>1, <1>2, <1>3, <1>4 DEF AttemptInv
<1>9. \A u, w \in Workers : (u # w /\ pc'[u] \in Holding /\ pc'[w] \in Holding)
                              => RunOf(held'[u]) # RunOf(held'[w])
  BY <1>2, <1>4 DEF AttemptInv
<1> QED
  BY <1>5, <1>7, <1>8, <1>9 DEF AttemptInv, RunOf

LEMMA AttemptStep ==
  ASSUME TypeOK, LeaseInv, AttemptInv, Next
  PROVE  AttemptInv'
<1> USE ConstantsAssumption DEF TypeOK, TableOK, WorkersOK, CommandsOK, HistoryOK
<1>1. CASE \E j \in Jobs, d \in Delays : Dispatch(j, d)
  <2>1. PICK j \in Jobs, d \in Delays : Dispatch(j, d)
    BY <1>1
  <2>2. KeepsRuns /\ Insert(j, d) /\ d \in Nat /\ UNCHANGED ran
    BY <2>1 DEF Dispatch, worker, KeepsRuns, KeepsHolding
  <2> QED
    BY <2>2, InsertAttempts
<1>2. ASSUME NEW w \in Workers, WorkerStep(w)
      PROVE  AttemptInv'
  <2>1. CASE StartHandler(w)
    BY <2>1, StartHandlerAttempts
  <2>2. CASE Start(w) \/ Reject(w) \/ Persist(w) \/ RunFailedHooks(w) \/ Acknowledge(w) \/ Delete(w)
             \/ \E d \in Delays : Release(w, d)
    <3>1. KeepsRuns /\ UNCHANGED <<attempts, epoch, ran>>
      BY <2>2 DEF Start, Reject, Persist, RunFailedHooks, Acknowledge, Delete, DeleteMatching, Release,
                  LetGo, Fails, table, history, KeepsRuns, KeepsHolding
    <3> QED
      BY <3>1, QuietAttempts
  <2> QED
    BY <1>2, <2>1, <2>2 DEF WorkerStep
<1>3. ASSUME NEW w \in Workers, NEW j \in Jobs, Reserve(w, j)
      PROVE  AttemptInv'
  BY <1>3, ReserveAttempts
<1>4. ASSUME NEW w \in Workers, HandlerSettles(w) \/ TimesOut(w) \/ Stop(w) \/ Crash(w)
      PROVE  AttemptInv'
  <2>1. KeepsRuns /\ UNCHANGED <<attempts, epoch, ran>>
    BY <1>4 DEF HandlerSettles, HandlerReturns, HandlerReleases, HandlerThrows, TimesOut, Timed, Stop,
                Crash, LetGo, Fails, table, history, KeepsRuns, KeepsHolding
  <2> QED
    BY <2>1, QuietAttempts
<1>5. CASE Tick
  BY <1>5 DEF Tick, history, AttemptInv, RunOf
<1>6. CASE Clear \/ Flush \/ \E r \in failed : Forget(r)
  <2>1. KeepsRuns /\ UNCHANGED <<attempts, epoch, ran>>
    BY <1>6 DEF Clear, Flush, Forget, Discard, table, worker, KeepsRuns, KeepsHolding
  <2> QED
    BY <2>1, QuietAttempts
<1>7. ASSUME NEW a \in Admins, AdminStep(a)
      PROVE  AttemptInv'
  <2>1. ASSUME NEW r \in batch[a], RetryDispatch(a, r), r.job \notin stored
        PROVE  AttemptInv'
    <3>1. KeepsRuns /\ Insert(r.job, 0) /\ r.job \in Jobs /\ UNCHANGED ran
      BY <2>1 DEF RetryDispatch, worker, KeepsRuns, KeepsHolding
    <3> QED
      BY <3>1, InsertAttempts
  <2>2. ASSUME \/ \E S \in SUBSET failed : RetryLoad(a, S)
               \/ \E r \in batch[a] : RetryDispatch(a, r) /\ r.job \in stored
               \/ RetryForget(a) \/ RetryCrash(a)
        PROVE  AttemptInv'
    <3>1. KeepsRuns /\ UNCHANGED <<attempts, epoch, ran>>
      BY <2>2 DEF RetryLoad, RetryDispatch, RetryForget, RetryCrash, table, worker, history,
                  KeepsRuns, KeepsHolding
    <3> QED
      BY <3>1, QuietAttempts
  <2> QED
    BY <1>7, <2>1, <2>2 DEF AdminStep
<1> QED
  BY <1>1, <1>2, <1>3, <1>4, <1>5, <1>6, <1>7 DEF Next, Proceed

LEMMA AttemptInductive == Spec => []AttemptInv
<1>1. Init => AttemptInv
  BY DEF Init, AttemptInv
<1>2. ASSUME TypeOK, LeaseInv, AttemptInv, [Next]_vars
      PROVE  AttemptInv'
  <2>1. CASE UNCHANGED vars
    BY <1>2, <2>1 DEF vars, table, worker, history, AttemptInv, RunOf
  <2> QED
    BY <1>2, <2>1, AttemptStep
<1> QED
  BY <1>1, <1>2, TypeCorrect, LeaseInductive, PTL DEF Spec

(* A dispatch never runs its handler twice under one attempt number, whatever
   crashes, timeouts and lapsed reservations come in between. *)
THEOREM AttemptsNeverRepeat == Spec => AttemptOnce
<1>1. AttemptInv =>
        \A w \in Workers : (pc[w] = "reserved" /\ pc'[w] = "running") => RunOf(held[w]) \notin ran
  BY DEF AttemptInv
<1> QED
  BY <1>1, AttemptInductive, PTL DEF AttemptOnce

-------------------------------------------------------------------------------
(* No dispatch is lost *)

(* What has been settled stays settled. *)
LEMMA SettledGrows ==
  ASSUME TypeOK, LossInv, Next
  PROVE  done \subseteq done' /\ failed \cup consumed \subseteq failed' \cup consumed'
<1> DEFINE Goal == done \subseteq done' /\ failed \cup consumed \subseteq failed' \cup consumed'
<1>1. ASSUME NEW w \in Workers,
             \/ WorkerStep(w) \/ HandlerSettles(w) \/ TimesOut(w) \/ Stop(w) \/ Crash(w)
             \/ \E j \in Jobs : Reserve(w, j)
      PROVE  Goal
  BY <1>1 DEF WorkerStep, Start, Reject, StartHandler, Acknowledge, Persist, Delete, RunFailedHooks,
              Release, HandlerSettles, HandlerReturns, HandlerReleases, HandlerThrows, TimesOut, Stop,
              Crash, Reserve, history
<1>2. CASE Tick \/ Clear \/ Flush \/ (\E r \in failed : Forget(r)) \/ \E j \in Jobs, d \in Delays : Dispatch(j, d)
  BY <1>2 DEF Tick, Clear, Flush, Forget, Discard, Dispatch, history
<1>3. ASSUME NEW a \in Admins, AdminStep(a)
      PROVE  Goal
  <2>1. CASE RetryForget(a)
    BY <2>1 DEF RetryForget, LossInv, history
  <2>2. CASE \/ \E S \in SUBSET failed : RetryLoad(a, S)
             \/ \E r \in batch[a] : RetryDispatch(a, r)
             \/ RetryCrash(a)
    BY <2>2 DEF RetryLoad, RetryDispatch, RetryCrash, history
  <2> QED
    BY <1>3, <2>1, <2>2 DEF AdminStep
<1> QED
  BY <1>1, <1>2, <1>3 DEF Next, Proceed

(* Every step leaves a row alone, or adds one, or removes one that is settled. *)
LEMMA NothingLostStep ==
  ASSUME TypeOK, LossInv, Next, FailedStore,
         \A j \in Jobs :
           \/ epoch'[j] = epoch[j] /\ (j \in stored => j \in stored' \/ Accounted(j, epoch[j])')
           \/ epoch'[j] = epoch[j] + 1 /\ j \notin stored /\ j \in stored'
  PROVE  \A j \in Jobs : \A e \in 1 .. epoch'[j] : Accounted(j, e)'
<1> SUFFICES ASSUME NEW j \in Jobs, NEW e \in 1 .. epoch'[j]
             PROVE  Accounted(j, e)'
  OBVIOUS
<1>1. epoch[j] \in Nat
  BY DEF TypeOK, HistoryOK
<1>2. CASE e \in 1 .. epoch[j] /\ ~(j \in stored /\ e = epoch[j])
  <2>1. Accounted(j, e)
    BY <1>2 DEF LossInv, NothingLost
  <2> QED
    BY <1>2, <2>1, SettledGrows DEF Accounted
<1>3. CASE j \in stored /\ e = epoch[j]
  BY <1>1, <1>3 DEF Accounted
<1>4. CASE e \notin 1 .. epoch[j]
  <2>1. epoch'[j] = epoch[j] + 1 /\ j \in stored'
    BY <1>4
  <2>2. e = epoch'[j]
    BY <1>1, <1>4, <2>1
  <2> QED
    BY <2>1, <2>2 DEF Accounted
<1> QED
  BY <1>2, <1>3, <1>4

(* A worker comes to its acknowledgement only from its handler, and to the deletion of a
   failed job only from the insertion of the record. *)
LEMMA Handover ==
  ASSUME TypeOK, Next, NEW w \in Workers
  PROVE  /\ pc'[w] = "acknowledging"
              => (pc[w] = "acknowledging" /\ held'[w] = held[w]) \/ HandlerReturns(w)
         /\ pc'[w] = "deleting" => (pc[w] = "deleting" /\ held'[w] = held[w]) \/ Persist(w)
<1> DEFINE Goal == /\ pc'[w] = "acknowledging"
                        => (pc[w] = "acknowledging" /\ held'[w] = held[w]) \/ HandlerReturns(w)
                   /\ pc'[w] = "deleting" => (pc[w] = "deleting" /\ held'[w] = held[w]) \/ Persist(w)
<1>1. pc \in [Workers -> Holding \cup {"stopped", "idle", "hooks"}] /\ held \in [Workers -> Held \cup {NoJob}]
  BY DEF TypeOK, WorkersOK
<1>2. CASE UNCHANGED <<pc, held>>
  BY <1>2
<1>3. ASSUME NEW v \in Workers, v # w => pc'[w] = pc[w] /\ held'[w] = held[w],
             v = w => pc'[w] \notin {"acknowledging", "deleting"}
      PROVE  Goal
  BY <1>3
<1>4. ASSUME NEW v \in Workers, Start(v) \/ Reject(v) \/ StartHandler(v) PROVE Goal
  BY <1>1, <1>3, <1>4 DEF Start, Reject, StartHandler, Fails
<1>5. ASSUME NEW v \in Workers, Acknowledge(v) \/ (\E d \in Delays : Release(v, d)) \/ RunFailedHooks(v)
      PROVE  Goal
  BY <1>1, <1>3, <1>5 DEF Acknowledge, Release, RunFailedHooks, LetGo
<1>6. ASSUME NEW v \in Workers, Persist(v) \/ Delete(v) PROVE Goal
  BY <1>1, <1>6 DEF Persist, Delete
<1>7. ASSUME NEW v \in Workers, NEW j \in Jobs, Reserve(v, j) PROVE Goal
  BY <1>1, <1>3, <1>7 DEF Reserve
<1>8. ASSUME NEW v \in Workers, HandlerSettles(v) PROVE Goal
  BY <1>1, <1>8 DEF HandlerSettles, HandlerReturns, HandlerReleases, HandlerThrows, Fails
<1>9. ASSUME NEW v \in Workers, TimesOut(v) \/ Stop(v) \/ Crash(v) PROVE Goal
  BY <1>1, <1>3, <1>9 DEF TimesOut, Stop, Crash, Fails, LetGo
<1>10. CASE \/ \E j \in Jobs, d \in Delays : Dispatch(j, d)
            \/ Tick \/ Clear \/ Flush \/ (\E r \in failed : Forget(r)) \/ \E a \in Admins : AdminStep(a)
  <2>1. UNCHANGED <<pc, held>>
    BY <1>10 DEF Dispatch, Tick, Clear, Flush, Forget, Discard, AdminStep, RetryLoad, RetryDispatch, RetryForget,
                 RetryCrash, worker
  <2> QED
    BY <1>2, <2>1
<1> QED
  BY <1>4, <1>5, <1>6, <1>7, <1>8, <1>9, <1>10 DEF Next, Proceed, WorkerStep

LEMMA LossStep ==
  ASSUME TypeOK, LeaseInv, LossInv, Next
  PROVE  LossInv'
<1> USE ConstantsAssumption DEF TypeOK, TableOK, WorkersOK, CommandsOK, HistoryOK
<1> DEFINE Kept(j) == \/ epoch'[j] = epoch[j] /\ (j \in stored => j \in stored' \/ Accounted(j, epoch[j])')
                      \/ epoch'[j] = epoch[j] + 1 /\ j \notin stored /\ j \in stored'
<1>1. ASSUME NEW w \in Workers, pc'[w] = "acknowledging"
      PROVE  <<held'[w].job, held'[w].epoch>> \in done'
  <2>1. CASE pc[w] = "acknowledging" /\ held'[w] = held[w]
    BY <2>1, SettledGrows DEF LossInv
  <2>2. CASE HandlerReturns(w)
    BY <2>2 DEF HandlerReturns
  <2>3. \/ pc[w] = "acknowledging" /\ held'[w] = held[w]
        \/ HandlerReturns(w)
    BY <1>1, Handover
  <2> QED
    BY <2>1, <2>2, <2>3
<1>2. ASSUME NEW w \in Workers, pc'[w] = "deleting", FailedStore
      PROVE  RecordOf(held'[w]) \in failed' \cup consumed'
  <2>1. CASE pc[w] = "deleting" /\ held'[w] = held[w]
    BY <1>2, <2>1, SettledGrows DEF LossInv
  <2>2. CASE Persist(w)
    BY <1>2, <2>2 DEF Persist
  <2>3. \/ pc[w] = "deleting" /\ held'[w] = held[w]
        \/ Persist(w)
    BY <1>2, Handover
  <2> QED
    BY <2>1, <2>2, <2>3
<1>3. ASSUME NEW a \in Admins
      PROVE  requeued'[a] \subseteq consumed'
  <2>1. requeued[a] \subseteq consumed
    BY DEF LossInv
  <2>2. CASE UNCHANGED requeued /\ consumed \subseteq consumed'
    BY <2>1, <2>2
  <2>3. ASSUME NEW b \in Admins, AdminStep(b)
        PROVE  requeued'[a] \subseteq consumed'
    BY <2>1, <2>3 DEF AdminStep, RetryLoad, RetryDispatch, RetryForget, RetryCrash, history
  <2>4. \/ UNCHANGED requeued /\ consumed \subseteq consumed'
        \/ \E b \in Admins : AdminStep(b)
    <3>1. ASSUME NEW w \in Workers,
                 \/ WorkerStep(w) \/ HandlerSettles(w) \/ TimesOut(w) \/ Stop(w) \/ Crash(w)
                 \/ \E j \in Jobs : Reserve(w, j)
          PROVE  UNCHANGED requeued /\ consumed \subseteq consumed'
      BY <3>1 DEF WorkerStep, Start, Reject, StartHandler, Acknowledge, Persist, Delete, RunFailedHooks,
                  Release, HandlerSettles, HandlerReturns, HandlerReleases, HandlerThrows, TimesOut, Stop,
                  Crash, Reserve, commands, history
    <3>2. ASSUME NEW j \in Jobs, NEW d \in Delays, Dispatch(j, d)
          PROVE  UNCHANGED requeued /\ consumed \subseteq consumed'
      BY <3>2 DEF Dispatch, commands
    <3>3. ASSUME Tick \/ Clear \/ Flush \/ \E r \in failed : Forget(r)
          PROVE  UNCHANGED requeued /\ consumed \subseteq consumed'
      BY <3>3 DEF Tick, Clear, Flush, Forget, Discard, commands, history
    <3> QED
      BY <3>1, <3>2, <3>3 DEF Next, Proceed
  <2> QED
    BY <2>2, <2>3, <2>4
<1>4. ASSUME FailedStore
      PROVE  \A j \in Jobs : Kept(j)
  <2>1. CASE UNCHANGED <<stored, epoch>>
    BY <2>1
  <2>2. ASSUME NEW j \in Jobs \ stored, NEW d \in Nat, Insert(j, d)
        PROVE  \A k \in Jobs : Kept(k)
    BY <2>2 DEF Insert
  <2>3. ASSUME NEW w \in Workers, Acknowledge(w) \/ Delete(w)
        PROVE  \A j \in Jobs : Kept(j)
    <3>1. /\ pc[w] \in {"acknowledging", "deleting"} /\ DeleteMatching(held[w])
          /\ UNCHANGED <<epoch, done, failed, consumed>>
      BY <2>3 DEF Acknowledge, Delete, history
    <3>2. held[w] \in Held
      BY <3>1, HeldByBusy
    <3>3. ASSUME NEW j \in Jobs, j = held[w].job, Matches(held[w])
          PROVE  Accounted(j, epoch[j])'
      <4>1. held[w].epoch = epoch[j] /\ epoch'[j] = epoch[j]
        BY <3>1, <3>3 DEF LeaseInv, DispatchNumbers
      <4>2. CASE pc[w] = "acknowledging"
        <5>1. <<j, epoch[j]>> \in done
          BY <3>3, <4>1, <4>2 DEF LossInv
        <5> QED
          BY <3>1, <4>1, <5>1 DEF Accounted
      <4>3. CASE pc[w] = "deleting"
        <5>1. RecordOf(held[w]) \in failed \cup consumed
          BY <1>4, <4>3 DEF LossInv
        <5>2. RecordOf(held[w]).job = j /\ RecordOf(held[w]).epoch = epoch[j]
          BY <3>2, <3>3, <4>1 DEF RecordOf
        <5> QED
          BY <3>1, <4>1, <5>1, <5>2 DEF Accounted
      <4> QED
        BY <3>1, <4>2, <4>3
    <3> QED
      BY <3>1, <3>2, <3>3 DEF DeleteMatching
  <2>4. CASE Clear
    BY <2>4 DEF Clear, Clearable, Accounted
  <2>5. CASE \E j \in Jobs, d \in Delays : Dispatch(j, d)
    BY <2>5, <2>2 DEF Dispatch, LeaseInv, DispatchNumbers
  <2>6. ASSUME NEW a \in Admins, AdminStep(a)
        PROVE  \A j \in Jobs : Kept(j)
    <3>1. ASSUME NEW r \in batch[a], RetryDispatch(a, r), r.job \notin stored
          PROVE  \A j \in Jobs : Kept(j)
      BY <3>1, <2>2 DEF RetryDispatch
    <3>2. ASSUME \/ \E S \in SUBSET failed : RetryLoad(a, S)
                 \/ \E r \in batch[a] : RetryDispatch(a, r) /\ r.job \in stored
                 \/ RetryForget(a) \/ RetryCrash(a)
          PROVE  \A j \in Jobs : Kept(j)
      BY <3>2, <2>1 DEF RetryLoad, RetryDispatch, RetryForget, RetryCrash, table, history
    <3> QED
      BY <2>6, <3>1, <3>2 DEF AdminStep
  <2>7. ASSUME NEW w \in Workers,
               \/ Start(w) \/ Reject(w) \/ StartHandler(w) \/ Persist(w) \/ RunFailedHooks(w)
               \/ \E d \in Delays : Release(w, d)
               \/ \E j \in Jobs : Reserve(w, j)
               \/ HandlerSettles(w) \/ TimesOut(w) \/ Stop(w) \/ Crash(w)
        PROVE  \A j \in Jobs : Kept(j)
    BY <2>7, <2>1 DEF Start, Reject, StartHandler, Persist, RunFailedHooks, Release, Reserve,
                HandlerSettles, HandlerReturns, HandlerReleases, HandlerThrows, TimesOut, Stop, Crash,
                table, history
  <2>8. CASE Tick \/ Flush \/ \E r \in failed : Forget(r)
    BY <2>8, <2>1 DEF Tick, Flush, Forget, Discard, table, history
  <2> QED
    BY <2>3, <2>4, <2>5, <2>6, <2>7, <2>8 DEF Next, Proceed, WorkerStep
<1>5. NothingLost'
  BY <1>4, NothingLostStep DEF NothingLost
<1> QED
  BY <1>1, <1>2, <1>3, <1>5 DEF LossInv

(* Every dispatch of a job stays in the table until it succeeded, was cleared,
   or has a failed job record. *)
THEOREM NoDispatchLost == Spec => []NothingLost
<1>1. Init => LossInv
  BY DEF Init, LossInv, NothingLost
<1>2. ASSUME TypeOK, LeaseInv, LossInv, [Next]_vars
      PROVE  LossInv'
  <2>1. CASE UNCHANGED vars
    BY <1>2, <2>1 DEF vars, table, worker, commands, history, LossInv, NothingLost, Accounted, RecordOf
  <2> QED
    BY <1>2, <2>1, LossStep
<1>3. LossInv => NothingLost
  BY DEF LossInv
<1> QED
  BY <1>1, <1>2, <1>3, TypeCorrect, LeaseInductive, PTL DEF Spec

-------------------------------------------------------------------------------
(* DatabaseQueue implements QueueLease: every step of it is one of QueueLease or changes
   nothing there. *)

(* The abstract step of each kind of step, pointwise. *)
SameStatus(j) == Status(j)' = Status(j)
SameGrip(w) == Grip(w)' = Grip(w)

LEMMA StutterLease ==
  ASSUME \A j \in Jobs : SameStatus(j), \A w \in Workers : SameGrip(w), UNCHANGED issued
  PROVE  UNCHANGED Lease!vars
BY DEF SameStatus, SameGrip, Lease!vars

LEMMA OfferLease ==
  ASSUME NEW j \in Jobs, Status(j) = "absent", Status(j)' = "waiting",
         \A k \in Jobs \ {j} : SameStatus(k), \A w \in Workers : SameGrip(w), UNCHANGED issued
  PROVE  Lease!Next
<1>1. Lease!Offer(j)
  BY DEF SameStatus, SameGrip, Lease!Offer
<1> QED
  BY <1>1 DEF Lease!Next

LEMMA TakeLease ==
  ASSUME NEW v \in Workers, NEW j \in Jobs, issued \in [Jobs -> Nat],
         Grip(v) = {}, Status(j) \in {"waiting", "lapsed"}, Status(j)' = "leased",
         issued' = [issued EXCEPT ![j] = @ + 1],
         Grip(v)' = {[job |-> j, term |-> issued[j] + 1]},
         \A k \in Jobs \ {j} : SameStatus(k), \A w \in Workers \ {v} : SameGrip(w)
  PROVE  Lease!Next
<1>1. Lease!Take(v, j)
  BY DEF SameStatus, SameGrip, Lease!Take
<1> QED
  BY <1>1 DEF Lease!Next

LEMMA DropLease ==
  ASSUME NEW v \in Workers, Grip(v)' = {}, UNCHANGED issued,
         \A j \in Jobs : SameStatus(j), \A w \in Workers \ {v} : SameGrip(w)
  PROVE  Lease!Next
<1>1. Lease!Drop(v)
  BY DEF SameStatus, SameGrip, Lease!Drop
<1> QED
  BY <1>1 DEF Lease!Next

LEMMA LapseLease ==
  ASSUME UNCHANGED issued, \A w \in Workers : SameGrip(w),
         \A j \in Jobs : SameStatus(j) \/ (Status(j) = "leased" /\ Status(j)' = "lapsed")
  PROVE  Lease!Next
<1> DEFINE S == {j \in Jobs : Status(j) = "leased" /\ Status(j)' = "lapsed"}
<1>1. Lease!Lapse(S)
  BY DEF SameStatus, SameGrip, Lease!Lapse
<1>2. S \in SUBSET Jobs
  OBVIOUS
<1> QED
  BY <1>1, <1>2 DEF Lease!Next

LEMMA PurgeLease ==
  ASSUME UNCHANGED issued, \A w \in Workers : SameGrip(w), NEW S \in SUBSET Jobs,
         \A j \in S : Status(j) \in {"waiting", "lapsed"} /\ Status(j)' = "absent",
         \A j \in Jobs \ S : SameStatus(j)
  PROVE  Lease!Next
<1>1. Lease!Purge(S)
  BY DEF SameStatus, SameGrip, Lease!Purge
<1> QED
  BY <1>1 DEF Lease!Next

LEMMA SettleLease ==
  ASSUME NEW v \in Workers, NEW l \in Held, UNCHANGED issued,
         Grip(v) = {[job |-> l.job, term |-> l.lease]}, Grip(v)' = {},
         \A j \in Jobs \ {l.job} : SameStatus(j), \A w \in Workers \ {v} : SameGrip(w),
         IF l.lease = issued[l.job] /\ Status(l.job) \in {"leased", "lapsed"}
           THEN \E s \in {"absent", "waiting"} : \A j \in Jobs : j = l.job => Status(j)' = s
           ELSE \A j \in Jobs : SameStatus(j)
  PROVE  Lease!Next
<1>1. Lease!Settle(v)
  BY ZenonT(40) DEF SameStatus, SameGrip, Lease!Settle, Lease!Current
<1> QED
  BY <1>1 DEF Lease!Next

LEMMA LeaseInit == Init => Lease!Init
BY DEF Init, Lease!Init, Status, Grip

(* The steps that touch the table or make a worker let go. *)
LEMMA InsertImplements ==
  ASSUME TypeOK, NEW j \in Jobs \ stored, NEW d \in Nat, Insert(j, d), UNCHANGED <<pc, held>>
  PROVE  Lease!Next
<1>1. Status(j) = "absent" /\ Status(j)' = "waiting" /\ UNCHANGED issued
  BY DEF TypeOK, TableOK, Insert, Status
<1>2. \A k \in Jobs \ {j} : SameStatus(k)
  BY DEF TypeOK, TableOK, Insert, Status, SameStatus
<1>3. \A w \in Workers : SameGrip(w)
  BY DEF Grip, SameGrip
<1> QED
  BY <1>1, <1>2, <1>3, OfferLease

LEMMA ReserveImplements ==
  ASSUME TypeOK, LeaseInv, NEW v \in Workers, NEW j \in Jobs, Reserve(v, j)
  PROVE  Lease!Next
<1> USE ConstantsAssumption DEF TypeOK, TableOK, WorkersOK
<1>1. Grip(v) = {} /\ Grip(v)' = {[job |-> j, term |-> issued[j] + 1]}
  BY DEF Reserve, Grip
<1>2. Status(j) \in {"waiting", "lapsed"} /\ Status(j)' = "leased"
  BY DEF Reserve, Available, Status
<1>3. \A k \in Jobs \ {j} : SameStatus(k)
  BY DEF Reserve, Status, SameStatus
<1>4. \A w \in Workers \ {v} : SameGrip(w)
  BY DEF Reserve, Grip, SameGrip
<1>5. issued' = [issued EXCEPT ![j] = @ + 1]
  BY DEF Reserve
<1> QED
  BY <1>1, <1>2, <1>3, <1>4, <1>5, TakeLease

LEMMA SettleImplements ==
  ASSUME TypeOK, LeaseInv, NEW v \in Workers,
         Acknowledge(v) \/ Delete(v) \/ \E d \in Delays : Release(v, d)
  PROVE  Lease!Next
<1> USE ConstantsAssumption DEF TypeOK, TableOK, WorkersOK
<1>1. pc[v] \in Holding /\ pc'[v] \notin Holding
  BY DEF Acknowledge, Delete, Release, LetGo
<1>2. PICK l \in Held : l = held[v]
  BY <1>1, HeldByBusy
<1>3. Grip(v) = {[job |-> l.job, term |-> l.lease]} /\ Grip(v)' = {}
  BY <1>1, <1>2 DEF Grip
<1>4. \A w \in Workers \ {v} : SameGrip(w)
  BY DEF Acknowledge, Delete, Release, LetGo, Grip, SameGrip
<1>5. \A j \in Jobs \ {l.job} : SameStatus(j)
  BY <1>2 DEF Acknowledge, Delete, DeleteMatching, Release, Status, SameStatus
<1>6. l.lease >= 1 /\ reservation[l.job] \in {0, issued[l.job]}
  BY <1>1, <1>2 DEF LeaseInv, LeaseNumbers
<1>7. (l.lease = issued[l.job] /\ Status(l.job) \in {"leased", "lapsed"}) <=> Matches(l)
  BY <1>6 DEF Status, Matches
<1>8. CASE Matches(l)
  <2>1. CASE Acknowledge(v) \/ Delete(v)
    <3>1. \A j \in Jobs : j = l.job => Status(j)' = "absent"
      BY <1>2, <1>8, <2>1 DEF Acknowledge, Delete, DeleteMatching, Status
    <3> QED
      BY <1>3, <1>4, <1>5, <1>7, <1>8, <2>1, <3>1, SettleLease DEF Acknowledge, Delete, DeleteMatching
  <2>2. CASE \E d \in Delays : Release(v, d)
    <3>1. \A j \in Jobs : j = l.job => Status(j)' = "waiting"
      BY <1>2, <1>8, <2>2 DEF Release, Matches, Status
    <3> QED
      BY <1>3, <1>4, <1>5, <1>7, <1>8, <2>2, <3>1, SettleLease DEF Release
  <2> QED
    BY <2>1, <2>2
<1>9. CASE ~Matches(l)
  <2>1. \A j \in Jobs : SameStatus(j)
    BY <1>2, <1>9 DEF Acknowledge, Delete, DeleteMatching, Release, Status, SameStatus
  <2>2. UNCHANGED issued
    BY DEF Acknowledge, Delete, DeleteMatching, Release
  <2> QED
    BY <1>3, <1>4, <1>5, <1>7, <1>9, <2>1, <2>2, SettleLease
<1> QED
  BY <1>8, <1>9

LEMMA TickImplements ==
  ASSUME TypeOK, Tick
  PROVE  Lease!Next
<1> USE ConstantsAssumption DEF TypeOK, TableOK, WorkersOK
<1>1. UNCHANGED <<stored, reservation, issued, pc, held>>
  BY DEF Tick
<1>2. \A w \in Workers : SameGrip(w)
  BY <1>1 DEF Grip, SameGrip
<1>3. \A j \in Jobs : ~(age[j] < RetryAfter) => ~(age'[j] < RetryAfter)
  BY DEF Tick, AtMost
<1>4. \A j \in Jobs : SameStatus(j) \/ (Status(j) = "leased" /\ Status(j)' = "lapsed")
  BY <1>1, <1>3 DEF Status, SameStatus
<1> QED
  BY <1>1, <1>2, <1>4, LapseLease

LEMMA ClearImplements ==
  ASSUME TypeOK, Clear
  PROVE  Lease!Next
<1> USE ConstantsAssumption DEF TypeOK, TableOK
<1>1. UNCHANGED <<reservation, age, issued, pc, held>> /\ stored' = stored \ Clearable
  BY DEF Clear, worker
<1>2. \A w \in Workers : SameGrip(w)
  BY <1>1 DEF Grip, SameGrip
<1>3. Clearable \in SUBSET Jobs
  BY DEF Clearable
<1>4. \A j \in Clearable : Status(j) \in {"waiting", "lapsed"} /\ Status(j)' = "absent"
  BY <1>1 DEF Clearable, Status
<1>5. \A j \in Jobs \ Clearable : SameStatus(j)
  BY <1>1 DEF Status, SameStatus
<1> QED
  BY <1>1, <1>2, <1>3, <1>4, <1>5, PurgeLease

LEMMA QuietImplements ==
  ASSUME UNCHANGED <<stored, reservation, age, issued>>, \A w \in Workers : SameGrip(w)
  PROVE  UNCHANGED Lease!vars
<1>1. \A j \in Jobs : SameStatus(j)
  BY DEF Status, SameStatus
<1> QED
  BY <1>1, StutterLease

LEMMA StageImplements ==
  ASSUME TypeOK, NEW w \in Workers, NEW q, pc' = [pc EXCEPT ![w] = q], UNCHANGED held,
         pc[w] \in Holding <=> q \in Holding, UNCHANGED <<stored, reservation, age, issued>>
  PROVE  UNCHANGED Lease!vars
<1>1. \A v \in Workers : pc'[v] \in Holding <=> pc[v] \in Holding
  BY DEF TypeOK, WorkersOK
<1>2. \A v \in Workers : SameGrip(v)
  BY <1>1 DEF Grip, SameGrip
<1> QED
  BY <1>2, QuietImplements

LEMMA LeaseNext ==
  ASSUME TypeOK, LeaseInv, Next
  PROVE  [Lease!Next]_(Lease!vars)
<1> USE ConstantsAssumption DEF TypeOK, TableOK, WorkersOK, CommandsOK
<1>1. CASE \E j \in Jobs, d \in Delays : Dispatch(j, d)
  BY <1>1, InsertImplements DEF Dispatch, worker, LeaseInv, DispatchNumbers
<1>2. ASSUME NEW w \in Workers, WorkerStep(w)
      PROVE  [Lease!Next]_(Lease!vars)
  <2>1. CASE Start(w) \/ Reject(w) \/ StartHandler(w) \/ Persist(w) \/ RunFailedHooks(w)
    <3>1. CASE Start(w)
      BY <3>1, StageImplements DEF Start, table
    <3>2. CASE Reject(w)
      BY <3>2, StageImplements DEF Reject, Fails, table
    <3>3. CASE StartHandler(w)
      BY <3>3, StageImplements DEF StartHandler, table
    <3>4. CASE Persist(w)
      BY <3>4, StageImplements DEF Persist, table
    <3>5. CASE RunFailedHooks(w)
      <4>1. UNCHANGED <<stored, reservation, age, issued>>
        BY <3>5 DEF RunFailedHooks, table
      <4>2. /\ pc[w] = "hooks" /\ pc'[w] \in {"stopped", "idle"}
            /\ \A v \in Workers \ {w} : pc'[v] = pc[v] /\ held'[v] = held[v]
        BY <3>5 DEF RunFailedHooks, LetGo
      <4>3. \A v \in Workers : SameGrip(v)
        BY <4>2 DEF Grip, SameGrip
      <4> QED
        BY <4>1, <4>3, QuietImplements
    <3> QED
      BY <2>1, <3>1, <3>2, <3>3, <3>4, <3>5
  <2>2. CASE Acknowledge(w) \/ Delete(w) \/ \E d \in Delays : Release(w, d)
    BY <2>2, SettleImplements
  <2> QED
    BY <1>2, <2>1, <2>2 DEF WorkerStep
<1>3. ASSUME NEW w \in Workers, NEW j \in Jobs, Reserve(w, j)
      PROVE  Lease!Next
  BY <1>3, ReserveImplements
<1>4. ASSUME NEW w \in Workers, HandlerSettles(w) \/ Stop(w)
      PROVE  UNCHANGED Lease!vars
  <2>1. CASE HandlerReturns(w)
    BY <2>1, StageImplements DEF HandlerReturns, table
  <2>2. CASE HandlerReleases(w)
    BY <2>2, StageImplements DEF HandlerReleases, table
  <2>3. CASE HandlerThrows(w)
    BY <2>3, StageImplements DEF HandlerThrows, Fails, table
  <2>4. CASE Stop(w)
    BY <2>4, StageImplements DEF Stop, table
  <2> QED
    BY <1>4, <2>1, <2>2, <2>3, <2>4 DEF HandlerSettles
<1>5. ASSUME NEW w \in Workers, TimesOut(w) \/ Crash(w)
      PROVE  [Lease!Next]_(Lease!vars)
  <2>1. /\ UNCHANGED <<stored, reservation, age, issued>>
        /\ \A v \in Workers \ {w} : pc'[v] = pc[v] /\ held'[v] = held[v]
        /\ \/ pc'[w] = "stopped"
           \/ pc[w] = "running" /\ pc'[w] = "persisting" /\ held'[w] = held[w]
    <3>1. CASE TimesOut(w)
      BY <3>1 DEF TimesOut, Timed, Fails, LetGo, table
    <3>2. CASE Crash(w)
      BY <3>2 DEF Crash, LetGo, table
    <3> QED
      BY <1>5, <3>1, <3>2
  <2>2. \A v \in Workers \ {w} : SameGrip(v)
    BY <2>1 DEF Grip, SameGrip
  <2>6. SameGrip(w) \/ Grip(w)' = {}
    BY <2>1 DEF Grip, SameGrip
  <2>3. \A j \in Jobs : SameStatus(j)
    BY <2>1 DEF Status, SameStatus
  <2>4. CASE SameGrip(w)
    <3>1. \A v \in Workers : SameGrip(v)
      BY <2>2, <2>4
    <3> QED
      BY <2>1, <3>1, QuietImplements
  <2>5. CASE Grip(w)' = {}
    BY <2>1, <2>2, <2>3, <2>5, DropLease
  <2> QED
    BY <2>4, <2>5, <2>6
<1>6. CASE Tick
  BY <1>6, TickImplements
<1>7. CASE Clear
  BY <1>7, ClearImplements
<1>8. ASSUME NEW a \in Admins, AdminStep(a)
      PROVE  [Lease!Next]_(Lease!vars)
  <2>1. ASSUME NEW r \in batch[a], RetryDispatch(a, r), r.job \notin stored
        PROVE  Lease!Next
    <3>1. Insert(r.job, 0) /\ r.job \in Jobs \ stored /\ UNCHANGED <<pc, held>>
      BY <2>1 DEF RetryDispatch, worker
    <3> QED
      BY <3>1, InsertImplements
  <2>2. ASSUME \/ \E S \in SUBSET failed : RetryLoad(a, S)
               \/ \E r \in batch[a] : RetryDispatch(a, r) /\ r.job \in stored
               \/ RetryForget(a) \/ RetryCrash(a)
        PROVE  UNCHANGED Lease!vars
    <3>1. UNCHANGED <<stored, reservation, age, issued>> /\ \A v \in Workers : SameGrip(v)
      BY <2>2 DEF RetryLoad, RetryDispatch, RetryForget, RetryCrash, table, worker, Grip, SameGrip
    <3> QED
      BY <3>1, QuietImplements
  <2> QED
    BY <1>8, <2>1, <2>2 DEF AdminStep
<1>9. CASE Flush \/ \E r \in failed : Forget(r)
  <2>1. UNCHANGED <<stored, reservation, age, issued>> /\ \A v \in Workers : SameGrip(v)
    BY <1>9 DEF Flush, Forget, Discard, table, worker, Grip, SameGrip
  <2> QED
    BY <2>1, QuietImplements
<1> QED
  BY <1>1, <1>2, <1>3, <1>4, <1>5, <1>6, <1>7, <1>8, <1>9 DEF Next, Proceed

(* The jobs table, the worker loop and the commands together behave like a set
   of leases: fresh on every take, honoured until they lapse, and only the newest
   one settles a job. *)
THEOREM ImplementsQueueLease == Spec => ImplementsLease
<1>1. ASSUME TypeOK, LeaseInv, [Next]_vars
      PROVE  [Lease!Next]_(Lease!vars)
  <2>1. CASE UNCHANGED vars
    <3>1. UNCHANGED <<stored, reservation, age, issued>> /\ \A w \in Workers : SameGrip(w)
      BY <2>1 DEF vars, table, worker, Grip, SameGrip
    <3> QED
      BY <3>1, QuietImplements
  <2> QED
    BY <1>1, <2>1, LeaseNext
<1> QED
  BY <1>1, LeaseInit, TypeCorrect, LeaseInductive, PTL DEF Spec, ImplementsLease, Lease!Spec
===============================================================================
