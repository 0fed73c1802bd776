---------------------------- MODULE DatabaseQueue -----------------------------
(***************************************************************************)
(* The database queue of Holo: the jobs table and its driver               *)
(* (packages/queue-db/src/drivers/database.ts), the failed job store       *)
(* (packages/queue-db/src/failed.ts, packages/queue/src/failed.ts) and the *)
(* workers (packages/queue/src/worker.ts), with the queue:retry, :forget,  *)
(* :flush and :clear commands.                                             *)
(*                                                                         *)
(* A worker awaits every statement it sends, so each statement is a step   *)
(* of its own and anything may happen between two of them.  Clock values   *)
(* are kept relative to now: age is the time since reserved_at, delay the  *)
(* time until available_at.  Each saturates where the code stops telling   *)
(* values apart, which keeps the model finite.                             *)
(***************************************************************************)
EXTENDS Integers, FiniteSets

CONSTANTS
    Jobs,            \* job ids (randomUUID at dispatch, primary key of the table)
    Workers,         \* worker processes of the connection
    Admins,          \* processes running queue:retry
    Registered,      \* the jobs whose name a worker's registry knows
    MaxAttempts,     \* MaxAttempts[j]: --tries ?? the job's tries
    Timeout,         \* Timeout[j]: --timeout ?? the job's timeout, or NoTimeout
    NoTimeout,       \* the job has no timeout
    FailOnTimeout,   \* the jobs defined with failOnTimeout
    RetryAfter,      \* the connection's retryAfter
    Delays,          \* delays used by dispatch, release and backoff
    FailedStore,     \* FALSE models `failed: false` in the queue config
    NoJob,           \* what an idle worker holds
    MaxDisruptions,  \* bound on crashes, stops and live leases running out
    MaxRetries       \* bound on runs of queue:retry

ASSUME ConstantsAssumption ==
    /\ MaxAttempts \in [Jobs -> Nat \ {0}]
    /\ Timeout \in [Jobs -> Nat \cup {NoTimeout}]
    /\ NoTimeout \notin Nat
    /\ IsFiniteSet(Workers)
    /\ RetryAfter \in Nat \ {0}
    /\ Delays \subseteq Nat
    /\ FailedStore \in BOOLEAN
    /\ MaxDisruptions \in Nat
    /\ MaxRetries \in Nat

ASSUME NoJobAssumption == NoJob \notin [job : Jobs, epoch : Nat, lease : Nat, attempt : Nat]

VARIABLES
    (* the jobs table, one column each *)
    stored,       \* ids that have a row
    reservation,  \* reservation_id as a serial number, 0 for NULL
    age,          \* now - reserved_at, at most RetryAfter
    delay,        \* available_at - now, at least 0
    attempts,     \* attempts
    issued,       \* randomUUID: number of reservation ids made for the job
    (* the failed jobs table *)
    failed,       \* its records [job, epoch, lease]
    (* workers *)
    pc,           \* where the worker is
    held,         \* the QueueReservedJob it works on, or NoJob
    spent,        \* time since its handler started
    verdict,      \* how failReservedJob was called: "hook", "no_hook" or "timed_out"
    (* queue:retry commands *)
    batch,        \* records loaded and not handled yet
    requeued,     \* the record dispatched again and not deleted yet, if any
    (* bounds *)
    disruptions, retries,
    (* history, read by the properties only *)
    epoch,        \* epoch[j]: how often j was dispatched
    clock,        \* time since the worker reserved its job, at most RetryAfter
    ran,          \* handler runs started, [job, epoch, attempt]
    done,         \* dispatches <<j, e>> that succeeded or that queue:clear removed
    consumed,     \* failed records retried, or deleted by the operator
    hooked        \* calls of the job's onFailed hook, [job, epoch, lease]

table == <<stored, reservation, age, delay, attempts, issued>>
commands == <<batch, requeued, retries>>
history == <<epoch, ran, done, consumed, hooked>>
worker == <<pc, held, spent, verdict, clock>>
vars == <<table, failed, worker, commands, disruptions, history>>

Held == [job : Jobs, epoch : Nat, lease : Nat, attempt : Nat]
Record == [job : Jobs, epoch : Nat, lease : Nat]
Run == [job : Jobs, epoch : Nat, attempt : Nat]

(* The steps of a worker during which its reservation is in use. *)
Holding == {"reserved", "running", "acknowledging", "releasing", "persisting", "deleting"}

TableOK ==
    /\ stored \in SUBSET Jobs
    /\ reservation \in [Jobs -> Nat]
    /\ age \in [Jobs -> 0 .. RetryAfter]
    /\ delay \in [Jobs -> Nat]
    /\ attempts \in [Jobs -> Nat]
    /\ issued \in [Jobs -> Nat]
    /\ failed \in SUBSET Record

WorkersOK ==
    /\ pc \in [Workers -> Holding \cup {"stopped", "idle", "hooks"}]
    /\ held \in [Workers -> Held \cup {NoJob}]
    /\ \A w \in Workers : held[w] = NoJob <=> pc[w] \in {"stopped", "idle"}
    /\ spent \in [Workers -> Nat]
    /\ verdict \in [Workers -> {"hook", "no_hook", "timed_out"}]
    /\ clock \in [Workers -> 0 .. RetryAfter]

CommandsOK ==
    /\ batch \in [Admins -> SUBSET Record]
    /\ requeued \in [Admins -> SUBSET Record]
    /\ retries \in 0 .. MaxRetries
    /\ disruptions \in 0 .. MaxDisruptions

HistoryOK ==
    /\ epoch \in [Jobs -> Nat]
    /\ ran \in SUBSET Run
    /\ done \in SUBSET (Jobs \X Nat)
    /\ consumed \in SUBSET Record
    /\ hooked \in SUBSET Record

(* Every variable has its type, and a worker holds a job exactly while it is
   between reserving one and letting go of it. *)
TypeOK == TableOK /\ WorkersOK /\ CommandsOK /\ HistoryOK

Init ==
    /\ stored = {}
    /\ reservation = [j \in Jobs |-> 0]
    /\ age = [j \in Jobs |-> 0]
    /\ delay = [j \in Jobs |-> 0]
    /\ attempts = [j \in Jobs |-> 0]
    /\ issued = [j \in Jobs |-> 0]
    /\ failed = {}
    /\ pc = [w \in Workers |-> "stopped"]
    /\ held = [w \in Workers |-> NoJob]
    /\ spent = [w \in Workers |-> 0]
    /\ verdict = [w \in Workers |-> "hook"]
    /\ clock = [w \in Workers |-> 0]
    /\ batch = [a \in Admins |-> {}]
    /\ requeued = [a \in Admins |-> {}]
    /\ disruptions = 0
    /\ retries = 0
    /\ epoch = [j \in Jobs |-> 0]
    /\ ran = {}
    /\ done = {}
    /\ consumed = {}
    /\ hooked = {}

-------------------------------------------------------------------------------
(* The jobs table *)

(* DatabaseQueueDriver.dispatch: the INSERT of a new row. *)
Insert(j, d) ==
    /\ stored' = stored \cup {j}
    /\ reservation' = [reservation EXCEPT ![j] = 0]
    /\ age' = [age EXCEPT ![j] = 0]
    /\ delay' = [delay EXCEPT ![j] = d]
    /\ attempts' = [attempts EXCEPT ![j] = 0]
    /\ epoch' = [epoch EXCEPT ![j] = @ + 1]
    /\ UNCHANGED issued

(* An application dispatches a job; its fresh id is never dispatched again. *)
Dispatch(j, d) ==
    /\ epoch[j] = 0
    /\ Insert(j, d)
    /\ UNCHANGED <<failed, worker, commands, disruptions, ran, done, consumed, hooked>>

(* Mutant of Available: a reserved row is never taken over. *)
AvailableUnreserved(j) == j \in stored /\ delay[j] = 0 /\ reservation[j] = 0

(* The WHERE clause of lockNextJob and selectReservationCandidates. *)
Available(j) ==
    /\ j \in stored
    /\ delay[j] = 0
    /\ reservation[j] = 0 \/ age[j] = RetryAfter

(* Mutant of Matches: the statement names the job only. *)
MatchesJobOnly(h) == h.job \in stored

(* WHERE id = ? AND reservation_id = ? of acknowledge, release and delete. *)
Matches(h) ==
    /\ h.job \in stored
    /\ reservation[h.job] = h.lease

DeleteMatching(h) ==
    /\ stored' = IF Matches(h) THEN stored \ {h.job} ELSE stored
    /\ UNCHANGED <<reservation, age, delay, attempts, issued>>

(* Mutant of Clearable: no condition on the reservation. *)
ClearableAll == stored

(* queue:clear deletes every row no unexpired reservation protects, delayed
   rows included. *)
Clearable == {j \in stored : reservation[j] = 0 \/ age[j] = RetryAfter}

Clear ==
    /\ Clearable # {}
    /\ stored' = stored \ Clearable
    /\ done' = done \cup {<<j, epoch[j]>> : j \in Clearable}
    /\ UNCHANGED <<reservation, age, delay, attempts, issued, failed, worker,
                   commands, disruptions, epoch, ran, consumed, hooked>>

-------------------------------------------------------------------------------
(* The worker loop and processReservedJob *)

(* A process manager starts the worker. *)
Start(w) ==
    /\ pc[w] = "stopped"
    /\ pc' = [pc EXCEPT ![w] = "idle"]
    /\ UNCHANGED <<table, failed, held, spent, verdict, clock, commands, disruptions, history>>

(* Between two jobs the worker stops on a signal, after maxJobs or maxTime,
   and when idle with once or stopWhenEmpty. *)
Stop(w) ==
    /\ pc[w] = "idle"
    /\ disruptions < MaxDisruptions
    /\ disruptions' = disruptions + 1
    /\ pc' = [pc EXCEPT ![w] = "stopped"]
    /\ UNCHANGED <<table, failed, held, spent, verdict, clock, commands, history>>

(* Mutant of Reserve: the row does not count the attempt. *)
ReserveUncounted(w, j) ==
    /\ pc[w] = "idle"
    /\ Available(j)
    /\ issued' = [issued EXCEPT ![j] = @ + 1]
    /\ reservation' = [reservation EXCEPT ![j] = issued[j] + 1]
    /\ age' = [age EXCEPT ![j] = 0]
    /\ held' = [held EXCEPT ![w] = [job |-> j, epoch |-> epoch[j], lease |-> issued[j] + 1,
                                    attempt |-> attempts[j] + 1]]
    /\ clock' = [clock EXCEPT ![w] = 0]
    /\ pc' = [pc EXCEPT ![w] = "reserved"]
    /\ UNCHANGED <<stored, delay, attempts, failed, spent, verdict, commands, disruptions, history>>

(* reserve: one transaction that locks an available row (skipping rows other
   workers have locked) and marks it reserved.  Which of the available rows it
   takes is the ORDER BY's business and is left open here.  The envelope handed
   out carries the attempts of before, processReservedJob adds the one. *)
Reserve(w, j) ==
    /\ pc[w] = "idle"
    /\ Available(j)
    /\ issued' = [issued EXCEPT ![j] = @ + 1]
    /\ reservation' = [reservation EXCEPT ![j] = issued[j] + 1]
    /\ age' = [age EXCEPT ![j] = 0]
    /\ attempts' = [attempts EXCEPT ![j] = @ + 1]
    /\ held' = [held EXCEPT ![w] = [job |-> j, epoch |-> epoch[j], lease |-> issued[j] + 1,
                                    attempt |-> attempts[j] + 1]]
    /\ clock' = [clock EXCEPT ![w] = 0]
    /\ pc' = [pc EXCEPT ![w] = "reserved"]
    /\ UNCHANGED <<stored, delay, failed, spent, verdict, commands, disruptions, history>>

TimeoutTooLong(j) == Timeout[j] # NoTimeout /\ Timeout[j] >= RetryAfter

Fails(w, v) ==
    /\ pc' = [pc EXCEPT ![w] = "persisting"]
    /\ verdict' = [verdict EXCEPT ![w] = v]

(* The checks before the handler: an unregistered job, a job without attempts
   left and a timeout that is not below retryAfter fail at once. *)
Reject(w) ==
    /\ pc[w] = "reserved"
    /\ \/ held[w].job \notin Registered /\ Fails(w, "no_hook")
       \/ /\ held[w].job \in Registered
          /\ held[w].attempt > MaxAttempts[held[w].job] \/ TimeoutTooLong(held[w].job)
          /\ Fails(w, "hook")
    /\ UNCHANGED <<table, failed, held, spent, clock, commands, disruptions, history>>

RunOf(h) == [job |-> h.job, epoch |-> h.epoch, attempt |-> h.attempt]

StartHandler(w) ==
    /\ pc[w] = "reserved"
    /\ held[w].job \in Registered
    /\ held[w].attempt <= MaxAttempts[held[w].job]
    /\ ~TimeoutTooLong(held[w].job)
    /\ pc' = [pc EXCEPT ![w] = "running"]
    /\ spent' = [spent EXCEPT ![w] = 0]
    /\ ran' = ran \cup {RunOf(held[w])}
    /\ UNCHANGED <<table, failed, held, verdict, clock, commands, disruptions,
                   epoch, done, consumed, hooked>>

(* The handler settles before its timeout: it returns; it called
   context.release (honoured however it ends); or it throws, which fails the
   job when it called context.fail or no attempt is left, and releases it
   with the backoff otherwise. *)
HandlerReturns(w) ==
    /\ pc[w] = "running"
    /\ pc' = [pc EXCEPT ![w] = "acknowledging"]
    /\ done' = done \cup {<<held[w].job, held[w].epoch>>}
    /\ UNCHANGED <<table, failed, held, spent, verdict, clock, commands, disruptions,
                   epoch, ran, consumed, hooked>>

HandlerReleases(w) ==
    /\ pc[w] = "running"
    /\ pc' = [pc EXCEPT ![w] = "releasing"]
    /\ UNCHANGED <<table, failed, held, spent, verdict, clock, commands, disruptions, history>>

HandlerThrows(w) ==
    /\ pc[w] = "running"
    /\ \/ Fails(w, "hook")
       \/ /\ held[w].attempt < MaxAttempts[held[w].job]
          /\ pc' = [pc EXCEPT ![w] = "releasing"]
          /\ UNCHANGED verdict
    /\ UNCHANGED <<table, failed, held, spent, clock, commands, disruptions, history>>

HandlerSettles(w) == HandlerReturns(w) \/ HandlerReleases(w) \/ HandlerThrows(w)

(* The worker lets go of its job and takes up `next`. *)
LetGo(w, next) ==
    /\ pc' = [pc EXCEPT ![w] = next]
    /\ held' = [held EXCEPT ![w] = NoJob]
    /\ spent' = [spent EXCEPT ![w] = 0]
    /\ verdict' = [verdict EXCEPT ![w] = "hook"]
    /\ clock' = [clock EXCEPT ![w] = 0]

Timed(w) == pc[w] = "running" /\ Timeout[held[w].job] # NoTimeout
Untimed(w) == pc[w] = "running" /\ Timeout[held[w].job] = NoTimeout

(* runWithTimeout: the timer wins the race.  The handler itself is not stopped,
   but nothing it does later reaches the queue.  The worker throws, leaving the
   row reserved, and exits; with failOnTimeout it first fails the job. *)
TimesOut(w) ==
    /\ Timed(w)
    /\ spent[w] >= Timeout[held[w].job]
    /\ IF held[w].job \in FailOnTimeout
         THEN Fails(w, "timed_out") /\ UNCHANGED <<held, spent, clock>>
         ELSE LetGo(w, "stopped")
    /\ UNCHANGED <<table, failed, commands, disruptions, history>>

Acknowledge(w) ==
    /\ pc[w] = "acknowledging"
    /\ DeleteMatching(held[w])
    /\ LetGo(w, "idle")
    /\ UNCHANGED <<failed, commands, disruptions, history>>

(* release: the row is made available again after d, unless the reservation
   was superseded. *)
Release(w, d) ==
    /\ pc[w] = "releasing"
    /\ LET j == held[w].job IN
         IF Matches(held[w])
           THEN /\ reservation' = [reservation EXCEPT ![j] = 0]
                /\ age' = [age EXCEPT ![j] = 0]
                /\ delay' = [delay EXCEPT ![j] = d]
           ELSE UNCHANGED <<reservation, age, delay>>
    /\ LetGo(w, "idle")
    /\ UNCHANGED <<stored, attempts, issued, failed, commands, disruptions, history>>

RecordOf(h) == [job |-> h.job, epoch |-> h.epoch, lease |-> h.lease]

(* failReservedJob: insert the failed record (its random id is unique, as is
   the reservation), then delete the row, then run the hooks. *)
Persist(w) ==
    /\ pc[w] = "persisting"
    /\ pc' = [pc EXCEPT ![w] = "deleting"]
    /\ failed' = IF FailedStore THEN failed \cup {RecordOf(held[w])} ELSE failed
    /\ UNCHANGED <<table, held, spent, verdict, clock, commands, disruptions, history>>

Delete(w) ==
    /\ pc[w] = "deleting"
    /\ DeleteMatching(held[w])
    /\ pc' = [pc EXCEPT ![w] = "hooks"]
    /\ UNCHANGED <<failed, held, spent, verdict, clock, commands, disruptions, history>>

RunFailedHooks(w) ==
    /\ pc[w] = "hooks"
    /\ hooked' = IF verdict[w] = "no_hook" THEN hooked ELSE hooked \cup {RecordOf(held[w])}
    /\ LetGo(w, IF verdict[w] = "timed_out" THEN "stopped" ELSE "idle")
    /\ UNCHANGED <<table, failed, commands, disruptions, epoch, ran, done, consumed>>

(* The process is killed, or the driver or the store throws, which ends
   runQueueWorker: the statement in flight may or may not have been applied. *)
Crash(w) ==
    /\ pc[w] \notin {"stopped", "idle"}
    /\ disruptions < MaxDisruptions
    /\ disruptions' = disruptions + 1
    /\ LetGo(w, "stopped")
    /\ UNCHANGED <<table, failed, commands, history>>

-------------------------------------------------------------------------------
(* Time *)

AtMost(n, limit) == IF n > limit THEN limit ELSE n

(* The workers whose reservation runs out with the next tick.  It counts as a
   disruption, except during a handler with a timeout: there it costs an
   attempt, which bounds it already. *)
AboutToLapse ==
    {w \in Workers : pc[w] \in Holding /\ ~Timed(w) /\ clock[w] = RetryAfter - 1}

Tick ==
    /\ disruptions + Cardinality(AboutToLapse) <= MaxDisruptions
    /\ disruptions' = disruptions + Cardinality(AboutToLapse)
    /\ age' = [j \in Jobs |-> IF j \in stored /\ reservation[j] # 0
                                THEN AtMost(age[j] + 1, RetryAfter) ELSE age[j]]
    /\ delay' = [j \in Jobs |-> IF delay[j] > 0 THEN delay[j] - 1 ELSE 0]
    /\ clock' = [w \in Workers |-> IF pc[w] \in Holding
                                     THEN AtMost(clock[w] + 1, RetryAfter) ELSE clock[w]]
    /\ spent' = [w \in Workers |-> IF Timed(w)
                                     THEN AtMost(spent[w] + 1, Timeout[held[w].job]) ELSE spent[w]]
    /\ UNCHANGED <<stored, reservation, attempts, issued, failed, pc, held, verdict,
                   commands, history>>

-------------------------------------------------------------------------------
(* Failed job commands *)

(* Mutant of RetryLoad: the records are deleted before they are dispatched. *)
RetryTake(a, records) ==
    /\ batch[a] = {} /\ requeued[a] = {}
    /\ retries < MaxRetries
    /\ retries' = retries + 1
    /\ batch' = [batch EXCEPT ![a] = records]
    /\ failed' = failed \ records
    /\ UNCHANGED <<table, worker, requeued, disruptions, history>>

(* retryFailedJobs loads the records of one id or of `all`. *)
RetryLoad(a, records) ==
    /\ batch[a] = {} /\ requeued[a] = {}
    /\ retries < MaxRetries
    /\ retries' = retries + 1
    /\ batch' = [batch EXCEPT ![a] = records]
    /\ UNCHANGED <<table, failed, worker, requeued, disruptions, history>>

(* Dispatch the next record again: same id, no attempts, no delay.  When the id
   still has a row the INSERT violates the primary key and the command ends. *)
RetryDispatch(a, r) ==
    /\ r \in batch[a] /\ requeued[a] = {}
    /\ IF r.job \in stored
         THEN /\ batch' = [batch EXCEPT ![a] = {}]
              /\ UNCHANGED <<table, requeued, epoch, consumed>>
         ELSE /\ Insert(r.job, 0)
              /\ batch' = [batch EXCEPT ![a] = @ \ {r}]
              /\ requeued' = [requeued EXCEPT ![a] = {r}]
              /\ consumed' = consumed \cup {r}
    /\ UNCHANGED <<failed, worker, retries, disruptions, ran, done, hooked>>

RetryForget(a) ==
    /\ requeued[a] # {}
    /\ failed' = failed \ requeued[a]
    /\ requeued' = [requeued EXCEPT ![a] = {}]
    /\ UNCHANGED <<table, worker, batch, retries, disruptions, history>>

RetryCrash(a) ==
    /\ batch[a] # {} \/ requeued[a] # {}
    /\ disruptions < MaxDisruptions
    /\ disruptions' = disruptions + 1
    /\ batch' = [batch EXCEPT ![a] = {}]
    /\ requeued' = [requeued EXCEPT ![a] = {}]
    /\ UNCHANGED <<table, failed, worker, retries, history>>

(* forgetFailedJob deletes one record, flushFailedJobs all of them. *)
Discard(records) ==
    /\ failed' = failed \ records
    /\ consumed' = consumed \cup records
    /\ UNCHANGED <<table, worker, commands, disruptions, epoch, ran, done, hooked>>

Forget(r) == r \in failed /\ Discard({r})
Flush == failed # {} /\ Discard(failed)

-------------------------------------------------------------------------------
WorkerStep(w) ==
    \/ Start(w) \/ Reject(w) \/ StartHandler(w)
    \/ Acknowledge(w) \/ Persist(w) \/ Delete(w) \/ RunFailedHooks(w)
    \/ \E d \in Delays : Release(w, d)

AdminStep(a) ==
    \/ RetryLoad(a, failed)
    \/ \E r \in failed : RetryLoad(a, {r})
    \/ \E r \in batch[a] : RetryDispatch(a, r)
    \/ RetryForget(a) \/ RetryCrash(a)

(* What becomes of the jobs that are dispatched. *)
Proceed ==
    \/ \E w \in Workers :
         \/ WorkerStep(w)
         \/ \E j \in Jobs : Reserve(w, j)
         \/ HandlerSettles(w) \/ TimesOut(w)
         \/ Stop(w) \/ Crash(w)
    \/ Tick
    \/ Clear
    \/ \E a \in Admins : AdminStep(a)
    \/ Flush \/ \E r \in failed : Forget(r)

Next == (\E j \in Jobs, d \in Delays : Dispatch(j, d)) \/ Proceed

Spec == Init /\ [][Next]_vars

(* Process managers restart workers, statements and hooks return, timers fire
   and the clock runs.  A handler without a timeout is taken to settle; one with
   a timeout may hang for ever. *)
Fairness ==
    /\ \A w \in Workers :
         /\ WF_vars(WorkerStep(w))
         /\ WF_vars(\E j \in Jobs : Reserve(w, j))
         /\ WF_vars(TimesOut(w))
         /\ WF_vars(Untimed(w) /\ HandlerSettles(w))
    /\ WF_vars(Tick)

FairSpec == Spec /\ Fairness

-------------------------------------------------------------------------------
(* Properties *)

(* Two workers never hold a job under the same reservation, and whoever does not
   hold the newest one can no longer match the row: `reservation_id` fences every
   acknowledge, release and delete. *)
LeaseUnique ==
    \A v, w \in Workers :
      (v # w /\ pc[v] \in Holding /\ pc[w] \in Holding /\ held[v].job = held[w].job)
        => held[v].lease # held[w].lease

(* "Two workers never take the same job at the same time": for retryAfter after
   it reserved a job, a worker finds the row still stored and still reserved by
   it, whatever other workers, late settlements of earlier reservations,
   queue:clear and queue:retry do meanwhile. *)
LeaseHeld ==
    \A w \in Workers :
      (pc[w] \in Holding /\ clock[w] < RetryAfter)
        => Matches(held[w]) /\ age[held[w].job] = clock[w]

(* "The interrupted run counts as one of the job's tries": a dispatch never
   starts its handler twice under one attempt number, so together with the
   bound of StartHandler a dispatch runs at most MaxAttempts times, however
   often workers crash, lose their reservation or time out. *)
AttemptOnce ==
    [][\A w \in Workers :
         (pc[w] = "reserved" /\ pc'[w] = "running") => RunOf(held[w]) \notin ran]_vars

(* "The job isn't lost": every dispatch is still in the jobs table, or succeeded,
   or was cleared, or has a failed record that is still in the failed jobs table
   or that the operator retried or deleted.  This rests on failReservedJob
   inserting the record before it deletes the row. *)
Accounted(j, e) ==
    \/ j \in stored /\ e = epoch[j]
    \/ <<j, e>> \in done
    \/ \E r \in failed \cup consumed : r.job = j /\ r.epoch = e

NothingLost ==
    FailedStore => \A j \in Jobs : \A e \in 1 .. epoch[j] : Accounted(j, e)

(* A job in the table is eventually settled: it leaves the table, even if its
   handler hangs, since the timeout, retryAfter and the attempts bound it. *)
EventuallySettled ==
    \A j \in Jobs : (j \in stored) ~> (j \notin stored)

(* docs/queue/jobs.md: "onFailed runs once, when the job has failed for good". *)
OnFailedOnce ==
    \A r, s \in hooked : (r.job = s.job /\ r.epoch = s.epoch) => r = s

(* docs/queue/workers.md: queue:clear "deletes waiting jobs only. Jobs a worker
   is currently running are left alone". *)
ClearLeavesRunning ==
    [][Clear => \A w \in Workers :
                  (pc[w] = "running" /\ Matches(held[w])) => held[w].job \in stored']_vars

(* The driver keeps the promise of QueueLease. *)
Status(j) ==
    IF j \notin stored THEN "absent"
    ELSE IF reservation[j] = 0 THEN "waiting"
    ELSE IF age[j] < RetryAfter THEN "leased"
    ELSE "lapsed"

Grip(w) ==
    IF pc[w] \in Holding THEN {[job |-> held[w].job, term |-> held[w].lease]} ELSE {}

Lease == INSTANCE QueueLease WITH
    status <- [j \in Jobs |-> Status(j)],
    term <- issued,
    grip <- [w \in Workers |-> Grip(w)]

ImplementsLease == Lease!Spec
===============================================================================
