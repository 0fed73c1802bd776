--------------------------- MODULE ManagedResources ---------------------------
(***************************************************************************)
(* The registry of Holo-owned resources (createManagedResources in         *)
(* packages/kernel/src/managedResources.ts) and the way core drives it     *)
(* (runOptionalSubsystemsSerially, createCoreSessionStores and             *)
(* disposeOptionalHoloSubsystems in packages/core/src/portable/holo.ts).   *)
(*                                                                         *)
(* A reconfiguration pass acquires one resource after another and then     *)
(* commits, or discards what it acquired when something fails.  Passes and *)
(* disposal run one at a time, but each of them awaits, and operations     *)
(* that hold a resource start and settle at any time in between.  Every    *)
(* action is one synchronous stretch of the code.                          *)
(***************************************************************************)
EXTENDS Integers, FiniteSets

CONSTANTS
    Entries,     \* identities of the resources ever created
    Configs,     \* resource settings, compared with isDeepStrictEqual
    NoConfig,    \* config of an entry not created yet
    MaxPending,  \* bound on the operations holding one resource at a time
    MaxLate      \* bound on operations started through a lease that is not current

ASSUME ResourceAssumption ==
    /\ NoConfig \notin Configs
    /\ MaxPending \in Nat
    /\ MaxLate \in Nat

VARIABLES
    config,     \* config[e], NoConfig before e is created
    pending,    \* pending[e]: operations holding e
    state,      \* "open", "draining", "closing" and, once its close settled, "closed"
    onFailure,  \* who hears of a failing close: "none" until one is set
    active,     \* entries of the committed configuration
    retained,   \* replaced entries that operations still hold
    claimed,    \* entries the current pass acquired
    opened,     \* entries the current pass created
    connecting, \* the entry whose connect the current pass awaits, if any
    leased,     \* entries whose lease acquire returned
    phase,      \* what the one caller of acquire, commit, discard and dispose does
    awaiting,   \* entries whose close commit or discard waits for
    releasing,  \* entries whose close dispose waits for
    failures,   \* failed closes, <<entry, who was told>>
    late        \* operations started through a lease that is not current

lists == <<active, retained, claimed, opened, connecting, leased>>
vars == <<config, pending, state, onFailure, lists, phase, awaiting, releasing, failures, late>>

Created == {e \in Entries : config[e] # NoConfig}

Listed == active \cup retained \cup claimed \cup opened

TypeOK ==
    /\ config \in [Entries -> Configs \cup {NoConfig}]
    /\ pending \in [Entries -> Nat]
    /\ state \in [Entries -> {"open", "draining", "closing", "closed"}]
    /\ onFailure \in [Entries -> {"none", "report", "discard", "dispose"}]
    /\ active \in SUBSET Created /\ retained \in SUBSET Created
    /\ claimed \in SUBSET Created /\ opened \in SUBSET Created
    /\ connecting \in SUBSET opened
    /\ leased \in SUBSET Created
    /\ phase \in {"idle", "acquiring", "failed", "committing", "discarding", "disposing", "disposed"}
    /\ awaiting \in SUBSET Created
    /\ releasing \in SUBSET Created
    /\ failures \in SUBSET (Entries \X {"report", "discard", "dispose"})
    /\ late \in 0 .. MaxLate

Init ==
    /\ config = [e \in Entries |-> NoConfig]
    /\ pending = [e \in Entries |-> 0]
    /\ state = [e \in Entries |-> "open"]
    /\ onFailure = [e \in Entries |-> "none"]
    /\ active = {} /\ retained = {} /\ claimed = {} /\ opened = {} /\ connecting = {} /\ leased = {}
    /\ phase = "idle"
    /\ awaiting = {} /\ releasing = {} /\ failures = {}
    /\ late = 0

-------------------------------------------------------------------------------
(* acquire *)

(* The entry with the same config: one of this pass, else the active one, else a
   retained one, which is thereby revived. *)
SameConfig(c) ==
    LET named(S) == {e \in S : config[e] = c} IN
    IF named(claimed) # {} THEN named(claimed)
    ELSE IF named(active) # {} THEN named(active)
    ELSE named(retained)

Reuse(c) ==
    /\ phase \in {"idle", "acquiring"} /\ connecting = {}
    /\ \E e \in SameConfig(c) : claimed' = claimed \cup {e}
    /\ phase' = "acquiring"
    /\ UNCHANGED <<config, pending, state, onFailure, active, retained, opened, connecting, leased,
                   awaiting, releasing, failures, late>>

(* A new resource is created and its connect awaited. *)
Create(c, e) ==
    /\ phase \in {"idle", "acquiring"} /\ connecting = {}
    /\ SameConfig(c) = {}
    /\ e \notin Created
    /\ config' = [config EXCEPT ![e] = c]
    /\ opened' = opened \cup {e}
    /\ connecting' = {e}
    /\ phase' = "acquiring"
    /\ UNCHANGED <<pending, state, onFailure, active, retained, claimed, leased, awaiting,
                   releasing, failures, late>>

Connected ==
    /\ connecting # {}
    /\ claimed' = claimed \cup connecting
    /\ leased' = leased \cup connecting
    /\ connecting' = {}
    /\ UNCHANGED <<config, pending, state, onFailure, active, retained, opened, phase,
                   awaiting, releasing, failures, late>>

(* connect rejects, create throws, or anything else in the pass fails. *)
Fail ==
    /\ phase \in {"idle", "acquiring"}
    /\ phase' = "failed"
    /\ connecting' = {}
    /\ UNCHANGED <<config, pending, state, onFailure, active, retained, claimed, opened, leased,
                   awaiting, releasing, failures, late>>

-------------------------------------------------------------------------------
(* retireEntry and startClose, for a set of entries at once: an idle entry starts
   closing, one that operations hold drains first. *)
IdleOrHeld(S) == S  \* mutant of Idle: the operations in flight are not counted
Idle(S) == {e \in S : pending[e] = 0}
Held(S) == {e \in S : pending[e] > 0}

Retire(S, who) ==
    /\ state' = [e \in Entries |-> IF e \in Idle(S) THEN "closing"
                                   ELSE IF e \in Held(S) THEN "draining" ELSE state[e]]
    /\ onFailure' = [e \in Entries |-> IF e \in S THEN who ELSE onFailure[e]]

(* commit: what the pass claimed becomes active; what was open before and is not
   active now is retained while operations hold it and closed otherwise. *)
Commit ==
    LET replaced == (active \cup retained) \ claimed IN
    /\ phase \in {"idle", "acquiring"} /\ connecting = {}
    /\ active' = claimed
    /\ claimed' = {} /\ opened' = {}
    /\ retained' = Held(replaced)
    /\ Retire(Idle(replaced), "report")
    /\ awaiting' = Idle(replaced)
    /\ phase' = "committing"
    /\ UNCHANGED <<config, pending, connecting, leased, releasing, failures, late>>

(* Mutant of Discard: a revived entry that became idle is left behind. *)
DiscardCreated ==
    /\ phase = "failed"
    /\ claimed' = {} /\ opened' = {}
    /\ Retire(opened, "discard")
    /\ awaiting' = opened
    /\ phase' = "discarding"
    /\ UNCHANGED <<config, pending, active, retained, connecting, leased, releasing, failures,
                   late>>

(* discard: closes what the pass created, and what it revived if no operation holds
   it any more; a revived entry in use stays retained. *)
Discard ==
    LET revivedIdle == Idle(claimed \cap retained)
        entries == opened \cup revivedIdle IN
    /\ phase = "failed"
    /\ retained' = retained \ entries
    /\ claimed' = {} /\ opened' = {}
    /\ Retire(entries, "discard")
    /\ awaiting' = entries
    /\ phase' = "discarding"
    /\ UNCHANGED <<config, pending, active, connecting, leased, releasing, failures, late>>

(* dispose: no acquire succeeds from here on. *)
Dispose ==
    /\ phase \in {"idle", "acquiring"} /\ connecting = {}
    /\ active' = {} /\ retained' = {} /\ claimed' = {} /\ opened' = {}
    /\ Retire(Listed, "dispose")
    /\ releasing' = releasing \cup Listed
    /\ phase' = "disposing"
    /\ UNCHANGED <<config, pending, connecting, leased, awaiting, failures, late>>

(* Mutant of Settled: commit and discard do not wait for the closes they start. *)
SettledEarly ==
    /\ \/ phase \in {"committing", "discarding"} /\ phase' = "idle"
       \/ phase = "disposing" /\ releasing = {} /\ phase' = "disposed"
    /\ UNCHANGED <<config, pending, state, onFailure, lists, awaiting, releasing, failures, late>>

(* The promise of commit, discard or dispose settles. *)
Settled ==
    /\ \/ phase \in {"committing", "discarding"} /\ awaiting = {} /\ phase' = "idle"
       \/ phase = "disposing" /\ releasing = {} /\ phase' = "disposed"
    /\ UNCHANGED <<config, pending, state, onFailure, lists, awaiting, releasing, failures, late>>

-------------------------------------------------------------------------------
(* Operations *)

Current(e) == e \in active \cup claimed

(* hold, by whoever kept the lease acquire returned: throws when the resource is
   closing.  An operation that returns no promise is a Hold and a FinishOperation with
   nothing in between. *)
Hold(e) ==
    /\ e \in leased
    /\ state[e] \notin {"closing", "closed"}
    /\ pending[e] < MaxPending
    /\ Current(e) \/ late < MaxLate
    /\ late' = IF Current(e) THEN late ELSE late + 1
    /\ pending' = [pending EXCEPT ![e] = @ + 1]
    /\ UNCHANGED <<config, state, onFailure, lists, phase, awaiting, releasing, failures>>

(* Mutants of AwaitingClose: a revived entry is closed as well, and retained entries
   are not. *)
AwaitingCloseRevived(e) == state[e] = "draining" \/ e \in retained
AwaitingCloseDraining(e) == state[e] = "draining"

AwaitingClose(e) ==
    state[e] = "draining" \/ (e \in retained /\ e \notin claimed)

(* finishOperation: the last operation closes a resource that waits for it. *)
FinishOperation(e) ==
    /\ pending[e] > 0
    /\ pending' = [pending EXCEPT ![e] = @ - 1]
    /\ IF pending[e] = 1 /\ state[e] # "closing" /\ AwaitingClose(e)
         THEN /\ state' = [state EXCEPT ![e] = "closing"]
              /\ onFailure' = [onFailure EXCEPT ![e] = IF @ = "none" THEN "report" ELSE @]
              /\ retained' = retained \ {e}
              /\ releasing' = releasing \cup {e}
         ELSE UNCHANGED <<state, onFailure, retained, releasing>>
    /\ UNCHANGED <<config, active, claimed, opened, connecting, leased, phase, awaiting,
                   failures, late>>

(* The close of a resource settles, and with it what waits for it. *)
CloseSettles(e) ==
    /\ state[e] = "closing"
    /\ state' = [state EXCEPT ![e] = "closed"]
    /\ awaiting' = awaiting \ {e}
    /\ releasing' = releasing \ {e}
    /\ failures' \in {failures, failures \cup {<<e, onFailure[e]>>}}
    /\ UNCHANGED <<config, pending, onFailure, lists, phase, late>>

Next ==
    \/ \E c \in Configs : Reuse(c) \/ \E e \in Entries : Create(c, e)
    \/ Connected \/ Fail
    \/ Commit \/ Discard \/ Dispose \/ Settled
    \/ \E e \in Entries : Hold(e) \/ FinishOperation(e) \/ CloseSettles(e)

Spec == Init /\ [][Next]_vars

(* A pass ends: it has finitely many resources to acquire. *)
PassEnds == phase = "acquiring" /\ (Commit \/ Fail)

(* Connects, closes and operations settle, and a failed pass is discarded. *)
Fairness ==
    /\ WF_vars(Connected \/ (connecting # {} /\ Fail))
    /\ WF_vars(PassEnds)
    /\ WF_vars(Discard)
    /\ WF_vars(Settled)
    /\ \A e \in Entries : WF_vars(FinishOperation(e)) /\ WF_vars(CloseSettles(e))

FairSpec == Spec /\ Fairness

-------------------------------------------------------------------------------
(* Properties *)

(* What the committed configuration or the current pass uses is open: neither an
   operation that settles, nor a commit, nor a discarded pass that shared it ever
   closes a resource that is in use by configuration, and no settings are acquired
   twice. *)
Usable ==
    /\ \A e \in active \cup claimed : state[e] = "open"
    /\ \A e, f \in active \cup claimed \cup retained : config[e] = config[f] => e = f

(* No resource is forgotten: an open one is active, belongs to the current pass, or
   is retained, and then it is held by an operation whose end closes it. *)
NoLeak ==
    /\ \A e \in Created : state[e] = "open" => e \in Listed
    /\ \A e \in Created : state[e] = "draining" => pending[e] > 0
    /\ \A e \in retained \ claimed : pending[e] > 0

(* ADR 0009: "only disposal and a discarded attempt propagate close failures", the
   failure of a replaced resource is reported.  Whoever is to be told of a failed
   close is still waiting for it when it fails. *)
FailuresHeard ==
    [][\A e \in Entries, who \in {"discard", "dispose"} :
         <<e, who>> \in failures' \ failures =>
           IF who = "discard" THEN phase = "discarding" /\ e \in awaiting
                              ELSE phase = "disposing" /\ e \in releasing]_vars

(* "Runtime disposal closes whatever remains", and is over only when all of it is
   closed, resources replaced earlier included. *)
DisposalComplete == phase = "disposed" => \A e \in Created : state[e] = "closed"

(* Whatever is being retired closes once the operations on it settle, unless a pass
   revives it, and disposal comes to an end. *)
EventuallyReleased ==
    /\ \A e \in Entries :
         /\ (state[e] \in {"draining", "closing"}) ~> (state[e] = "closed")
         /\ (e \in retained \ claimed) ~> (e \in claimed \/ state[e] = "closed")
    /\ (phase = "disposing") ~> (phase = "disposed")

(* Leases keep the promise of ResourceLifetime. *)
Life(e) ==
    IF e \notin Created THEN "unused"
    ELSE IF state[e] = "draining" THEN "open"
    ELSE state[e]

Lifetime == INSTANCE ResourceLifetime WITH
    life <- [e \in Entries |-> Life(e)],
    users <- pending

ImplementsLifetime == Lifetime!Spec
===============================================================================
