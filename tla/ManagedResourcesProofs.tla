------------------------ MODULE ManagedResourcesProofs ------------------------
(* Proofs about ManagedResources, for any number of resources and settings. *)
EXTENDS ManagedResources, TLAPS

-------------------------------------------------------------------------------
(* What makes the properties inductive *)

(* Between passes only the committed configuration and what it replaced are listed,
   and after disposal has begun nothing is. *)
PassInv ==
    /\ connecting # {} => phase = "acquiring"
    /\ connecting \cap claimed = {}
    /\ phase \notin {"acquiring", "failed"} => claimed = {} /\ opened = {}
    /\ phase \in {"disposing", "disposed"} => Listed = {}
    /\ phase # "failed" => opened \subseteq claimed \cup connecting

(* The lists overlap only as acquire and commit make them, and hold open entries
   with different settings. *)
ListInv ==
    /\ active \cap retained = {}
    /\ opened \cap (active \cup retained) = {}
    /\ claimed \subseteq active \cup retained \cup opened
    /\ \A e \in Listed : state[e] = "open"
    /\ \A e, f \in Listed : config[e] = config[f] => e = f

(* An entry that is being retired is waited for by the call that retires it, or by
   disposal, and that is who hears of its failing close. *)
RetireInv ==
    /\ \A e \in Entries : state[e] \in {"closing", "closed"} => pending[e] = 0
    /\ \A e \in Entries : e \notin Created => pending[e] = 0 /\ state[e] = "open"
    /\ \A e \in Entries : state[e] = "open" => onFailure[e] = "none"
    /\ \A e \in Entries : state[e] \in {"draining", "closing"} =>
         /\ e \in awaiting \cup releasing
         /\ onFailure[e] # "none"
         /\ onFailure[e] = "discard" => phase = "discarding" /\ e \in awaiting
         /\ onFailure[e] = "dispose" => phase = "disposing" /\ e \in releasing
    /\ awaiting # {} => phase \in {"committing", "discarding"}
    /\ phase = "disposed" => releasing = {}

ResourceInv == PassInv /\ ListInv /\ RetireInv /\ NoLeak

USE ResourceAssumption DEF lists, Created, Listed

LEMMA InitInv == Init => TypeOK /\ ResourceInv
BY DEF Init, TypeOK, ResourceInv, PassInv, ListInv, RetireInv, NoLeak

(* One lemma per action: it preserves the types and the four parts of ResourceInv. *)

LEMMA ReuseStep ==
  ASSUME NEW c \in Configs, TypeOK, ResourceInv, Reuse(c)
  PROVE  TypeOK' /\ ResourceInv'
<1> USE DEF Reuse, SameConfig
<1>1. TypeOK'
  BY DEF TypeOK, ResourceInv, RetireInv
<1>2. PassInv'
  BY DEF TypeOK, ResourceInv, PassInv, ListInv
<1>3. ListInv'
  BY DEF TypeOK, ResourceInv, PassInv, ListInv, NoLeak
<1>4. RetireInv'
  BY DEF TypeOK, ResourceInv, PassInv, ListInv, RetireInv, NoLeak
<1>5. NoLeak'
  BY DEF TypeOK, ResourceInv, PassInv, ListInv, RetireInv, NoLeak
<1> QED
  BY <1>1, <1>2, <1>3, <1>4, <1>5 DEF ResourceInv

LEMMA CreateStep ==
  ASSUME NEW c \in Configs, NEW e \in Entries, TypeOK, ResourceInv, Create(c, e)
  PROVE  TypeOK' /\ ResourceInv'
<1> USE DEF Create, SameConfig
<1>1. TypeOK'
  BY DEF TypeOK, ResourceInv, RetireInv
<1>2. PassInv'
  BY DEF TypeOK, ResourceInv, PassInv, ListInv
<1>3. ListInv'
  <2>1. opened \subseteq claimed
    BY DEF ResourceInv, PassInv
  <2>2. \A f \in Listed : config[f] # c
    BY <2>1
  <2>3. /\ Listed' = Listed \cup {e} /\ e \notin Listed
        /\ \A f \in Listed : config'[f] = config[f]
        /\ config'[e] = c
    BY DEF TypeOK
  <2>4. \A f \in Listed' : state'[f] = "open"
    BY <2>3 DEF ResourceInv, ListInv, RetireInv
  <2>5. \A f, g \in Listed' : config'[f] = config'[g] => f = g
    BY <2>2, <2>3 DEF ResourceInv, ListInv
  <2> QED
    BY <2>3, <2>4, <2>5 DEF ResourceInv, ListInv
<1>4. RetireInv'
  BY DEF TypeOK, ResourceInv, PassInv, ListInv, RetireInv, NoLeak
<1>5. NoLeak'
  BY DEF TypeOK, ResourceInv, PassInv, ListInv, RetireInv, NoLeak
<1> QED
  BY <1>1, <1>2, <1>3, <1>4, <1>5 DEF ResourceInv

LEMMA ConnectedStep ==
  ASSUME TypeOK, ResourceInv, Connected
  PROVE  TypeOK' /\ ResourceInv'
<1> USE DEF Connected
<1>1. TypeOK'
  BY DEF TypeOK, ResourceInv, RetireInv
<1>2. PassInv'
  BY DEF TypeOK, ResourceInv, PassInv, ListInv
<1>3. ListInv'
  BY DEF TypeOK, ResourceInv, PassInv, ListInv, NoLeak
<1>4. RetireInv'
  BY DEF TypeOK, ResourceInv, PassInv, ListInv, RetireInv, NoLeak
<1>5. NoLeak'
  BY DEF TypeOK, ResourceInv, PassInv, ListInv, RetireInv, NoLeak
<1> QED
  BY <1>1, <1>2, <1>3, <1>4, <1>5 DEF ResourceInv

LEMMA FailStep ==
  ASSUME TypeOK, ResourceInv, Fail
  PROVE  TypeOK' /\ ResourceInv'
<1> USE DEF Fail
<1>1. TypeOK'
  BY DEF TypeOK, ResourceInv, RetireInv
<1>2. PassInv'
  BY DEF TypeOK, ResourceInv, PassInv, ListInv
<1>3. ListInv'
  BY DEF TypeOK, ResourceInv, PassInv, ListInv, NoLeak
<1>4. RetireInv'
  BY DEF TypeOK, ResourceInv, PassInv, ListInv, RetireInv, NoLeak
<1>5. NoLeak'
  BY DEF TypeOK, ResourceInv, PassInv, ListInv, RetireInv, NoLeak
<1> QED
  BY <1>1, <1>2, <1>3, <1>4, <1>5 DEF ResourceInv

LEMMA CommitStep ==
  ASSUME TypeOK, ResourceInv, Commit
  PROVE  TypeOK' /\ ResourceInv'
<1> USE DEF Commit, Retire, Idle, Held
<1>1. TypeOK'
  BY DEF TypeOK, ResourceInv, RetireInv
<1>2. PassInv'
  BY DEF TypeOK, ResourceInv, PassInv, ListInv
<1>3. ListInv'
  BY DEF TypeOK, ResourceInv, PassInv, ListInv, NoLeak
<1>4. RetireInv'
  BY DEF TypeOK, ResourceInv, PassInv, ListInv, RetireInv, NoLeak
<1>5. NoLeak'
  BY DEF TypeOK, ResourceInv, PassInv, ListInv, RetireInv, NoLeak
<1> QED
  BY <1>1, <1>2, <1>3, <1>4, <1>5 DEF ResourceInv

LEMMA DiscardStep ==
  ASSUME TypeOK, ResourceInv, Discard
  PROVE  TypeOK' /\ ResourceInv'
<1> USE DEF Discard, Retire, Idle, Held
<1>1. TypeOK'
  <2> DEFINE entries == opened \cup Idle(claimed \cap retained)
  <2>1. entries \subseteq Created /\ Created' = Created
    BY DEF TypeOK
  <2>2. /\ state' \in [Entries -> {"open", "draining", "closing", "closed"}]
        /\ onFailure' \in [Entries -> {"none", "report", "discard", "dispose"}]
    BY DEF TypeOK
  <2>3. awaiting' = entries /\ retained' = retained \ entries
    OBVIOUS
  <2>4. connecting = {}
    BY DEF ResourceInv, PassInv
  <2> QED
    BY <2>1, <2>2, <2>3, <2>4 DEF TypeOK
<1>2. PassInv'
  BY DEF TypeOK, ResourceInv, PassInv, ListInv
<1>3. ListInv'
  BY DEF TypeOK, ResourceInv, PassInv, ListInv, NoLeak
<1>4. RetireInv'
  BY DEF TypeOK, ResourceInv, PassInv, ListInv, RetireInv, NoLeak
<1>5. NoLeak'
  BY DEF TypeOK, ResourceInv, PassInv, ListInv, RetireInv, NoLeak
<1> QED
  BY <1>1, <1>2, <1>3, <1>4, <1>5 DEF ResourceInv

LEMMA DisposeStep ==
  ASSUME TypeOK, ResourceInv, Dispose
  PROVE  TypeOK' /\ ResourceInv'
<1> USE DEF Dispose, Retire, Idle, Held
<1>1. TypeOK'
  BY DEF TypeOK, ResourceInv, RetireInv
<1>2. PassInv'
  BY DEF TypeOK, ResourceInv, PassInv, ListInv
<1>3. ListInv'
  BY DEF TypeOK, ResourceInv, PassInv, ListInv, NoLeak
<1>4. RetireInv'
  BY DEF TypeOK, ResourceInv, PassInv, ListInv, RetireInv, NoLeak
<1>5. NoLeak'
  BY DEF TypeOK, ResourceInv, PassInv, ListInv, RetireInv, NoLeak
<1> QED
  BY <1>1, <1>2, <1>3, <1>4, <1>5 DEF ResourceInv

LEMMA SettledStep ==
  ASSUME TypeOK, ResourceInv, Settled
  PROVE  TypeOK' /\ ResourceInv'
<1> USE DEF Settled
<1>1. TypeOK'
  BY DEF TypeOK, ResourceInv, RetireInv
<1>2. PassInv'
  BY DEF TypeOK, ResourceInv, PassInv, ListInv
<1>3. ListInv'
  BY DEF TypeOK, ResourceInv, PassInv, ListInv, NoLeak
<1>4. RetireInv'
  BY DEF TypeOK, ResourceInv, PassInv, ListInv, RetireInv, NoLeak
<1>5. NoLeak'
  BY DEF TypeOK, ResourceInv, PassInv, ListInv, RetireInv, NoLeak
<1> QED
  BY <1>1, <1>2, <1>3, <1>4, <1>5 DEF ResourceInv

LEMMA HoldStep ==
  ASSUME NEW e \in Entries, TypeOK, ResourceInv, Hold(e)
  PROVE  TypeOK' /\ ResourceInv'
<1> USE DEF Hold, Current
<1>1. TypeOK'
  BY DEF TypeOK, ResourceInv, RetireInv
<1>2. PassInv'
  BY DEF TypeOK, ResourceInv, PassInv, ListInv
<1>3. ListInv'
  BY DEF TypeOK, ResourceInv, PassInv, ListInv, NoLeak
<1>4. RetireInv'
  BY DEF TypeOK, ResourceInv, PassInv, ListInv, RetireInv, NoLeak
<1>5. NoLeak'
  BY DEF TypeOK, ResourceInv, PassInv, ListInv, RetireInv, NoLeak
<1> QED
  BY <1>1, <1>2, <1>3, <1>4, <1>5 DEF ResourceInv

LEMMA FinishStep ==
  ASSUME NEW e \in Entries, TypeOK, ResourceInv, FinishOperation(e)
  PROVE  TypeOK' /\ ResourceInv'
<1> USE DEF FinishOperation, AwaitingClose
<1>1. TypeOK'
  BY DEF TypeOK, ResourceInv, RetireInv
<1>2. PassInv'
  BY DEF TypeOK, ResourceInv, PassInv, ListInv
<1>3. ListInv'
  BY DEF TypeOK, ResourceInv, PassInv, ListInv, NoLeak
<1>4. RetireInv'
  BY DEF TypeOK, ResourceInv, PassInv, ListInv, RetireInv, NoLeak
<1>5. NoLeak'
  BY DEF TypeOK, ResourceInv, PassInv, ListInv, RetireInv, NoLeak
<1> QED
  BY <1>1, <1>2, <1>3, <1>4, <1>5 DEF ResourceInv

LEMMA CloseStep ==
  ASSUME NEW e \in Entries, TypeOK, ResourceInv, CloseSettles(e)
  PROVE  TypeOK' /\ ResourceInv'
<1> USE DEF CloseSettles
<1>1. TypeOK'
  BY DEF TypeOK, ResourceInv, RetireInv
<1>2. PassInv'
  BY DEF TypeOK, ResourceInv, PassInv, ListInv
<1>3. ListInv'
  BY DEF TypeOK, ResourceInv, PassInv, ListInv, NoLeak
<1>4. RetireInv'
  BY DEF TypeOK, ResourceInv, PassInv, ListInv, RetireInv, NoLeak
<1>5. NoLeak'
  BY DEF TypeOK, ResourceInv, PassInv, ListInv, RetireInv, NoLeak
<1> QED
  BY <1>1, <1>2, <1>3, <1>4, <1>5 DEF ResourceInv

LEMMA NextInv ==
  ASSUME TypeOK, ResourceInv, [Next]_vars
  PROVE  TypeOK' /\ ResourceInv'
<1>1. CASE Next
  BY <1>1, ReuseStep, CreateStep, ConnectedStep, FailStep, CommitStep, DiscardStep,
     DisposeStep, SettledStep, HoldStep, FinishStep, CloseStep DEF Next
<1>2. CASE UNCHANGED vars
  BY <1>2 DEF vars, TypeOK, ResourceInv, PassInv, ListInv, RetireInv, NoLeak
<1> QED
  BY <1>1, <1>2

LEMMA Invariance == Spec => [](TypeOK /\ ResourceInv)
BY InitInv, NextInv, PTL DEF Spec

-------------------------------------------------------------------------------
(* Every variable of the registry keeps its type; a failed close always has
   somebody to be told. *)
THEOREM TypeCorrect == Spec => []TypeOK
BY Invariance, PTL

(* acquire, commit and discard never leave a closing resource in use by the
   configuration, and never acquire the same settings twice. *)
THEOREM ResourcesUsable == Spec => []Usable
<1>1. ResourceInv => Usable
  BY DEF ResourceInv, ListInv, Usable
<1> QED
  BY <1>1, Invariance, PTL

(* Every open resource is listed, and a replaced one is held by an operation whose
   end closes it (commit, discard and finishOperation). *)
THEOREM NothingLeaks == Spec => []NoLeak
<1>1. ResourceInv => NoLeak
  BY DEF ResourceInv
<1> QED
  BY <1>1, Invariance, PTL

(* When dispose has settled, every resource ever created is closed. *)
THEOREM DisposalClosesAll == Spec => []DisposalComplete
<1>1. TypeOK /\ ResourceInv => DisposalComplete
  BY DEF TypeOK, ResourceInv, PassInv, RetireInv, ListInv, NoLeak, DisposalComplete
<1> QED
  BY <1>1, Invariance, PTL

(* A discarded pass and disposal are still waiting when a close they asked for
   fails. *)
THEOREM CloseFailuresHeard == Spec => FailuresHeard
<1> DEFINE Heard == \A e \in Entries, who \in {"discard", "dispose"} :
         <<e, who>> \in failures' \ failures =>
           IF who = "discard" THEN phase = "discarding" /\ e \in awaiting
                              ELSE phase = "disposing" /\ e \in releasing
<1>1. ASSUME TypeOK, ResourceInv, [Next]_vars
      PROVE  [Heard]_vars
  <2>1. ASSUME NEW g \in Entries, CloseSettles(g)
        PROVE  Heard
    <3>1. \A e, who : <<e, who>> \in failures' \ failures => e = g /\ who = onFailure[g]
      BY <2>1 DEF CloseSettles
    <3> QED
      BY <1>1, <2>1, <3>1 DEF CloseSettles, ResourceInv, RetireInv
  <2>2. CASE failures' = failures
    BY <2>2
  <2> QED
    BY <1>1, <2>1, <2>2 DEF Next, vars, Reuse, Create, Connected, Fail, Commit, Discard,
       Dispose, Settled, Hold, FinishOperation
<1>2. Spec => [][Heard]_vars
  BY <1>1, Invariance, PTL DEF Spec
<1> QED
  BY <1>2 DEF FailuresHeard

-------------------------------------------------------------------------------
(* Refinement *)

(* The abstract step of each kind of step, pointwise. *)
SameLife(e) == Life(e)' = Life(e)

LEMMA StutterLifetime ==
  ASSUME \A e \in Entries : SameLife(e), UNCHANGED pending
  PROVE  UNCHANGED Lifetime!vars
BY DEF SameLife, Lifetime!vars

LEMMA OpenLifetime ==
  ASSUME NEW e \in Entries, Life(e) = "unused", Life(e)' = "open",
         \A f \in Entries \ {e} : SameLife(f), UNCHANGED pending
  PROVE  Lifetime!Next
<1>1. Lifetime!Open(e)
  BY DEF SameLife, Lifetime!Open
<1> QED
  BY <1>1 DEF Lifetime!Next

LEMMA UseLifetime ==
  ASSUME NEW e \in Entries, Life(e) = "open", \A f \in Entries : SameLife(f),
         pending' = [pending EXCEPT ![e] = @ + 1]
  PROVE  Lifetime!Next
<1>1. Lifetime!Use(e)
  BY DEF SameLife, Lifetime!Use
<1> QED
  BY <1>1 DEF Lifetime!Next

LEMMA FinishLifetime ==
  ASSUME NEW e \in Entries, pending[e] > 0, pending' = [pending EXCEPT ![e] = @ - 1],
         \A f \in Entries \ {e} : SameLife(f),
         SameLife(e) \/ (pending[e] = 1 /\ Life(e) = "open" /\ Life(e)' = "closing")
  PROVE  Lifetime!Next
<1>1. Lifetime!Finish(e)
  BY DEF SameLife, Lifetime!Finish
<1> QED
  BY <1>1 DEF Lifetime!Next

LEMMA CloseLifetime ==
  ASSUME NEW S \in SUBSET Entries, UNCHANGED pending,
         \A e \in S : Life(e) = "open" /\ Life(e)' = "closing" /\ pending[e] = 0,
         \A e \in Entries \ S : SameLife(e)
  PROVE  Lifetime!Next
<1>1. Lifetime!Close(S)
  BY DEF SameLife, Lifetime!Close
<1> QED
  BY <1>1 DEF Lifetime!Next

LEMMA ClosedLifetime ==
  ASSUME NEW e \in Entries, Life(e) = "closing", Life(e)' = "closed",
         \A f \in Entries \ {e} : SameLife(f), UNCHANGED pending
  PROVE  Lifetime!Next
<1>1. Lifetime!Closed(e)
  BY DEF SameLife, Lifetime!Closed
<1> QED
  BY <1>1 DEF Lifetime!Next

(* What commit, discard and dispose have in common: some open entries are retired. *)
LEMMA RetireRefines ==
  ASSUME TypeOK, NEW S \in SUBSET Created, NEW who, Retire(S, who),
         \A e \in S : state[e] = "open", UNCHANGED <<config, pending>>
  PROVE  Lifetime!Next
<1>1. Idle(S) \in SUBSET Entries
  BY DEF Idle
<1>2. \A e \in Idle(S) : Life(e) = "open" /\ Life(e)' = "closing" /\ pending[e] = 0
  BY DEF TypeOK, Retire, Idle, Life
<1>3. \A e \in Entries \ Idle(S) : SameLife(e)
  BY DEF TypeOK, Retire, Idle, Held, Life, SameLife
<1> QED
  BY <1>1, <1>2, <1>3, CloseLifetime

(* The registry keeps the promise of ResourceLifetime: a resource closes at most
   once, only when no operation holds it, and no operation starts on it later. *)
THEOREM ImplementsResourceLifetime == Spec => ImplementsLifetime
<1>1. Init => Lifetime!Init
  BY DEF Init, Lifetime!Init, Life
<1>2. ASSUME TypeOK, ResourceInv, [Next]_vars
      PROVE  [Lifetime!Next]_(Lifetime!vars)
  <2> USE DEF TypeOK
  <2>1. CASE UNCHANGED <<config, state, pending>>
    BY <2>1, StutterLifetime DEF SameLife, Life
  <2>2. ASSUME NEW c \in Configs, NEW e \in Entries, Create(c, e)
        PROVE  Lifetime!Next
    <3>1. /\ Life(e) = "unused" /\ Life(e)' = "open"
          /\ \A f \in Entries \ {e} : SameLife(f)
      BY <1>2, <2>2 DEF Create, ResourceInv, RetireInv, Life, SameLife
    <3> QED
      BY <1>2, <2>2, <3>1, OpenLifetime DEF Create
  <2>3. CASE Commit
    <3> DEFINE replaced == Idle((active \cup retained) \ claimed)
    <3>1. \A e \in replaced : e \in Created /\ state[e] = "open"
      BY <1>2 DEF ResourceInv, ListInv, Idle
    <3> QED
      BY <1>2, <2>3, <3>1, RetireRefines DEF Commit, Idle
  <2>4. CASE Discard
    <3> DEFINE entries == opened \cup Idle(claimed \cap retained)
    <3>1. \A e \in entries : e \in Created /\ state[e] = "open"
      BY <1>2 DEF ResourceInv, ListInv, Idle
    <3> QED
      BY <1>2, <2>4, <3>1, RetireRefines DEF Discard
  <2>5. CASE Dispose
    <3>1. \A e \in Listed : e \in Created /\ state[e] = "open"
      BY <1>2 DEF ResourceInv, ListInv
    <3> QED
      BY <1>2, <2>5, <3>1, RetireRefines DEF Dispose
  <2>6. ASSUME NEW e \in Entries, Hold(e)
        PROVE  Lifetime!Next
    <3>1. Life(e) = "open" /\ \A f \in Entries : SameLife(f)
      BY <1>2, <2>6 DEF Hold, Life, SameLife
    <3> QED
      BY <1>2, <2>6, <3>1, UseLifetime DEF Hold
  <2>7. ASSUME NEW e \in Entries, FinishOperation(e)
        PROVE  Lifetime!Next
    <3>1. \A f \in Entries \ {e} : SameLife(f)
      BY <1>2, <2>7 DEF FinishOperation, Life, SameLife
    <3>2. SameLife(e) \/ (pending[e] = 1 /\ Life(e) = "open" /\ Life(e)' = "closing")
      BY <1>2, <2>7 DEF FinishOperation, AwaitingClose, ResourceInv, ListInv, RetireInv, Life,
                  SameLife
    <3> QED
      BY <1>2, <2>7, <3>1, <3>2, FinishLifetime DEF FinishOperation
  <2>8. ASSUME NEW e \in Entries, CloseSettles(e)
        PROVE  Lifetime!Next
    <3>1. Life(e) = "closing" /\ Life(e)' = "closed"
      BY <1>2, <2>8 DEF CloseSettles, ResourceInv, RetireInv, Life
    <3>2. \A f \in Entries \ {e} : SameLife(f)
      BY <1>2, <2>8 DEF CloseSettles, Life, SameLife
    <3> QED
      BY <1>2, <2>8, <3>1, <3>2, ClosedLifetime DEF CloseSettles
  <2>9. CASE \/ \E c \in Configs : Reuse(c)
             \/ Connected \/ Fail \/ Settled \/ UNCHANGED vars
    BY <2>1, <2>9 DEF Reuse, Connected, Fail, Settled, vars
  <2> QED
    BY <1>2, <2>2, <2>3, <2>4, <2>5, <2>6, <2>7, <2>8, <2>9 DEF Next
<1> QED
  BY <1>1, <1>2, Invariance, PTL DEF Spec, ImplementsLifetime, Lifetime!Spec
===============================================================================
