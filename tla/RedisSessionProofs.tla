-------------------------- MODULE RedisSessionProofs --------------------------
(* Proofs about RedisSession, for any requests, identifiers and attempts. *)
EXTENDS RedisSession, TLAPS

-------------------------------------------------------------------------------
(* What makes the properties inductive *)

Copied == {"remove", "withdraw", "giveUp", "drop", "rotated"}

(* What each request has read and chosen by the step it is at. *)
StepInv ==
    \A r \in Requests :
        /\ at[r] \in Copied \cup {"read", "copy", "published"}
             => to[r] \in Ids /\ located[r] \in Session /\ tries[r] <= RotateAttempts
        /\ at[r] \in Copied \cup {"copy"} => fields[r] \in Session
        /\ at[r] \in {"remove", "withdraw"} => tries[r] < RotateAttempts
        /\ at[r] = "drop" => tries[r] = RotateAttempts
        /\ at[r] \in {"idle", "touch", "touchAgain"} => tries[r] = 0
        /\ at[r] = "touch" => fields[r] \in Session /\ fields[r].activity < now[r]
        /\ at[r] = "token" => fields[r] \in Session /\ fields[r].token = None
        /\ at[r] \in {"token", "tokenAgain"} => tries[r] < TokenAttempts
        /\ at[r] = "save" => located[r] \in Session

(* Clients work on identifiers they were given. *)
KnownInv ==
    /\ Start \in known /\ out \subseteq known
    /\ \A r \in Requests : at[r] # "idle" => from[r] \in known
    /\ \A r \in Requests : at[r] = "published" => to[r] \in known

(* The copy a rotation made is as it was made until the rotation withdraws or
   publishes it, and no other rotation has the same one. *)
CopyInv ==
    /\ \A r \in Requests :
         at[r] \in Copied
             => \/ to[r] \in reused
                \/ to[r] \notin known /\ store[to[r]] = Replacement(r)
    /\ \A r, q \in Requests :
         r # q /\ to[r] = to[q] /\ {at[r], at[q]} \subseteq Copied \cup {"published"}
             => to[r] \in reused

(* A token once returned is the one the session has while it exists. *)
TokenInv ==
    \A r \in Requests :
        answer[r] # None
            => /\ at[r] = "done"
               /\ from[r] \notin reused /\ Exists(from[r]) => store[from[r]].token = answer[r]

SessionInv == StepInv /\ KnownInv /\ CopyInv /\ TokenInv

(* The value a request flashes is in no session, read or delivered before it runs. *)
FreshInv ==
    \A r \in Requests \ {None} :
        at[r] = "idle" => /\ \A id \in Ids : Exists(id) => store[id].flash # r
                          /\ \A q \in Requests : fields[q] # None => fields[q].flash # r
                          /\ \A x \in takes : x.flash # r

(* What was taken under an identifier is not there any more. *)
TakenInv ==
    /\ \A x \in takes : x.id \in known /\ x.flash # None
    /\ \A x \in takes : x.flash \notin Noise /\ x.id \notin reused =>
         /\ Exists(x.id) => store[x.id].flash # x.flash
         /\ \A y \in takes : x.flash = y.flash /\ x.id = y.id => x = y

(* The sessions clients have or will be sent, but for those of contended rotations. *)
Live(id) ==
    \/ id \in known
    \/ \E r \in Requests : at[r] = "rotated" /\ tries[r] < RotateAttempts /\ to[r] = id

Has(id, flash) ==
    \/ \E x \in takes : x.id = id /\ x.flash = flash
    \/ Live(id) /\ Exists(id) /\ store[id].flash = flash

(* The same, while a contended rotation has not published its session. *)
Kin(C) ==
    /\ C \cap reused = {}
    /\ \A r \in Requests : Rotated(r) /\ to[r] \in C => from[r] \in C
    /\ \A r \in Requests : at[r] = "published" /\ tries[r] = RotateAttempts => from[r] \notin C

(* A flash value is at one place of a family, delivered or not. *)
OncePlaceInv ==
    \A C \in SUBSET Ids : Kin(C) =>
        \A a, b \in C, flash \in Flashes \ (Noise \cup {None}) : Has(a, flash) /\ Has(b, flash) => a = b

FlashInv == FreshInv /\ TakenInv /\ OncePlaceInv

USE SessionAssumption, NoneIsNoSession DEF Exists, Goto, Put, SameRecord, Some, history

(* The inductive invariant: what a request relies on between two scripts, together
   with the properties that follow from it only jointly. *)
Promises == NoStray /\ NeverRevived /\ OneSuccessor /\ LogoutStopsRotation /\ TokensAgree

Inv == TypeOK /\ SessionInv /\ Promises

(* Each script of each operation preserves the invariant, whoever runs it and whenever. *)
LEMMA MissingStep ==
  ASSUME NEW r \in Requests, NEW id \in Ids, Inv, Missing(r, id)
  PROVE  Inv'
<1> USE DEF Inv, SessionInv, Promises, Missing, On
<1>1. TypeOK'
  BY DEF TypeOK, Ends
<1>2. StepInv'
  BY DEF StepInv, Copied
<1>3. KnownInv'
  BY DEF TypeOK, KnownInv
<1>4. CopyInv'
  BY DEF CopyInv, Copied, Replacement
<1>5. TokenInv'
  BY DEF TokenInv
<1>6. NoStray'
  BY DEF TypeOK, StepInv, KnownInv, CopyInv, NoStray, Copied, Steps
<1>7. NeverRevived'
  BY DEF TypeOK, StepInv, KnownInv, CopyInv, NeverRevived, Rotated, Copied, Steps
<1>8. OneSuccessor'
  BY DEF TypeOK, StepInv, KnownInv, CopyInv, NeverRevived, OneSuccessor, Rotated, Contended, Copied, Steps
<1>9. LogoutStopsRotation'
  BY DEF TypeOK, StepInv, KnownInv, NeverRevived, LogoutStopsRotation, Rotated, Contended, Copied, Steps
<1>10. TokensAgree'
  BY DEF TypeOK, KnownInv, TokenInv, TokensAgree, Steps
<1> QED
  BY <1>1, <1>2, <1>3, <1>4, <1>5, <1>6, <1>7, <1>8, <1>9, <1>10

LEMMA LocateStep ==
  ASSUME NEW r \in Requests, NEW id \in Ids, NEW next \in Ids, Inv, Locate(r, id, next)
  PROVE  Inv'
<1> USE DEF Inv, SessionInv, Promises, Locate
<1>1. TypeOK'
  BY DEF TypeOK, Steps
<1>2. StepInv'
  BY DEF TypeOK, StepInv, Copied
<1>3. KnownInv'
  BY DEF TypeOK, KnownInv
<1>4. CopyInv'
  BY DEF CopyInv, Copied, Replacement
<1>5. TokenInv'
  BY DEF TokenInv
<1>6. NoStray'
  BY DEF TypeOK, StepInv, KnownInv, CopyInv, NoStray, Copied, Steps
<1>7. NeverRevived'
  BY DEF TypeOK, StepInv, KnownInv, CopyInv, NeverRevived, Rotated, Copied, Steps
<1>8. OneSuccessor'
  BY DEF TypeOK, StepInv, KnownInv, CopyInv, NeverRevived, OneSuccessor, Rotated, Contended, Copied, Steps
<1>9. LogoutStopsRotation'
  BY DEF TypeOK, StepInv, KnownInv, NeverRevived, LogoutStopsRotation, Rotated, Contended, Copied, Steps
<1>10. TokensAgree'
  BY DEF TypeOK, KnownInv, TokenInv, TokensAgree, Steps
<1> QED
  BY <1>1, <1>2, <1>3, <1>4, <1>5, <1>6, <1>7, <1>8, <1>9, <1>10

LEMMA ReadSourceStep ==
  ASSUME NEW r \in Requests, Inv, ReadSource(r)
  PROVE  Inv'
<1> USE DEF Inv, SessionInv, Promises, ReadSource
<1>1. TypeOK'
  BY DEF TypeOK, KnownInv, Steps
<1>2. StepInv'
  BY DEF TypeOK, StepInv, KnownInv
<1>3. KnownInv'
  BY DEF KnownInv
<1>4. CopyInv'
  BY DEF CopyInv, Copied, Replacement
<1>5. TokenInv'
  BY DEF TokenInv
<1>6. NoStray'
  BY DEF TypeOK, StepInv, KnownInv, CopyInv, NoStray, Copied, Steps
<1>7. NeverRevived'
  BY DEF TypeOK, StepInv, KnownInv, CopyInv, NeverRevived, Rotated, Copied, Steps
<1>8. OneSuccessor'
  BY DEF TypeOK, StepInv, KnownInv, CopyInv, NeverRevived, OneSuccessor, Rotated, Contended, Copied, Steps
<1>9. LogoutStopsRotation'
  BY DEF TypeOK, StepInv, KnownInv, NeverRevived, LogoutStopsRotation, Rotated, Contended, Copied, Steps
<1>10. TokensAgree'
  BY DEF TypeOK, KnownInv, TokenInv, TokensAgree, Steps
<1> QED
  BY <1>1, <1>2, <1>3, <1>4, <1>5, <1>6, <1>7, <1>8, <1>9, <1>10

LEMMA RefusedStep ==
  ASSUME NEW r \in Requests, Inv, Refused(r)
  PROVE  Inv'
<1> USE DEF Inv, SessionInv, Promises, Refused
<1>1. TypeOK'
  BY DEF TypeOK, Ends
<1>2. StepInv'
  BY DEF StepInv
<1>3. KnownInv'
  BY DEF KnownInv
<1>4. CopyInv'
  BY DEF CopyInv, Copied, Replacement
<1>5. TokenInv'
  BY DEF TokenInv
<1>6. NoStray'
  BY DEF TypeOK, StepInv, KnownInv, CopyInv, NoStray, Copied, Steps
<1>7. NeverRevived'
  BY DEF TypeOK, StepInv, KnownInv, CopyInv, NeverRevived, Rotated, Copied, Steps
<1>8. OneSuccessor'
  BY DEF TypeOK, StepInv, KnownInv, CopyInv, NeverRevived, OneSuccessor, Rotated, Contended, Copied, Steps
<1>9. LogoutStopsRotation'
  BY DEF TypeOK, StepInv, KnownInv, NeverRevived, LogoutStopsRotation, Rotated, Contended, Copied, Steps
<1>10. TokensAgree'
  BY DEF TypeOK, KnownInv, TokenInv, TokensAgree, Steps
<1> QED
  BY <1>1, <1>2, <1>3, <1>4, <1>5, <1>6, <1>7, <1>8, <1>9, <1>10

LEMMA CopyStep ==
  ASSUME NEW r \in Requests, Inv, Copy(r)
  PROVE  Inv'
<1> USE DEF Inv, SessionInv, Promises, Copy
<1>1. TypeOK'
  BY DEF TypeOK, StepInv, Steps, Session, Replacement
<1>2. StepInv'
  BY DEF TypeOK, StepInv
<1>3. KnownInv'
  BY DEF KnownInv
<1>4. CopyInv'
  <2>1. \A q \in Requests :
          at[q] \in Copied => Replacement(q) \in Session
    BY DEF TypeOK, StepInv, Session, Replacement
  <2>2. ASSUME NEW q \in Requests, at[q] \in Copied \cup {"published"}, to[q] = to[r]
        PROVE  to[r] \in reused'
    <3>1. CASE at[q] = "published"
      BY <2>2, <3>1 DEF KnownInv
    <3>2. CASE at[q] \in Copied
      BY <2>1, <2>2, <3>2 DEF CopyInv
    <3> QED
      BY <2>2, <3>1, <3>2
  <2>3. to[r] \in Ids
    BY DEF StepInv
  <2>4. ASSUME NEW q \in Requests, at'[q] \in Copied
        PROVE  \/ to'[q] \in reused'
               \/ to'[q] \notin known' /\ store'[to'[q]] = Replacement(q)'
    <3>1. CASE q = r
      BY <3>1, <2>3 DEF TypeOK, Replacement
    <3>2. CASE q # r
      BY <3>2, <2>2, <2>3, <2>4 DEF TypeOK, CopyInv, Replacement
    <3> QED
      BY <3>1, <3>2
  <2>5. \A p, q \in Requests :
          p # q /\ to'[p] = to'[q] /\ {at'[p], at'[q]} \subseteq Copied \cup {"published"}
              => to'[p] \in reused'
    BY <2>2 DEF TypeOK, CopyInv
  <2> QED
    BY <2>4, <2>5 DEF CopyInv
<1>5. TokenInv'
  BY DEF KnownInv, TokenInv
<1>6. NoStray'
  BY DEF TypeOK, StepInv, KnownInv, CopyInv, NoStray, Copied, Steps
<1>7. NeverRevived'
  BY DEF TypeOK, StepInv, KnownInv, CopyInv, NeverRevived, Rotated, Copied, Steps
<1>8. OneSuccessor'
  BY DEF TypeOK, StepInv, KnownInv, CopyInv, NeverRevived, OneSuccessor, Rotated, Contended, Copied, Steps
<1>9. LogoutStopsRotation'
  BY DEF TypeOK, StepInv, KnownInv, NeverRevived, LogoutStopsRotation, Rotated, Contended, Copied, Steps
<1>10. TokensAgree'
  BY DEF TypeOK, KnownInv, TokenInv, TokensAgree, Steps
<1> QED
  BY <1>1, <1>2, <1>3, <1>4, <1>5, <1>6, <1>7, <1>8, <1>9, <1>10

LEMMA RemoveStep ==
  ASSUME NEW r \in Requests, Inv, Remove(r)
  PROVE  Inv'
<1> USE DEF Inv, SessionInv, Promises, Remove
<1>1. TypeOK'
  BY DEF TypeOK, Steps
<1>2. StepInv'
  BY DEF StepInv, Copied
<1>3. KnownInv'
  BY DEF KnownInv
<1>4. CopyInv'
  BY DEF KnownInv, CopyInv, Copied, Replacement
<1>5. TokenInv'
  BY DEF TokenInv
<1>6. NoStray'
  BY DEF TypeOK, StepInv, KnownInv, CopyInv, NoStray, Copied, Steps
<1>7. NeverRevived'
  BY DEF TypeOK, StepInv, KnownInv, CopyInv, NeverRevived, Rotated, Copied, Steps
<1>8. OneSuccessor'
  BY DEF TypeOK, StepInv, KnownInv, CopyInv, NeverRevived, OneSuccessor, Rotated, Contended, Copied, Steps
<1>9. LogoutStopsRotation'
  BY DEF TypeOK, StepInv, KnownInv, NeverRevived, LogoutStopsRotation, Rotated, Contended, Copied, Steps
<1>10. TokensAgree'
  BY DEF TypeOK, KnownInv, TokenInv, TokensAgree, Steps
<1> QED
  BY <1>1, <1>2, <1>3, <1>4, <1>5, <1>6, <1>7, <1>8, <1>9, <1>10

LEMMA ChangedStep ==
  ASSUME NEW r \in Requests, Inv, Changed(r)
  PROVE  Inv'
<1> USE DEF Inv, SessionInv, Promises, Changed
<1>1. TypeOK'
  BY DEF TypeOK, Steps
<1>2. StepInv'
  BY DEF StepInv, Copied
<1>3. KnownInv'
  BY DEF KnownInv
<1>4. CopyInv'
  BY DEF CopyInv, Copied, Replacement
<1>5. TokenInv'
  BY DEF TokenInv
<1>6. NoStray'
  BY DEF TypeOK, StepInv, KnownInv, CopyInv, NoStray, Copied, Steps
<1>7. NeverRevived'
  BY DEF TypeOK, StepInv, KnownInv, CopyInv, NeverRevived, Rotated, Copied, Steps
<1>8. OneSuccessor'
  BY DEF TypeOK, StepInv, KnownInv, CopyInv, NeverRevived, OneSuccessor, Rotated, Contended, Copied, Steps
<1>9. LogoutStopsRotation'
  BY DEF TypeOK, StepInv, KnownInv, NeverRevived, LogoutStopsRotation, Rotated, Contended, Copied, Steps
<1>10. TokensAgree'
  BY DEF TypeOK, KnownInv, TokenInv, TokensAgree, Steps
<1> QED
  BY <1>1, <1>2, <1>3, <1>4, <1>5, <1>6, <1>7, <1>8, <1>9, <1>10

LEMMA WithdrawStep ==
  ASSUME NEW r \in Requests, Inv, Withdraw(r)
  PROVE  Inv'
<1> USE DEF Inv, SessionInv, Promises, Withdraw
<1>1. TypeOK'
  BY DEF TypeOK, StepInv, Steps, Ends, Copied
<1>2. StepInv'
  BY DEF TypeOK, StepInv, Copied
<1>3. KnownInv'
  BY DEF TypeOK, KnownInv
<1>4. CopyInv'
  BY DEF TypeOK, CopyInv, Copied, Replacement
<1>5. TokenInv'
  BY DEF TypeOK, TokenInv
<1>6. NoStray'
  BY DEF TypeOK, StepInv, KnownInv, CopyInv, NoStray, Copied, Steps
<1>7. NeverRevived'
  BY DEF TypeOK, StepInv, KnownInv, CopyInv, NeverRevived, Rotated, Copied, Steps
<1>8. OneSuccessor'
  BY DEF TypeOK, StepInv, KnownInv, CopyInv, NeverRevived, OneSuccessor, Rotated, Contended, Copied, Steps
<1>9. LogoutStopsRotation'
  BY DEF TypeOK, StepInv, KnownInv, NeverRevived, LogoutStopsRotation, Rotated, Contended, Copied, Steps
<1>10. TokensAgree'
  BY DEF TypeOK, KnownInv, TokenInv, TokensAgree, Steps
<1> QED
  BY <1>1, <1>2, <1>3, <1>4, <1>5, <1>6, <1>7, <1>8, <1>9, <1>10

LEMMA DropStep ==
  ASSUME NEW r \in Requests, Inv, Drop(r)
  PROVE  Inv'
<1> USE DEF Inv, SessionInv, Promises, Drop
<1>1. TypeOK'
  BY DEF TypeOK, Steps
<1>2. StepInv'
  BY DEF StepInv, Copied
<1>3. KnownInv'
  BY DEF KnownInv
<1>4. CopyInv'
  BY DEF KnownInv, CopyInv, Copied, Replacement
<1>5. TokenInv'
  BY DEF TokenInv
<1>6. NoStray'
  BY DEF TypeOK, StepInv, KnownInv, CopyInv, NoStray, Copied, Steps
<1>7. NeverRevived'
  BY DEF TypeOK, StepInv, KnownInv, CopyInv, NeverRevived, Rotated, Copied, Steps
<1>8. OneSuccessor'
  BY DEF TypeOK, StepInv, KnownInv, CopyInv, NeverRevived, OneSuccessor, Rotated, Contended, Copied, Steps
<1>9. LogoutStopsRotation'
  BY DEF TypeOK, StepInv, KnownInv, NeverRevived, LogoutStopsRotation, Rotated, Contended, Copied, Steps
<1>10. TokensAgree'
  BY DEF TypeOK, KnownInv, TokenInv, TokensAgree, Steps
<1> QED
  BY <1>1, <1>2, <1>3, <1>4, <1>5, <1>6, <1>7, <1>8, <1>9, <1>10

LEMMA PublishStep ==
  ASSUME NEW r \in Requests, Inv, Publish(r)
  PROVE  Inv'
<1> USE DEF Inv, SessionInv, Promises, Publish
<1>1. TypeOK'
  BY DEF TypeOK, StepInv, Ends, Copied
<1>2. StepInv'
  BY DEF StepInv, Copied
<1>3. KnownInv'
  BY DEF KnownInv
<1>4. CopyInv'
  BY DEF TypeOK, CopyInv, Copied, Replacement
<1>5. TokenInv'
  BY DEF TokenInv
<1>6. NoStray'
  BY DEF TypeOK, StepInv, KnownInv, CopyInv, NoStray, Copied, Steps
<1>7. NeverRevived'
  BY DEF TypeOK, StepInv, KnownInv, CopyInv, NeverRevived, Rotated, Copied, Steps
<1>8. OneSuccessor'
  BY DEF TypeOK, StepInv, KnownInv, CopyInv, NeverRevived, OneSuccessor, Rotated, Contended, Copied, Steps
<1>9. LogoutStopsRotation'
  BY DEF TypeOK, StepInv, KnownInv, NeverRevived, LogoutStopsRotation, Rotated, Contended, Copied, Steps
<1>10. TokensAgree'
  BY DEF TypeOK, KnownInv, TokenInv, TokensAgree, Steps
<1> QED
  BY <1>1, <1>2, <1>3, <1>4, <1>5, <1>6, <1>7, <1>8, <1>9, <1>10

LEMMA TouchReadStep ==
  ASSUME NEW r \in Requests, NEW id \in Ids, NEW n \in 0 .. MaxTime, Inv, TouchRead(r, id, n)
  PROVE  Inv'
<1> USE DEF Inv, SessionInv, Promises, TouchRead, On
<1>1. TypeOK'
  BY DEF TypeOK, Steps, Ends
<1>2. StepInv'
  BY DEF TypeOK, StepInv, Copied
<1>3. KnownInv'
  BY DEF TypeOK, KnownInv
<1>4. CopyInv'
  BY DEF CopyInv, Copied, Replacement
<1>5. TokenInv'
  BY DEF TokenInv
<1>6. NoStray'
  BY DEF TypeOK, StepInv, KnownInv, CopyInv, NoStray, Copied, Steps
<1>7. NeverRevived'
  BY DEF TypeOK, StepInv, KnownInv, CopyInv, NeverRevived, Rotated, Copied, Steps
<1>8. OneSuccessor'
  BY DEF TypeOK, StepInv, KnownInv, CopyInv, NeverRevived, OneSuccessor, Rotated, Contended, Copied, Steps
<1>9. LogoutStopsRotation'
  BY DEF TypeOK, StepInv, KnownInv, NeverRevived, LogoutStopsRotation, Rotated, Contended, Copied, Steps
<1>10. TokensAgree'
  BY DEF TypeOK, KnownInv, TokenInv, TokensAgree, Steps
<1> QED
  BY <1>1, <1>2, <1>3, <1>4, <1>5, <1>6, <1>7, <1>8, <1>9, <1>10

LEMMA TouchWriteStep ==
  ASSUME NEW r \in Requests, Inv, TouchWrite(r)
  PROVE  Inv'
<1> USE DEF Inv, SessionInv, Promises, TouchWrite
<1>1. TypeOK'
  BY DEF TypeOK, Steps, Ends, Session
<1>2. StepInv'
  BY DEF TypeOK, StepInv, Copied
<1>3. KnownInv'
  BY DEF TypeOK, KnownInv
<1>4. CopyInv'
  BY DEF TypeOK, StepInv, KnownInv, CopyInv, Copied, Replacement
<1>5. TokenInv'
  BY DEF TypeOK, KnownInv, TokenInv, Session
<1>6. NoStray'
  BY DEF TypeOK, StepInv, KnownInv, CopyInv, NoStray, Copied, Steps
<1>7. NeverRevived'
  BY DEF TypeOK, StepInv, KnownInv, CopyInv, NeverRevived, Rotated, Copied, Steps
<1>8. OneSuccessor'
  BY DEF TypeOK, StepInv, KnownInv, CopyInv, NeverRevived, OneSuccessor, Rotated, Contended, Copied, Steps
<1>9. LogoutStopsRotation'
  BY DEF TypeOK, StepInv, KnownInv, NeverRevived, LogoutStopsRotation, Rotated, Contended, Copied, Steps
<1>10. TokensAgree'
  BY DEF TypeOK, KnownInv, TokenInv, TokensAgree, Steps
<1> QED
  BY <1>1, <1>2, <1>3, <1>4, <1>5, <1>6, <1>7, <1>8, <1>9, <1>10

LEMMA TokenReadStep ==
  ASSUME NEW r \in Requests, NEW id \in Ids, Inv, TokenRead(r, id)
  PROVE  Inv'
<1> USE DEF Inv, SessionInv, Promises, TokenRead, On
<1>1. TypeOK'
  BY DEF TypeOK, Steps, Ends, Session
<1>2. StepInv'
  BY DEF TypeOK, StepInv, Copied
<1>3. KnownInv'
  BY DEF TypeOK, KnownInv
<1>4. CopyInv'
  BY DEF CopyInv, Copied, Replacement
<1>5. TokenInv'
  BY DEF TypeOK, TokenInv
<1>6. NoStray'
  BY DEF TypeOK, StepInv, KnownInv, CopyInv, NoStray, Copied, Steps
<1>7. NeverRevived'
  BY DEF TypeOK, StepInv, KnownInv, CopyInv, NeverRevived, Rotated, Copied, Steps
<1>8. OneSuccessor'
  BY DEF TypeOK, StepInv, KnownInv, CopyInv, NeverRevived, OneSuccessor, Rotated, Contended, Copied, Steps
<1>9. LogoutStopsRotation'
  BY DEF TypeOK, StepInv, KnownInv, NeverRevived, LogoutStopsRotation, Rotated, Contended, Copied, Steps
<1>10. TokensAgree'
  BY DEF TypeOK, KnownInv, TokenInv, TokensAgree, Steps
<1> QED
  BY <1>1, <1>2, <1>3, <1>4, <1>5, <1>6, <1>7, <1>8, <1>9, <1>10

LEMMA TokenWriteStep ==
  ASSUME NEW r \in Requests, Inv, TokenWrite(r)
  PROVE  Inv'
<1> USE DEF Inv, SessionInv, Promises, TokenWrite
<1>1. TypeOK'
  BY DEF TypeOK, KnownInv, Ends, Session
<1>2. StepInv'
  BY DEF StepInv, Copied
<1>3. KnownInv'
  BY DEF KnownInv
<1>4. CopyInv'
  BY DEF KnownInv, CopyInv, Copied, Replacement
<1>5. TokenInv'
  BY DEF TypeOK, StepInv, KnownInv, TokenInv
<1>6. NoStray'
  BY DEF TypeOK, StepInv, KnownInv, CopyInv, NoStray, Copied, Steps
<1>7. NeverRevived'
  BY DEF TypeOK, StepInv, KnownInv, CopyInv, NeverRevived, Rotated, Copied, Steps
<1>8. OneSuccessor'
  BY DEF TypeOK, StepInv, KnownInv, CopyInv, NeverRevived, OneSuccessor, Rotated, Contended, Copied, Steps
<1>9. LogoutStopsRotation'
  BY DEF TypeOK, StepInv, KnownInv, NeverRevived, LogoutStopsRotation, Rotated, Contended, Copied, Steps
<1>10. TokensAgree'
  BY DEF TypeOK, StepInv, KnownInv, TokenInv, TokensAgree, Steps
<1> QED
  BY <1>1, <1>2, <1>3, <1>4, <1>5, <1>6, <1>7, <1>8, <1>9, <1>10

LEMMA TokenContendedStep ==
  ASSUME NEW r \in Requests, Inv, TokenContended(r)
  PROVE  Inv'
<1> USE DEF Inv, SessionInv, Promises, TokenContended
<1>1. TypeOK'
  BY DEF TypeOK, StepInv, Steps, Ends
<1>2. StepInv'
  BY DEF TypeOK, StepInv, Copied
<1>3. KnownInv'
  BY DEF KnownInv
<1>4. CopyInv'
  BY DEF CopyInv, Copied, Replacement
<1>5. TokenInv'
  BY DEF TokenInv
<1>6. NoStray'
  BY DEF TypeOK, StepInv, KnownInv, CopyInv, NoStray, Copied, Steps
<1>7. NeverRevived'
  BY DEF TypeOK, StepInv, KnownInv, CopyInv, NeverRevived, Rotated, Copied, Steps
<1>8. OneSuccessor'
  BY DEF TypeOK, StepInv, KnownInv, CopyInv, NeverRevived, OneSuccessor, Rotated, Contended, Copied, Steps
<1>9. LogoutStopsRotation'
  BY DEF TypeOK, StepInv, KnownInv, NeverRevived, LogoutStopsRotation, Rotated, Contended, Copied, Steps
<1>10. TokensAgree'
  BY DEF TypeOK, KnownInv, TokenInv, TokensAgree, Steps
<1> QED
  BY <1>1, <1>2, <1>3, <1>4, <1>5, <1>6, <1>7, <1>8, <1>9, <1>10

LEMMA FlashStep ==
  ASSUME NEW r \in Requests, NEW id \in Ids, Inv, Flash(r, id)
  PROVE  Inv'
<1> USE DEF Inv, SessionInv, Promises, Flash
<1>1. TypeOK'
  BY DEF TypeOK, Ends, Flashes, Session
<1>2. StepInv'
  BY DEF StepInv, Copied
<1>3. KnownInv'
  BY DEF TypeOK, KnownInv
<1>4. CopyInv'
  BY DEF CopyInv, Copied, Replacement
<1>5. TokenInv'
  BY DEF TokenInv
<1>6. NoStray'
  BY DEF TypeOK, StepInv, KnownInv, CopyInv, NoStray, Copied, Steps
<1>7. NeverRevived'
  BY DEF TypeOK, StepInv, KnownInv, CopyInv, NeverRevived, Rotated, Copied, Steps
<1>8. OneSuccessor'
  BY DEF TypeOK, StepInv, KnownInv, CopyInv, NeverRevived, OneSuccessor, Rotated, Contended, Copied, Steps
<1>9. LogoutStopsRotation'
  BY DEF TypeOK, StepInv, KnownInv, NeverRevived, LogoutStopsRotation, Rotated, Contended, Copied, Steps
<1>10. TokensAgree'
  BY DEF TypeOK, KnownInv, TokenInv, TokensAgree, Steps
<1> QED
  BY <1>1, <1>2, <1>3, <1>4, <1>5, <1>6, <1>7, <1>8, <1>9, <1>10

LEMMA TakeStep ==
  ASSUME NEW r \in Requests, NEW id \in Ids, Inv, Take(r, id)
  PROVE  Inv'
<1> USE DEF Inv, SessionInv, Promises, Take
<1>1. TypeOK'
  BY DEF TypeOK, Ends, Session
<1>2. StepInv'
  BY DEF StepInv, Copied
<1>3. KnownInv'
  BY DEF TypeOK, KnownInv
<1>4. CopyInv'
  BY DEF CopyInv, Copied, Replacement
<1>5. TokenInv'
  BY DEF TokenInv
<1>6. NoStray'
  BY DEF TypeOK, StepInv, KnownInv, CopyInv, NoStray, Copied, Steps
<1>7. NeverRevived'
  BY DEF TypeOK, StepInv, KnownInv, CopyInv, NeverRevived, Rotated, Copied, Steps
<1>8. OneSuccessor'
  BY DEF TypeOK, StepInv, KnownInv, CopyInv, NeverRevived, OneSuccessor, Rotated, Contended, Copied, Steps
<1>9. LogoutStopsRotation'
  BY DEF TypeOK, StepInv, KnownInv, NeverRevived, LogoutStopsRotation, Rotated, Contended, Copied, Steps
<1>10. TokensAgree'
  BY DEF TypeOK, KnownInv, TokenInv, TokensAgree, Steps
<1> QED
  BY <1>1, <1>2, <1>3, <1>4, <1>5, <1>6, <1>7, <1>8, <1>9, <1>10

LEMMA LogoutStep ==
  ASSUME NEW r \in Requests, NEW id \in Ids, Inv, Logout(r, id)
  PROVE  Inv'
<1> USE DEF Inv, SessionInv, Promises, Logout
<1>1. TypeOK'
  BY DEF TypeOK, Ends
<1>2. StepInv'
  BY DEF StepInv, Copied
<1>3. KnownInv'
  BY DEF TypeOK, KnownInv
<1>4. CopyInv'
  BY DEF TypeOK, StepInv, KnownInv, CopyInv, Copied, Replacement
<1>5. TokenInv'
  BY DEF TokenInv
<1>6. NoStray'
  BY DEF TypeOK, StepInv, KnownInv, CopyInv, NoStray, Copied, Steps
<1>7. NeverRevived'
  BY DEF TypeOK, StepInv, KnownInv, CopyInv, NeverRevived, Rotated, Copied, Steps
<1>8. OneSuccessor'
  BY DEF TypeOK, StepInv, KnownInv, CopyInv, NeverRevived, OneSuccessor, Rotated, Contended, Copied, Steps
<1>9. LogoutStopsRotation'
  BY DEF TypeOK, StepInv, KnownInv, NeverRevived, LogoutStopsRotation, Rotated, Contended, Copied, Steps
<1>10. TokensAgree'
  BY DEF TypeOK, KnownInv, TokenInv, TokensAgree, Steps
<1> QED
  BY <1>1, <1>2, <1>3, <1>4, <1>5, <1>6, <1>7, <1>8, <1>9, <1>10

LEMMA SaveReadStep ==
  ASSUME NEW r \in Requests, NEW id \in Ids, Inv, SaveRead(r, id)
  PROVE  Inv'
<1> USE DEF Inv, SessionInv, Promises, SaveRead
<1>1. TypeOK'
  BY DEF TypeOK, Steps
<1>2. StepInv'
  BY DEF TypeOK, StepInv, Copied
<1>3. KnownInv'
  BY DEF TypeOK, KnownInv
<1>4. CopyInv'
  BY DEF CopyInv, Copied, Replacement
<1>5. TokenInv'
  BY DEF TokenInv
<1>6. NoStray'
  BY DEF TypeOK, StepInv, KnownInv, CopyInv, NoStray, Copied, Steps
<1>7. NeverRevived'
  BY DEF TypeOK, StepInv, KnownInv, CopyInv, NeverRevived, Rotated, Copied, Steps
<1>8. OneSuccessor'
  BY DEF TypeOK, StepInv, KnownInv, CopyInv, NeverRevived, OneSuccessor, Rotated, Contended, Copied, Steps
<1>9. LogoutStopsRotation'
  BY DEF TypeOK, StepInv, KnownInv, NeverRevived, LogoutStopsRotation, Rotated, Contended, Copied, Steps
<1>10. TokensAgree'
  BY DEF TypeOK, KnownInv, TokenInv, TokensAgree, Steps
<1> QED
  BY <1>1, <1>2, <1>3, <1>4, <1>5, <1>6, <1>7, <1>8, <1>9, <1>10

LEMMA SaveWriteStep ==
  ASSUME NEW r \in Requests, Inv, SaveWrite(r)
  PROVE  Inv'
<1> USE DEF Inv, SessionInv, Promises, SaveWrite
<1>1. TypeOK'
  BY DEF TypeOK, StepInv, KnownInv, Ends, Session
<1>2. StepInv'
  BY DEF StepInv, Copied
<1>3. KnownInv'
  BY DEF KnownInv
<1>4. CopyInv'
  BY DEF CopyInv, Copied, Replacement
<1>5. TokenInv'
  BY DEF TokenInv
<1>6. NoStray'
  BY DEF TypeOK, StepInv, KnownInv, CopyInv, NoStray, Copied, Steps
<1>7. NeverRevived'
  BY DEF TypeOK, StepInv, KnownInv, CopyInv, NeverRevived, Rotated, Copied, Steps
<1>8. OneSuccessor'
  BY DEF TypeOK, StepInv, KnownInv, CopyInv, NeverRevived, OneSuccessor, Rotated, Contended, Copied, Steps
<1>9. LogoutStopsRotation'
  BY DEF TypeOK, StepInv, KnownInv, NeverRevived, LogoutStopsRotation, Rotated, Contended, Copied, Steps
<1>10. TokensAgree'
  BY DEF TypeOK, KnownInv, TokenInv, TokensAgree, Steps
<1> QED
  BY <1>1, <1>2, <1>3, <1>4, <1>5, <1>6, <1>7, <1>8, <1>9, <1>10

LEMMA InterruptStep ==
  ASSUME NEW r \in Requests, Inv, Interrupt(r)
  PROVE  Inv'
<1> USE DEF Inv, SessionInv, Promises, Interrupt
<1>1. TypeOK'
  BY DEF TypeOK, Ends
<1>2. StepInv'
  BY DEF StepInv, Copied
<1>3. KnownInv'
  BY DEF KnownInv, Steps
<1>4. CopyInv'
  BY DEF CopyInv, Copied, Replacement
<1>5. TokenInv'
  BY DEF TokenInv, Steps
<1>6. NoStray'
  BY DEF TypeOK, StepInv, KnownInv, CopyInv, NoStray, Copied, Steps
<1>7. NeverRevived'
  BY DEF TypeOK, StepInv, KnownInv, CopyInv, NeverRevived, Rotated, Copied, Steps
<1>8. OneSuccessor'
  BY DEF TypeOK, StepInv, KnownInv, CopyInv, NeverRevived, OneSuccessor, Rotated, Contended, Copied, Steps
<1>9. LogoutStopsRotation'
  BY DEF TypeOK, StepInv, KnownInv, NeverRevived, LogoutStopsRotation, Rotated, Contended, Copied, Steps
<1>10. TokensAgree'
  BY DEF TypeOK, KnownInv, TokenInv, TokensAgree, Steps
<1> QED
  BY <1>1, <1>2, <1>3, <1>4, <1>5, <1>6, <1>7, <1>8, <1>9, <1>10

LEMMA ExpireStep ==
  ASSUME NEW id \in Ids, Inv, Expire(id)
  PROVE  Inv'
<1> USE DEF Inv, SessionInv, Promises, Expire
<1>1. TypeOK'
  BY DEF TypeOK
<1>2. StepInv'
  BY DEF StepInv
<1>3. KnownInv'
  BY DEF KnownInv
<1>4. CopyInv'
  BY DEF CopyInv, Replacement
<1>5. TokenInv'
  BY DEF TokenInv
<1>6. NoStray'
  BY DEF TypeOK, StepInv, KnownInv, CopyInv, NoStray, Copied, Steps
<1>7. NeverRevived'
  BY DEF TypeOK, StepInv, KnownInv, CopyInv, NeverRevived, Rotated, Copied, Steps
<1>8. OneSuccessor'
  BY DEF TypeOK, StepInv, KnownInv, CopyInv, NeverRevived, OneSuccessor, Rotated, Contended, Copied, Steps
<1>9. LogoutStopsRotation'
  BY DEF TypeOK, StepInv, KnownInv, NeverRevived, LogoutStopsRotation, Rotated, Contended, Copied, Steps
<1>10. TokensAgree'
  BY DEF TypeOK, KnownInv, TokenInv, TokensAgree, Steps
<1> QED
  BY <1>1, <1>2, <1>3, <1>4, <1>5, <1>6, <1>7, <1>8, <1>9, <1>10

LEMMA DisturbStep ==
  ASSUME NEW id \in Ids, NEW value \in Noise, Inv, Disturb(id, value)
  PROVE  Inv'
<1> USE DEF Inv, SessionInv, Promises, Disturb
<1>1. TypeOK'
  BY DEF TypeOK, Flashes, Session
<1>2. StepInv'
  BY DEF StepInv
<1>3. KnownInv'
  BY DEF KnownInv
<1>4. CopyInv'
  BY DEF CopyInv, Replacement
<1>5. TokenInv'
  BY DEF TokenInv
<1>6. NoStray'
  BY DEF TypeOK, StepInv, KnownInv, CopyInv, NoStray, Copied, Steps
<1>7. NeverRevived'
  BY DEF TypeOK, StepInv, KnownInv, CopyInv, NeverRevived, Rotated, Copied, Steps
<1>8. OneSuccessor'
  BY DEF TypeOK, StepInv, KnownInv, CopyInv, NeverRevived, OneSuccessor, Rotated, Contended, Copied, Steps
<1>9. LogoutStopsRotation'
  BY DEF TypeOK, StepInv, KnownInv, NeverRevived, LogoutStopsRotation, Rotated, Contended, Copied, Steps
<1>10. TokensAgree'
  BY DEF TypeOK, KnownInv, TokenInv, TokensAgree, Steps
<1> QED
  BY <1>1, <1>2, <1>3, <1>4, <1>5, <1>6, <1>7, <1>8, <1>9, <1>10

-------------------------------------------------------------------------------

(* It holds at first, ... *)
LEMMA InitInv ==
  Init => Inv
<1> SUFFICES ASSUME Init
             PROVE  Inv
  OBVIOUS
<1> USE DEF Init
<1>1. TypeOK
  BY DEF TypeOK, Session, Flashes
<1>2. SessionInv
  BY DEF SessionInv, StepInv, KnownInv, CopyInv, TokenInv, Copied
<1>3. Promises
  BY DEF Promises, NoStray, NeverRevived, OneSuccessor, LogoutStopsRotation, TokensAgree, Rotated
<1> QED
  BY <1>1, <1>2, <1>3 DEF Inv

(* ... every step preserves it, ... *)
LEMMA NextInv ==
  Inv /\ [Next]_vars => Inv'
<1> SUFFICES ASSUME Inv, [Next]_vars
             PROVE  Inv'
  OBVIOUS
<1>1. ASSUME NEW r \in Requests, Continue(r)
      PROVE  Inv'
  BY <1>1, ReadSourceStep, RefusedStep, CopyStep, RemoveStep, ChangedStep, WithdrawStep, DropStep,
     PublishStep, TouchWriteStep, TokenWriteStep, TokenContendedStep, SaveWriteStep DEF Continue
<1>2. ASSUME NEW r \in Requests, NEW id \in Ids, Operate(r, id)
      PROVE  Inv'
  BY <1>2, MissingStep, LocateStep, TouchReadStep, TokenReadStep, FlashStep, TakeStep, LogoutStep,
     SaveReadStep DEF Operate
<1>3. ASSUME NEW r \in Requests, Interrupt(r)
      PROVE  Inv'
  BY <1>3, InterruptStep
<1>4. ASSUME NEW id \in Ids, Expire(id) \/ \E value \in Noise : Disturb(id, value)
      PROVE  Inv'
  BY <1>4, ExpireStep, DisturbStep
<1>5. CASE UNCHANGED vars
  BY <1>5 DEF vars, Inv, TypeOK, SessionInv, StepInv, KnownInv, CopyInv, TokenInv, Copied, Replacement,
     Promises, NoStray, NeverRevived, OneSuccessor, LogoutStopsRotation, TokensAgree, Rotated, Contended
<1> QED
  BY <1>1, <1>2, <1>3, <1>4, <1>5 DEF Next

(* ... and so it always holds. *)
LEMMA Invariance ==
  Spec => []Inv
<1> QED
  BY InitInv, NextInv, PTL DEF Spec

(* Every variable keeps to its type: a key holds a whole session or nothing, and a
   request is at one of the scripts of its operation. *)
THEOREM TypeCorrect ==
  Spec => []TypeOK
<1>1. Inv => TypeOK
  BY DEF Inv, Promises
<1> QED
  BY <1>1, Invariance, PTL

(* rotate cleans up after itself: a record under an identifier no client was given is
   the copy of a rotation under way or interrupted. *)
THEOREM StrayCopies ==
  Spec => []NoStray
<1>1. Inv => NoStray
  BY DEF Inv, Promises
<1> QED
  BY <1>1, Invariance, PTL

(* Compare-and-set touches, the EXISTS guards of the flash script and the
   compare-and-delete of rotate never bring back a session that was removed. *)
THEOREM OldSessionStaysGone ==
  Spec => []NeverRevived
<1>1. Inv => NeverRevived
  BY DEF Inv, Promises
<1> QED
  BY <1>1, Invariance, PTL

(* Concurrent rotations of one session that do not fall back to the unguarded delete
   leave one successor, and one new identifier goes to one rotation. *)
THEOREM SingleSuccessor ==
  Spec => []OneSuccessor
<1>1. Inv => OneSuccessor
  BY DEF Inv, Promises
<1> QED
  BY <1>1, Invariance, PTL

(* A logout or an expiry before the compare-and-delete of rotate makes it fail. *)
THEOREM LogoutWins ==
  Spec => []LogoutStopsRotation
<1>1. Inv => LogoutStopsRotation
  BY DEF Inv, Promises
<1> QED
  BY <1>1, Invariance, PTL

(* setDataIfAbsent gives every request of a session the same CSRF token. *)
THEOREM OneTokenPerSession ==
  Spec => []TokensAgree
<1>1. Inv => TokensAgree
  BY DEF Inv, Promises
<1> QED
  BY <1>1, Invariance, PTL

-------------------------------------------------------------------------------

(* The compare-and-delete of rotate succeeds only while the source holds the flash
   value that the copy was made with. *)
LEMMA RemoveMovesFlash ==
  ASSUME Inv, [Next]_vars, NEW r \in Requests, at[r] = "remove", at'[r] = "rotated", to[r] \notin reused
  PROVE  Exists(to[r]) /\ store[to[r]].flash = store[from[r]].flash
<1>1. store[to[r]] = Replacement(r) /\ fields[r] \in Session /\ located[r] \in Session
  BY DEF Inv, SessionInv, CopyInv, StepInv, Copied
<1>2. ASSUME NEW q \in Requests, q # r, Continue(q) \/ Interrupt(q) \/ \E id \in Ids : Operate(q, id)
      PROVE  FALSE
  BY <1>2 DEF Inv, TypeOK, Continue, Operate, Missing, Locate, ReadSource, Refused, Copy, Remove, Changed,
     Withdraw, Drop, Publish, TouchRead, TouchWrite, TokenRead, TokenWrite, TokenContended, Flash, Take,
     Logout, SaveRead, SaveWrite, Interrupt
<1>3. ASSUME Interrupt(r) \/ \E id \in Ids : Operate(r, id)
      PROVE  FALSE
  BY <1>3 DEF Inv, TypeOK, Operate, Missing, Locate, TouchRead, TokenRead, Flash, Take, Logout, SaveRead,
     Interrupt, On
<1>4. ASSUME \/ UNCHANGED vars
             \/ \E id \in Ids : Expire(id) \/ \E value \in Noise : Disturb(id, value)
      PROVE  FALSE
  BY <1>4 DEF vars, Expire, Disturb
<1>5. Continue(r)
  BY <1>2, <1>3, <1>4 DEF Next
<1>6. Remove(r)
  BY <1>5 DEF Inv, TypeOK, Continue, ReadSource, Refused, Copy, Changed, Withdraw, Drop, Publish,
     TouchWrite, TokenWrite, TokenContended, SaveWrite
<1> QED
  BY <1>1, <1>6 DEF Remove, Replacement, Session

(* rotate hands over the flash value the source has at the instant it is deleted. *)
THEOREM FlashHandedOver ==
  Spec => FlashMoves
<1>1. Inv /\ [Next]_vars
        => [\A r \in Requests :
              at[r] = "remove" /\ at'[r] = "rotated" /\ to[r] \notin reused
                  => Exists(to[r]) /\ store[to[r]].flash = store[from[r]].flash]_vars
  BY RemoveMovesFlash
<1> QED
  BY <1>1, Invariance, PTL DEF Spec, FlashMoves

-------------------------------------------------------------------------------
(* A flash value is delivered once: the second inductive invariant, on top of the first. *)

(* Where the flash values of the next state come from: they were there, read or delivered,
   other clients wrote them, or the request of that name has run. *)
Source(v) ==
    \/ v \in Noise \cup {None}
    \/ \E id \in Ids : Exists(id) /\ store[id].flash = v
    \/ \E q \in Requests : fields[q] # None /\ fields[q].flash = v
    \/ v \in Requests /\ at'[v] # "idle"

LEMMA FreshFrame ==
  ASSUME FreshInv,
         \A q \in Requests : at'[q] = "idle" => at[q] = "idle",
         \A id \in Ids : store'[id] # None => Source(store'[id].flash),
         \A q \in Requests : fields'[q] # None => Source(fields'[q].flash),
         \A x \in takes' \ takes : Source(x.flash)
  PROVE  FreshInv'
<1>1. ASSUME NEW r \in Requests \ {None}, at'[r] = "idle" PROVE ~ Source(r)
  <2>1. r \notin Noise \cup {None} /\ at[r] = "idle"
    BY <1>1
  <2> QED
    BY <1>1, <2>1 DEF FreshInv, Source
<1>2. ASSUME NEW r \in Requests \ {None}, at'[r] = "idle", NEW x \in takes' PROVE x.flash # r
  BY <1>1, <1>2 DEF FreshInv
<1> QED
  BY <1>1, <1>2 DEF FreshInv

LEMMA SessionFlash ==
  ASSUME NEW s \in Session, NEW v
  PROVE  /\ s # None
         /\ [s EXCEPT !.flash = v].flash = v
         /\ [s EXCEPT !.token = v].flash = s.flash
         /\ [s EXCEPT !.activity = v].flash = s.flash
BY DEF Session

(* A copy carries the flash value that was read. *)
LEMMA CopyFlash ==
  ASSUME NEW r \in Requests, Inv, at[r] \in Copied \cup {"copy"}
  PROVE  Replacement(r) # None /\ Replacement(r).flash = fields[r].flash /\ fields[r] # None
<1>1. located[r] \in Session /\ fields[r] \in Session
  BY DEF Inv, SessionInv, StepInv
<1>2. Replacement(r) \in Session
  BY <1>1 DEF Replacement, Session
<1> QED
  BY <1>1, <1>2, SessionFlash DEF Replacement

LEMMA StoreFlash ==
  ASSUME Inv, NEW id \in Ids, Exists(id)
  PROVE  store[id] \in Session
BY DEF Inv, TypeOK

(* Writing the last activity or the token leaves the flash value as it is. *)
LEMMA RecordFlash ==
  ASSUME NEW r \in Requests, Inv, TouchWrite(r) \/ TokenWrite(r)
  PROVE  \A id \in Ids : \/ store'[id] = store[id]
                         \/ store[id] \in Session /\ store'[id].flash = store[id].flash
<1>1. store \in [Ids -> Session \cup {None}] /\ from[r] \in Ids
  <2>1. at[r] \in {"touch", "token"}
    BY DEF TouchWrite, TokenWrite
  <2> QED
    BY <2>1 DEF Inv, TypeOK, SessionInv, KnownInv
<1>2. ASSUME NEW id \in Ids
      PROVE  store'[id] = store[id] \/ (store[id] \in Session /\ store'[id].flash = store[id].flash)
  <2>1. CASE id # from[r]
    BY <1>1, <2>1 DEF TouchWrite, TokenWrite
  <2>2. CASE store[from[r]] = None
    BY <1>1, <2>2 DEF TouchWrite, TokenWrite
  <2>3. CASE id = from[r] /\ store[id] # None
    <3>1. store[id] \in Session
      BY <1>1, <2>3
    <3>2. \/ UNCHANGED store
          \/ store' = [store EXCEPT ![id] = [store[id] EXCEPT !.activity = now[r]]]
          \/ store' = [store EXCEPT ![id] = [store[id] EXCEPT !.token = r]]
      BY <2>3 DEF TouchWrite, TokenWrite
    <3>3. \/ UNCHANGED store
          \/ store'[id] = [store[id] EXCEPT !.activity = now[r]]
          \/ store'[id] = [store[id] EXCEPT !.token = r]
      BY <1>1, <3>2
    <3>4. /\ [store[id] EXCEPT !.activity = now[r]].flash = store[id].flash
          /\ [store[id] EXCEPT !.token = r].flash = store[id].flash
      BY <3>1, SessionFlash
    <3> QED
      BY <3>1, <3>3, <3>4
  <2> QED
    BY <2>1, <2>2, <2>3
<1> QED
  BY <1>2

LEMMA FreshContinue ==
  ASSUME NEW r \in Requests, Inv, FreshInv, Continue(r)
  PROVE  FreshInv'
<1> USE DEF Source
<1>1. store \in [Ids -> Session \cup {None}] /\ fields \in [Requests -> Session \cup {None}]
      /\ at \in [Requests -> {"idle"} \cup Steps \cup Ends]
  BY DEF Inv, TypeOK
<1>2. CASE ReadSource(r)
  <2>1. from[r] \in Ids
    BY <1>2 DEF ReadSource, Inv, SessionInv, KnownInv, TypeOK
  <2> QED
    BY <1>1, <1>2, <2>1, FreshFrame DEF ReadSource
<1>3. CASE Refused(r) \/ Changed(r) \/ Publish(r) \/ TokenContended(r)
  BY <1>1, <1>3, FreshFrame DEF Refused, Changed, Publish, TokenContended
<1>4. CASE Remove(r) \/ Withdraw(r) \/ Drop(r)
  BY <1>1, <1>4, FreshFrame DEF Remove, Withdraw, Drop
<1>5. CASE Copy(r)
  <2>1. Replacement(r).flash = fields[r].flash /\ fields[r] # None
    BY <1>5, CopyFlash DEF Copy
  <2>2. \A id \in Ids : store'[id] = store[id] \/ store'[id] = Replacement(r)
    BY <1>1, <1>5 DEF Copy
  <2>3. \A id \in Ids : store'[id] # None => Source(store'[id].flash)
    BY <2>1, <2>2
  <2> QED
    BY <1>1, <1>5, <2>3, FreshFrame DEF Copy
<1>6. CASE TouchWrite(r) \/ TokenWrite(r) \/ SaveWrite(r)
  <2>1. from[r] \in Ids /\ (at[r] = "save" => located[r] \in Session)
    BY <1>6 DEF TouchWrite, TokenWrite, SaveWrite, Inv, SessionInv, KnownInv, StepInv, TypeOK
  <2>2. \A id \in Ids : store'[id] # None =>
          store'[id].flash = None \/ (store[id] # None /\ store'[id].flash = store[id].flash)
    <3>1. CASE TouchWrite(r) \/ TokenWrite(r)
      BY <3>1, RecordFlash, NoneIsNoSession
    <3>2. CASE SaveWrite(r)
      BY <1>1, <2>1, <3>2, SessionFlash DEF SaveWrite
    <3> QED
      BY <1>6, <3>1, <3>2
  <2>3. \A id \in Ids : store'[id] # None => Source(store'[id].flash)
    BY <2>2
  <2>4. /\ \A q \in Requests : at'[q] = "idle" => at[q] = "idle"
        /\ UNCHANGED <<fields, takes>>
    BY <1>1, <1>6 DEF TouchWrite, TokenWrite, SaveWrite
  <2> QED
    BY <2>3, <2>4, FreshFrame
<1> QED
  BY <1>2, <1>3, <1>4, <1>5, <1>6 DEF Continue

LEMMA FreshOther ==
  ASSUME Inv, FreshInv, NEW id \in Ids,
         \/ \E r \in Requests : Operate(r, id) \/ Interrupt(r)
         \/ Expire(id) \/ \E value \in Noise : Disturb(id, value)
  PROVE  FreshInv'
<1> USE DEF Source
<1>1. store \in [Ids -> Session \cup {None}] /\ fields \in [Requests -> Session \cup {None}]
      /\ at \in [Requests -> {"idle"} \cup Steps \cup Ends]
  BY DEF Inv, TypeOK
<1>2. ASSUME NEW r \in Requests, Operate(r, id) PROVE FreshInv'
  <2>1. CASE Missing(r, id) \/ SaveRead(r, id) \/ \E next \in Ids : Locate(r, id, next)
    BY <1>1, <2>1, FreshFrame DEF Missing, SaveRead, Locate
  <2>2. CASE TokenRead(r, id) \/ \E n \in 0 .. MaxTime : TouchRead(r, id, n)
    <3>1. /\ UNCHANGED <<store, takes>> /\ Exists(id)
          /\ fields' = [fields EXCEPT ![r] = store[id]]
          /\ \A q \in Requests : at'[q] = "idle" => at[q] = "idle"
      BY <1>1, <2>2 DEF TokenRead, TouchRead
    <3>2. \A q \in Requests : fields'[q] # None => Source(fields'[q].flash)
      BY <1>1, <3>1
    <3>3. \A i \in Ids : store'[i] # None => Source(store'[i].flash)
      BY <3>1
    <3> QED
      BY <3>1, <3>2, <3>3, FreshFrame
  <2>3. CASE Flash(r, id)
    <3>1. \A i \in Ids : store'[i] # None => store'[i].flash = r \/ store'[i] = store[i]
      BY <1>1, <2>3, SessionFlash DEF Flash
    <3>2. at'[r] # "idle" /\ UNCHANGED <<fields, takes>>
          /\ \A q \in Requests : at'[q] = "idle" => at[q] = "idle"
      BY <1>1, <2>3 DEF Flash
    <3>3. \A i \in Ids : store'[i] # None => Source(store'[i].flash)
      BY <3>1, <3>2
    <3>4. \A q \in Requests : fields'[q] # None => Source(fields'[q].flash)
      BY <3>2
    <3> QED
      BY <3>2, <3>3, <3>4, FreshFrame
  <2>4. CASE Take(r, id)
    <3>1. \A i \in Ids : store'[i] # None => store'[i].flash = None \/ store'[i] = store[i]
      BY <1>1, <2>4, SessionFlash DEF Take
    <3>2. UNCHANGED fields /\ \A q \in Requests : at'[q] = "idle" => at[q] = "idle"
      BY <1>1, <2>4 DEF Take
    <3>3. \A x \in takes' \ takes : x.flash = store[id].flash
      BY <2>4 DEF Take
    <3>4. \A i \in Ids : store'[i] # None => Source(store'[i].flash)
      BY <3>1
    <3>5. \A x \in takes' \ takes : Source(x.flash)
      BY <2>4, <3>3 DEF Take
    <3> QED
      BY <3>2, <3>4, <3>5, FreshFrame
  <2>5. CASE Logout(r, id)
    BY <1>1, <2>5, FreshFrame DEF Logout
  <2> QED
    BY <1>2, <2>1, <2>2, <2>3, <2>4, <2>5 DEF Operate
<1>3. ASSUME NEW r \in Requests, Interrupt(r) PROVE FreshInv'
  BY <1>1, <1>3, FreshFrame DEF Interrupt
<1>4. CASE Expire(id)
  BY <1>1, <1>4, FreshFrame DEF Expire
<1>5. ASSUME NEW value \in Noise, Disturb(id, value) PROVE FreshInv'
  <2>1. \A i \in Ids : store'[i] # None => store'[i].flash = value \/ store'[i] = store[i]
    BY <1>1, <1>5, SessionFlash DEF Disturb
  <2>2. UNCHANGED <<fields, takes, at>>
    BY <1>5 DEF Disturb
  <2>3. \A i \in Ids : store'[i] # None => Source(store'[i].flash)
    BY <2>1
  <2> QED
    BY <2>2, <2>3, FreshFrame
<1> QED
  BY <1>2, <1>3, <1>4, <1>5

(* A step that changes no rotation that ended, and gives no session a flash value that one
   of the clients' may still take: unless its identifier is one a writeSession wrote. *)
Settled(q) == at[q] \in {"rotated", "published"}

Quiet ==
    /\ UNCHANGED <<known, takes>> /\ reused \subseteq reused'
    /\ \A q \in Requests : Settled(q) \/ Settled(q)' =>
         at'[q] = at[q] /\ from'[q] = from[q] /\ to'[q] = to[q] /\ tries'[q] = tries[q]
    /\ \A id \in Ids : Live(id) /\ id \notin reused' /\ store'[id] # None =>
         \/ store'[id].flash \in Noise \cup {None}
         \/ store[id] # None /\ store'[id].flash = store[id].flash

LEMMA QuietStep ==
  ASSUME TypeOK, KnownInv, TakenInv, OncePlaceInv, Quiet
  PROVE  TakenInv' /\ OncePlaceInv'
<1>1. \A id : Live(id)' <=> Live(id)
  BY DEF Quiet, Live, Settled
<1>2. \A x \in takes : Live(x.id) /\ x.id \in Ids /\ x.flash # None
  BY DEF TakenInv, Live, TypeOK
<1>3. TakenInv'
  <2>1. ASSUME NEW x \in takes, x.flash \notin Noise, x.id \notin reused', store'[x.id] # None,
               store'[x.id].flash = x.flash
        PROVE  FALSE
    <3>1. store[x.id] # None /\ store[x.id].flash = x.flash
      BY <1>2, <2>1 DEF Quiet
    <3> QED
      BY <2>1, <3>1 DEF TakenInv, Quiet
  <2> QED
    BY <2>1 DEF TakenInv, Quiet
<1>4. ASSUME NEW C \in SUBSET Ids, Kin(C)'
      PROVE  Kin(C) /\ \A a \in C, v \in Flashes \ (Noise \cup {None}) : Has(a, v)' => Has(a, v)
  <2>1. C \cap reused' = {} /\ C \cap reused = {}
    BY <1>4 DEF Kin, Quiet
  <2>2. Kin(C)
    BY <1>4, <2>1 DEF Kin, Quiet, Settled, Rotated
  <2>3. ASSUME NEW a \in C, NEW v \in Flashes \ (Noise \cup {None}), Has(a, v)'
        PROVE  Has(a, v)
    BY <1>1, <2>1, <2>3 DEF Has, Quiet
  <2> QED
    BY <2>2, <2>3
<1>5. OncePlaceInv'
  BY <1>4 DEF OncePlaceInv
<1> QED
  BY <1>3, <1>5
LEMMA QuietContinue ==
  ASSUME NEW r \in Requests, Inv, Continue(r), ~ Remove(r), ~ Drop(r), ~ Publish(r)
  PROVE  Quiet
<1> USE DEF Quiet, Settled
<1>1. /\ store \in [Ids -> Session \cup {None}] /\ at \in [Requests -> {"idle"} \cup Steps \cup Ends]
      /\ from \in [Requests -> Ids \cup {None}] /\ to \in [Requests -> Ids \cup {None}]
      /\ tries \in [Requests -> 0 .. RotateAttempts + TokenAttempts]
  BY DEF Inv, TypeOK
<1>2. CASE ReadSource(r) \/ Refused(r) \/ Changed(r) \/ TokenContended(r)
  BY <1>1, <1>2 DEF ReadSource, Refused, Changed, TokenContended
<1>3. CASE Withdraw(r)
  BY <1>1, <1>3 DEF Withdraw
<1>4. CASE Copy(r)
  <2>1. /\ UNCHANGED <<known, takes, from, to, tries>> /\ reused \subseteq reused'
        /\ at[r] = "copy" /\ at'[r] \in {"remove", "drop"} /\ \A q \in Requests \ {r} : at'[q] = at[q]
        /\ store[to[r]] = None /\ to[r] \in Ids
    BY <1>1, <1>4 DEF Copy, Inv, SessionInv, StepInv
  <2>2. \A id \in Ids : id # to[r] => store'[id] = store[id]
    BY <1>1, <1>4 DEF Copy
  <2>3. Live(to[r]) => to[r] \in reused'
    <3>1. CASE to[r] \in known
      BY <1>4, <3>1 DEF Copy
    <3>2. ASSUME NEW q \in Requests, at[q] = "rotated", to[q] = to[r] PROVE to[r] \in reused
      <4>1. Replacement(q) # None
        BY <3>2, CopyFlash DEF Copied
      <4> QED
        BY <2>1, <3>2, <4>1 DEF Inv, SessionInv, CopyInv, Copied
    <3> QED
      BY <2>1, <3>1, <3>2 DEF Live
  <2> QED
    BY <2>1, <2>2, <2>3
<1>5. CASE TouchWrite(r) \/ TokenWrite(r)
  <2>3. \A id \in Ids : store'[id] = store[id]
                        \/ (store[id] \in Session /\ store'[id].flash = store[id].flash)
    BY <1>5, RecordFlash
  <2>4. /\ UNCHANGED <<known, takes, reused, from, to, tries>>
        /\ \A q \in Requests : Settled(q) \/ Settled(q)' => at'[q] = at[q]
    BY <1>1, <1>5 DEF TouchWrite, TokenWrite
  <2> QED
    BY <2>3, <2>4, NoneIsNoSession
<1>6. CASE SaveWrite(r)
  BY <1>1, <1>6 DEF SaveWrite
<1> QED
  BY <1>2, <1>3, <1>4, <1>5, <1>6 DEF Continue

LEMMA QuietOther ==
  ASSUME Inv, NEW id \in Ids,
         \/ \E r \in Requests : /\ Operate(r, id) \/ (Interrupt(r) /\ at[r] # "rotated")
                                /\ ~ Flash(r, id) /\ ~ Take(r, id)
         \/ Expire(id) \/ \E value \in Noise : Disturb(id, value)
  PROVE  Quiet
<1> USE DEF Quiet, Settled
<1>1. /\ store \in [Ids -> Session \cup {None}] /\ at \in [Requests -> {"idle"} \cup Steps \cup Ends]
      /\ from \in [Requests -> Ids \cup {None}] /\ to \in [Requests -> Ids \cup {None}]
  BY DEF Inv, TypeOK
<1>2. ASSUME NEW r \in Requests, Operate(r, id), ~ Flash(r, id), ~ Take(r, id) PROVE Quiet
  <2>1. CASE Missing(r, id) \/ SaveRead(r, id) \/ \E next \in Ids : Locate(r, id, next)
    BY <1>1, <2>1 DEF Missing, SaveRead, Locate, On
  <2>2. CASE TokenRead(r, id) \/ \E n \in 0 .. MaxTime : TouchRead(r, id, n)
    BY <1>1, <2>2 DEF TokenRead, TouchRead, On
  <2>3. CASE Logout(r, id)
    BY <1>1, <2>3 DEF Logout
  <2> QED
    BY <1>2, <2>1, <2>2, <2>3 DEF Operate
<1>3. ASSUME NEW r \in Requests, Interrupt(r), at[r] # "rotated" PROVE Quiet
  BY <1>1, <1>3 DEF Interrupt, Steps
<1>4. CASE Expire(id)
  BY <1>1, <1>4 DEF Expire
<1>5. ASSUME NEW value \in Noise, Disturb(id, value) PROVE Quiet
  <2>1. \A t \in Session : [t EXCEPT !.flash = value].flash = value
    BY SessionFlash
  <2>2. \A i \in Ids : store'[i] = store[i] \/ store'[i].flash \in Noise
    BY <1>1, <1>5, <2>1 DEF Disturb
  <2> QED
    BY <1>5, <2>2 DEF Disturb
<1> QED
  BY <1>2, <1>3, <1>4, <1>5

(* Every place of a value was one before, so it is still at one place of a family. *)
LEMMA FewerPlaces ==
  ASSUME OncePlaceInv,
         ASSUME NEW C \in SUBSET Ids, Kin(C)'
         PROVE  Kin(C) /\ \A a \in C, v \in Flashes \ (Noise \cup {None}) : Has(a, v)' => Has(a, v)
  PROVE  OncePlaceInv'
BY DEF OncePlaceInv

(* What an uncontended rotation moves to the new identifier is not at the old one any more,
   neither stored nor taken: the compare-and-delete saw that nobody had taken it. *)
LEMMA RemovePlaces ==
  ASSUME NEW r \in Requests, Inv, TakenInv, OncePlaceInv, Remove(r)
  PROVE  TakenInv' /\ OncePlaceInv'
<1>1. /\ store \in [Ids -> Session \cup {None}] /\ at \in [Requests -> {"idle"} \cup Steps \cup Ends]
      /\ from[r] \in known /\ known \subseteq Ids /\ to[r] \in Ids
  BY DEF Remove, Inv, TypeOK, SessionInv, KnownInv, StepInv, Copied
<1>2. /\ at[r] = "remove" /\ at'[r] = "rotated" /\ \A q \in Requests \ {r} : at'[q] = at[q]
      /\ store' = [store EXCEPT ![from[r]] = None] /\ store[from[r]] = fields[r]
      /\ UNCHANGED <<known, from, to, tries, takes, reused>>
  BY <1>1 DEF Remove
<1>3. TakenInv'
  BY <1>1, <1>2 DEF TakenInv
<1>4. \A a : Live(a)' => Live(a) \/ a = to[r]
  BY <1>2 DEF Live
<1> SUFFICES ASSUME NEW C \in SUBSET Ids, Kin(C)', NEW a \in C, NEW b \in C,
                    NEW v \in Flashes \ (Noise \cup {None}), Has(a, v)', Has(b, v)'
             PROVE  a = b
  BY <1>3 DEF OncePlaceInv
<1>5. C \cap reused = {} /\ Kin(C)
  BY <1>2 DEF Kin, Rotated
<1>6. CASE to[r] \notin C
  <2>1. Has(a, v) /\ Has(b, v)
    BY <1>1, <1>2, <1>4, <1>6 DEF Has
  <2> QED
    BY <1>5, <2>1 DEF OncePlaceInv
<1>7. CASE to[r] \in C
  <2>1. from[r] \in C /\ from[r] \notin reused /\ to[r] \notin reused
    BY <1>2, <1>5, <1>7 DEF Kin, Rotated
  <2>2. to[r] \notin known /\ store[to[r]] = Replacement(r) /\ store[to[r]].flash = fields[r].flash
        /\ fields[r] # None
    BY <1>2, <2>1, CopyFlash DEF Inv, SessionInv, CopyInv, Copied
  <2>3. \A w \in Flashes \ (Noise \cup {None}) : Has(to[r], w)' => Has(from[r], w) /\ ~ Has(from[r], w)'
    <3> SUFFICES ASSUME NEW w \in Flashes \ (Noise \cup {None}), Has(to[r], w)'
                 PROVE  Has(from[r], w) /\ ~ Has(from[r], w)'
      OBVIOUS
    <3>1. \A x \in takes : x.id # to[r]
      BY <2>2 DEF TakenInv
    <3>2. to[r] # from[r]
      BY <1>1, <2>2
    <3>3. store[from[r]] # None /\ store[from[r]].flash = w
      BY <1>1, <1>2, <2>2, <3>1, <3>2 DEF Has
    <3>4. Has(from[r], w)
      BY <1>1, <3>3 DEF Has, Live
    <3>5. \A x \in takes : x.id = from[r] => x.flash # w
      BY <2>1, <3>3 DEF TakenInv
    <3> QED
      BY <1>1, <1>2, <3>4, <3>5 DEF Has
  <2>4. \A c \in C : c # to[r] /\ Has(c, v)' => Has(c, v)
    BY <1>1, <1>2, <1>4 DEF Has
  <2>5. CASE a = to[r] /\ b # to[r]
    <3>0. Has(to[r], v)'
      <4>1. \A c : Has(c, v)' /\ c = to[r] => Has(to[r], v)'
        BY <1>2 DEF Has, Live
      <4> QED
        BY <2>5, <4>1
    <3>1. Has(from[r], v) /\ Has(b, v) /\ b # from[r]
      BY <1>2, <2>3, <2>4, <2>5, <3>0
    <3> QED
      BY <1>5, <2>1, <3>1 DEF OncePlaceInv
  <2>6. CASE b = to[r] /\ a # to[r]
    <3>0. Has(to[r], v)'
      <4>1. \A c : Has(c, v)' /\ c = to[r] => Has(to[r], v)'
        BY <1>2 DEF Has, Live
      <4> QED
        BY <2>6, <4>1
    <3>1. Has(from[r], v) /\ Has(a, v) /\ a # from[r]
      BY <1>2, <2>3, <2>4, <2>6, <3>0
    <3> QED
      BY <1>5, <2>1, <3>1 DEF OncePlaceInv
  <2>7. CASE a # to[r] /\ b # to[r]
    BY <1>5, <2>4, <2>7 DEF OncePlaceInv
  <2> QED
    BY <2>5, <2>6, <2>7
<1> QED
  BY <1>6, <1>7

LEMMA DropPlaces ==
  ASSUME NEW r \in Requests, Inv, TakenInv, OncePlaceInv, Drop(r)
  PROVE  TakenInv' /\ OncePlaceInv'
<1>1. /\ store \in [Ids -> Session \cup {None}] /\ at \in [Requests -> {"idle"} \cup Steps \cup Ends]
      /\ from[r] \in known /\ known \subseteq Ids /\ tries[r] = RotateAttempts
  BY DEF Drop, Inv, TypeOK, SessionInv, KnownInv, StepInv
<1>2. /\ at[r] = "drop" /\ at'[r] = "rotated" /\ \A q \in Requests \ {r} : at'[q] = at[q]
      /\ store' = [store EXCEPT ![from[r]] = None]
      /\ UNCHANGED <<known, from, to, tries, takes, reused>>
  BY <1>1 DEF Drop
<1>3. TakenInv'
  BY <1>1, <1>2 DEF TakenInv
<1>4. \A a : Live(a)' => Live(a)
  BY <1>1, <1>2 DEF Live
<1>5. ASSUME NEW C \in SUBSET Ids, Kin(C)'
      PROVE  Kin(C) /\ \A a \in C, v \in Flashes \ (Noise \cup {None}) : Has(a, v)' => Has(a, v)
  BY <1>1, <1>2, <1>4, <1>5 DEF Kin, Rotated, Has
<1> QED
  BY <1>3, <1>5, FewerPlaces

(* An uncontended rotation's session was counted already; a contended one leaves a family. *)
LEMMA PublishPlaces ==
  ASSUME NEW r \in Requests, Inv, TakenInv, OncePlaceInv, Publish(r)
  PROVE  TakenInv' /\ OncePlaceInv'
<1>1. /\ at \in [Requests -> {"idle"} \cup Steps \cup Ends]
      /\ tries \in [Requests -> 0 .. RotateAttempts + TokenAttempts] /\ tries[r] <= RotateAttempts
  BY DEF Publish, Inv, TypeOK, SessionInv, StepInv, Copied
<1>2. /\ at[r] = "rotated" /\ at'[r] = "published" /\ \A q \in Requests \ {r} : at'[q] = at[q]
      /\ known' = known \cup {to[r]}
      /\ UNCHANGED <<store, from, to, tries, takes, reused>>
  BY <1>1 DEF Publish
<1>3. TakenInv'
  BY <1>2 DEF TakenInv
<1>4. \A a : Live(a)' => Live(a) \/ (a = to[r] /\ tries[r] = RotateAttempts)
  BY <1>1, <1>2 DEF Live
<1>5. ASSUME NEW C \in SUBSET Ids, Kin(C)'
      PROVE  Kin(C) /\ \A a \in C, v \in Flashes \ (Noise \cup {None}) : Has(a, v)' => Has(a, v)
  <2>1. Kin(C)
    BY <1>2, <1>5 DEF Kin, Rotated
  <2>2. tries[r] = RotateAttempts => to[r] \notin C
    BY <1>2, <1>5 DEF Kin, Rotated
  <2> QED
    BY <1>2, <1>4, <2>1, <2>2 DEF Has
<1> QED
  BY <1>3, <1>5, FewerPlaces

(* A rotation that is interrupted leaves a session no client knows, and so at no place. *)
LEMMA InterruptPlaces ==
  ASSUME NEW r \in Requests, Inv, TakenInv, OncePlaceInv, Interrupt(r), at[r] = "rotated"
  PROVE  TakenInv' /\ OncePlaceInv'
<1>1. /\ at \in [Requests -> {"idle"} \cup Steps \cup Ends]
      /\ to[r] \in reused \/ to[r] \notin known
      /\ \A q \in Requests : at[q] # "idle" => from[q] \in known
  BY DEF Inv, TypeOK, SessionInv, CopyInv, Copied, KnownInv
<1>2. /\ at'[r] = "interrupted" /\ \A q \in Requests \ {r} : at'[q] = at[q]
      /\ UNCHANGED <<store, known, from, to, tries, takes, reused>>
  BY <1>1 DEF Interrupt
<1>3. TakenInv'
  BY <1>2 DEF TakenInv
<1> SUFFICES ASSUME NEW C \in SUBSET Ids, Kin(C)', NEW a \in C, NEW b \in C,
                    NEW v \in Flashes \ (Noise \cup {None}), Has(a, v)', Has(b, v)'
             PROVE  a = b
  BY <1>3 DEF OncePlaceInv
<1>4. \A c : Has(c, v)' => Has(c, v)
  BY <1>2 DEF Has, Live
<1>5. CASE to[r] \notin C
  <2>1. Kin(C)
    BY <1>2, <1>5 DEF Kin, Rotated
  <2> QED
    BY <1>4, <2>1 DEF OncePlaceInv
<1>6. CASE to[r] \in C
  <2>1. to[r] \notin known /\ to[r] \notin reused
    BY <1>1, <1>2, <1>6 DEF Kin
  <2>2. ASSUME NEW q \in Requests \ {r}, at[q] = "rotated", to[q] = to[r] PROVE FALSE
    BY <2>1, <2>2 DEF Inv, SessionInv, CopyInv, Copied
  <2>3. \A c : Has(c, v)' => c # to[r]
    BY <1>2, <2>1, <2>2 DEF Has, Live, TakenInv
  <2>4. Kin(C \ {to[r]})
    BY <1>1, <1>2, <2>1 DEF Kin, Rotated
  <2>5. a \in C \ {to[r]} /\ b \in C \ {to[r]} /\ C \ {to[r]} \in SUBSET Ids
    BY <2>3
  <2> QED
    BY <1>4, <2>4, <2>5 DEF OncePlaceInv
<1> QED
  BY <1>5, <1>6

(* A value that is flashed is new. *)
LEMMA FlashPlaces ==
  ASSUME NEW r \in Requests, NEW id \in Ids, Inv, FreshInv, TakenInv, OncePlaceInv, Flash(r, id)
  PROVE  TakenInv' /\ OncePlaceInv'
<1>1. /\ store \in [Ids -> Session \cup {None}] /\ at \in [Requests -> {"idle"} \cup Steps \cup Ends]
      /\ known \subseteq Ids
  BY DEF Inv, TypeOK
<1>2. /\ at[r] = "idle" /\ at'[r] = "done" /\ \A q \in Requests \ {r} : at'[q] = at[q]
      /\ UNCHANGED <<known, to, tries, takes, reused>>
      /\ \A q \in Requests \ {r} : from'[q] = from[q]
      /\ store'[id] # None /\ store'[id].flash = r /\ \A i \in Ids \ {id} : store'[i] = store[i]
  <2>1. store[id] \in Session /\ store'[id] = [store[id] EXCEPT !.flash = r]
        /\ \A i \in Ids \ {id} : store'[i] = store[i]
    BY <1>1 DEF Flash
  <2>2. store'[id] # None /\ store'[id].flash = r
    <3>1. [store[id] EXCEPT !.flash = r] \in Session
      BY <2>1 DEF Session, Flashes
    <3> QED
      BY <2>1, <3>1, SessionFlash
  <2> QED
    BY <1>1, <2>1, <2>2 DEF Flash, Inv, TypeOK
<1>3. r # None => /\ \A i \in Ids : store[i] # None => store[i].flash # r
                  /\ \A x \in takes : x.flash # r
  BY <1>2 DEF FreshInv
<1>4. TakenInv'
  <2>1. \A x \in takes : x.id \in Ids /\ x.flash # None
    BY <1>1 DEF TakenInv
  <2> QED
    BY <1>2, <1>3, <2>1 DEF TakenInv
<1>5. \A a : Live(a)' <=> Live(a)
  BY <1>2 DEF Live
<1> SUFFICES ASSUME NEW C \in SUBSET Ids, Kin(C)', NEW a \in C, NEW b \in C,
                    NEW v \in Flashes \ (Noise \cup {None}), Has(a, v)', Has(b, v)'
             PROVE  a = b
  BY <1>4 DEF OncePlaceInv
<1>6. Kin(C)
  BY <1>2 DEF Kin, Rotated
<1>7. CASE v = r
  BY <1>2, <1>3, <1>7 DEF Has
<1>8. CASE v # r
  <2>1. Has(a, v) /\ Has(b, v)
    BY <1>2, <1>5, <1>8 DEF Has
  <2> QED
    BY <1>6, <2>1 DEF OncePlaceInv
<1> QED
  BY <1>7, <1>8

(* Taking a value leaves it where it was, delivered. *)
LEMMA TakePlaces ==
  ASSUME NEW r \in Requests, NEW id \in Ids, Inv, TakenInv, OncePlaceInv, Take(r, id)
  PROVE  TakenInv' /\ OncePlaceInv'
<1>1. /\ store \in [Ids -> Session \cup {None}] /\ at \in [Requests -> {"idle"} \cup Steps \cup Ends]
      /\ known \subseteq Ids
  BY DEF Inv, TypeOK
<1>2. /\ id \in known /\ store[id] # None
      /\ at[r] = "idle" /\ at'[r] = "done" /\ \A q \in Requests \ {r} : at'[q] = at[q]
      /\ UNCHANGED <<known, to, tries, reused>>
      /\ \A q \in Requests \ {r} : from'[q] = from[q]
      /\ store'[id] # None /\ store'[id].flash = None /\ \A i \in Ids \ {id} : store'[i] = store[i]
  <2>1. store[id] \in Session /\ store'[id] = [store[id] EXCEPT !.flash = None]
        /\ \A i \in Ids \ {id} : store'[i] = store[i]
    BY <1>1 DEF Take
  <2>2. store'[id] # None /\ store'[id].flash = None
    <3>1. [store[id] EXCEPT !.flash = None] \in Session
      BY <2>1 DEF Session, Flashes
    <3> QED
      BY <2>1, <3>1, SessionFlash
  <2> QED
    BY <1>1, <2>1, <2>2 DEF Take, Inv, TypeOK
<1>3. \A x \in takes' : x \in takes \/
        (x = [flash |-> store[id].flash, id |-> id, by |-> r] /\ store[id].flash # None)
  BY DEF Take
<1>4. takes \subseteq takes'
  BY DEF Take
<1>5. TakenInv'
  <2>1. \A x \in takes' : x.id \in known /\ x.flash # None
    BY <1>2, <1>3 DEF TakenInv
  <2>2. ASSUME NEW x \in takes', x.flash \notin Noise, x.id \notin reused, store'[x.id] # None
        PROVE  store'[x.id].flash # x.flash
    <3>1. CASE x.id = id
      BY <1>2, <2>1, <3>1
    <3>2. CASE x.id # id
      BY <1>1, <1>2, <1>3, <2>1, <2>2, <3>2 DEF TakenInv
    <3> QED
      BY <3>1, <3>2
  <2>3. ASSUME NEW x \in takes', NEW y \in takes', x.flash \notin Noise, x.id \notin reused,
               x.flash = y.flash, x.id = y.id
        PROVE  x = y
    <3>1. CASE x \in takes /\ y \in takes
      BY <2>3, <3>1 DEF TakenInv
    <3>2. CASE x \in takes /\ y \notin takes
      BY <1>2, <1>3, <2>3, <3>2 DEF TakenInv
    <3>3. CASE x \notin takes /\ y \in takes
      BY <1>2, <1>3, <2>3, <3>3 DEF TakenInv
    <3>4. CASE x \notin takes /\ y \notin takes
      BY <1>3, <3>4
    <3> QED
      BY <3>1, <3>2, <3>3, <3>4
  <2> QED
    BY <1>2, <2>1, <2>2, <2>3 DEF TakenInv
<1>6. \A a : Live(a)' <=> Live(a)
  BY <1>2 DEF Live
<1>7. ASSUME NEW C \in SUBSET Ids, Kin(C)'
      PROVE  Kin(C) /\ \A a \in C, v \in Flashes \ (Noise \cup {None}) : Has(a, v)' => Has(a, v)
  <2>1. Kin(C)
    BY <1>2, <1>7 DEF Kin, Rotated
  <2>2. ASSUME NEW a \in C, NEW v \in Flashes \ (Noise \cup {None}), Has(a, v)' PROVE Has(a, v)
    <3>1. CASE \E x \in takes' : x.id = a /\ x.flash = v
      BY <1>2, <1>3, <3>1 DEF Has, Live
    <3>2. CASE Live(a)' /\ store'[a] # None /\ store'[a].flash = v
      BY <1>2, <1>6, <3>2 DEF Has
    <3> QED
      BY <2>2, <3>1, <3>2 DEF Has
  <2> QED
    BY <2>1, <2>2
<1> QED
  BY <1>5, <1>7, FewerPlaces

LEMMA FlashInvariance ==
  Spec => [](Inv /\ FlashInv)
<1>1. Init => FlashInv
  <2> SUFFICES ASSUME Init PROVE FlashInv
    OBVIOUS
  <2>1. PICK f \in Kept \cup {None} :
          store = [id \in Ids |-> IF id = Start
                                  THEN [token |-> None, activity |-> 0, flash |-> f] ELSE None]
    BY DEF Init
  <2>2. FreshInv
    BY <2>1 DEF Init, FreshInv
  <2>3. TakenInv
    BY DEF Init, TakenInv
  <2>4. OncePlaceInv
    BY DEF Init, OncePlaceInv, Has, Live
  <2> QED
    BY <2>2, <2>3, <2>4 DEF FlashInv
<1>2. Inv /\ FlashInv /\ [Next]_vars => FlashInv'
  <2> SUFFICES ASSUME Inv, FreshInv, TakenInv, OncePlaceInv, [Next]_vars PROVE FlashInv'
    BY DEF FlashInv
  <2>1. Quiet => TakenInv' /\ OncePlaceInv'
    BY QuietStep DEF Inv, SessionInv
  <2>2. ASSUME NEW r \in Requests, Continue(r) PROVE FlashInv'
    BY <2>1, <2>2, FreshContinue, QuietContinue, RemovePlaces, DropPlaces, PublishPlaces DEF FlashInv
  <2>3. ASSUME NEW r \in Requests, Interrupt(r) PROVE FlashInv'
    <3>1. Start \in Ids
      OBVIOUS
    <3>2. FreshInv'
      BY <2>3, <3>1, FreshOther
    <3>3. at[r] # "rotated" => Quiet
      <4>1. ~ Flash(r, Start) /\ ~ Take(r, Start)
        BY <2>3 DEF Flash, Take, Interrupt, Steps
      <4> QED
        BY <2>3, <3>1, <4>1, QuietOther
    <3> QED
      BY <2>1, <2>3, <3>2, <3>3, InterruptPlaces DEF FlashInv
  <2>4. ASSUME NEW r \in Requests, NEW id \in Ids, Operate(r, id) PROVE FlashInv'
    <3>1. FreshInv'
      BY <2>4, FreshOther
    <3>2. ~ Flash(r, id) /\ ~ Take(r, id) => Quiet
      BY <2>4, QuietOther
    <3> QED
      BY <2>1, <3>1, <3>2, FlashPlaces, TakePlaces DEF FlashInv
  <2>5. ASSUME NEW id \in Ids, Expire(id) \/ \E value \in Noise : Disturb(id, value) PROVE FlashInv'
    BY <2>1, <2>5, FreshOther, QuietOther DEF FlashInv
  <2>6. CASE UNCHANGED vars
    <3>1. UNCHANGED <<store, known, at, from, to, fields, tries, takes, reused>>
      BY <2>6 DEF vars
    <3>2. FreshInv'
      BY <3>1 DEF FreshInv
    <3>3. Quiet
      BY <3>1 DEF Quiet
    <3> QED
      BY <2>1, <3>2, <3>3 DEF FlashInv
  <2> QED
    BY <2>2, <2>3, <2>4, <2>5, <2>6 DEF Next
<1> QED
  BY <1>1, <1>2, Invariance, PTL DEF Spec

(***************************************************************************)
(* A flash value is delivered once, for any number of requests, rotations  *)
(* and identifiers: neither concurrent reads nor a rotation that copies    *)
(* the session while the value is taken deliver it twice.                  *)
(***************************************************************************)
THEOREM FlashDeliveredOnce ==
  Spec => []FlashOnce
<1>1. ASSUME Inv, FlashInv, NEW x \in takes, NEW y \in takes \cup Waiting, x.flash = y.flash, x # y,
             x.flash \notin Noise
      PROVE  \/ x.id = y.id /\ x.id \in reused
             \/ x.id # y.id /\ \A C \in SUBSET Ids : {x.id, y.id} \subseteq C => ~ Family(C)
  <2>1. x.flash \in Flashes \ (Noise \cup {None})
    BY <1>1 DEF Inv, TypeOK, FlashInv, TakenInv
  <2>2. CASE y \in takes
    <3>1. x.id = y.id => x.id \in reused
      BY <1>1, <2>2 DEF FlashInv, TakenInv
    <3>2. ASSUME NEW C \in SUBSET Ids, {x.id, y.id} \subseteq C, Family(C), x.id # y.id PROVE FALSE
      <4>1. Kin(C)
        BY <3>2 DEF Family, Kin, Contended, Rotated
      <4>2. Has(x.id, x.flash) /\ Has(y.id, x.flash)
        BY <1>1, <2>2 DEF Has
      <4> QED
        BY <1>1, <2>1, <3>2, <4>1, <4>2 DEF FlashInv, OncePlaceInv
    <3> QED
      BY <3>1, <3>2
  <2>3. CASE y \notin takes
    <3>1. PICK r \in Requests : /\ Rotated(r) /\ store[to[r]] # None
                                /\ y = [flash |-> store[to[r]].flash, id |-> to[r], by |-> None]
      BY <1>1, <2>3 DEF Waiting
    <3>2. store[to[r]].flash = x.flash /\ y.id = to[r]
      BY <1>1, <3>1
    <3>3. x.id = y.id => x.id \in reused
      BY <1>1, <3>1, <3>2 DEF FlashInv, TakenInv
    <3>4. ASSUME NEW C \in SUBSET Ids, {x.id, y.id} \subseteq C, Family(C), x.id # y.id PROVE FALSE
      <4>1. Kin(C) /\ from[r] \in C /\ ~ Contended(r)
        BY <3>1, <3>2, <3>4 DEF Family, Kin, Contended, Rotated
      <4>2. tries[r] < RotateAttempts
        <5>1. tries[r] # RotateAttempts
          BY <3>1, <4>1 DEF Contended
        <5>2. tries[r] <= RotateAttempts
          BY <1>1, <3>1 DEF Rotated, Inv, SessionInv, StepInv, Copied
        <5>3. tries[r] \in Nat
          BY <1>1 DEF Inv, TypeOK
        <5> QED
          BY <5>1, <5>2, <5>3
      <4>3. Live(to[r])
        <5>1. CASE at[r] = "published"
          BY <1>1, <5>1 DEF Live, Inv, SessionInv, KnownInv
        <5>2. CASE at[r] = "rotated"
          BY <4>2, <5>2 DEF Live
        <5> QED
          BY <3>1, <5>1, <5>2 DEF Rotated
      <4>4. Has(x.id, x.flash) /\ Has(y.id, x.flash)
        BY <1>1, <3>1, <3>2, <4>3 DEF Has
      <4> QED
        BY <1>1, <2>1, <3>4, <4>1, <4>4 DEF FlashInv, OncePlaceInv
    <3> QED
      BY <3>3, <3>4
  <2> QED
    BY <2>2, <2>3
<1>2. Inv /\ FlashInv => FlashOnce
  BY <1>1 DEF FlashOnce
<1> QED
  BY <1>2, FlashInvariance, PTL
===============================================================================
