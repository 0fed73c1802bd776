----------------------------- MODULE RedisSession -----------------------------
(***************************************************************************)
(* Session records kept in Redis (RedisSessionAdapter in                   *)
(* packages/session/src/drivers/redis-adapter.ts) and the session runtime  *)
(* that drives it (packages/session/src/runtime.ts): reading, touching,    *)
(* writing, flashing, logging out and, above all, rotating a session to    *)
(* another identifier, which spans two keys and so takes several scripts.  *)
(*                                                                         *)
(* A script or a single command is atomic in Redis and is one action.      *)
(* Requests run concurrently, each performing one operation; between two   *)
(* scripts of one request any other request may run.  A session is one     *)
(* hash: the serialized record, of which the _token written by the CSRF    *)
(* guard and the last activity are kept, and one flash field.              *)
(***************************************************************************)
EXTENDS Naturals

CONSTANTS
    Requests,        \* requests; a request's name is also the value it stores
    Ids,             \* session identifiers
    Start,           \* the identifier of the one session there is at first
    Kept,            \* flash values that session may hold from the start
    Noise,           \* flash values that other clients write again and again
    MaxTime,         \* bound on the times a touch can carry
    RotateAttempts,  \* ROTATE_SESSION_ATTEMPTS
    TokenAttempts,   \* SET_SESSION_DATA_ATTEMPTS
    None             \* no session, no token, no flash value, no answer

ASSUME SessionAssumption ==
    /\ Start \in Ids
    /\ MaxTime \in Nat /\ RotateAttempts \in Nat /\ TokenAttempts \in Nat \ {0}
    /\ Requests \cap (Kept \cup Noise) = {} /\ Kept \cap Noise = {}
    /\ None \notin Requests \cup Kept \cup Noise \cup Ids

Flashes == Requests \cup Kept \cup Noise

Session == [token : Requests \cup {None}, activity : 0 .. MaxTime, flash : Flashes \cup {None}]

ASSUME NoneIsNoSession == None \notin Session

VARIABLES
    store,    \* store[id]: the hash under the key of id, or None
    known,    \* identifiers handed to clients
    at,       \* at[r]: the script request r runs next, or how r ended
    from,     \* from[r]: the session r works on
    to,       \* to[r]: the identifier r rotates that session to
    now,      \* now[r]: the time r carries to touch
    located,  \* located[r]: the session r found before rotating or saving it
    fields,   \* fields[r]: what r read to compare with later
    tries,    \* tries[r]: attempts of r lost to other writers
    answer,   \* answer[r]: the token setDataIfAbsent returned to r
    takes,    \* history: flash values delivered, where and to which request
    out,      \* history: identifiers whose session was logged out or expired
    reused    \* history: identifiers a writeSession wrote, or claimed once more

history == <<takes, out, reused>>
vars == <<store, known, at, from, to, now, located, fields, tries, answer, history>>

Steps == {"read", "copy", "remove", "withdraw", "giveUp", "drop", "rotated",
          "touch", "touchAgain", "token", "tokenAgain", "save"}
Ends == {"done", "published", "failed", "interrupted"}

Some(S) == S \cup {None}

TypeOK ==
    /\ store \in [Ids -> Some(Session)]
    /\ known \in SUBSET Ids
    /\ at \in [Requests -> {"idle"} \cup Steps \cup Ends]
    /\ from \in [Requests -> Some(Ids)] /\ to \in [Requests -> Some(Ids)]
    /\ now \in [Requests -> 0 .. MaxTime]
    /\ located \in [Requests -> Some(Session)] /\ fields \in [Requests -> Some(Session)]
    /\ tries \in [Requests -> 0 .. RotateAttempts + TokenAttempts]
    /\ answer \in [Requests -> Some(Requests)]
    /\ takes \in SUBSET [flash : Flashes, id : Ids, by : Requests]
    /\ out \in SUBSET Ids /\ reused \in SUBSET Ids

Init ==
    /\ \E f \in Some(Kept) :
         store = [id \in Ids |-> IF id = Start
                                 THEN [token |-> None, activity |-> 0, flash |-> f] ELSE None]
    /\ known = {Start}
    /\ at = [r \in Requests |-> "idle"]
    /\ from = [r \in Requests |-> None] /\ to = [r \in Requests |-> None]
    /\ now = [r \in Requests |-> 0]
    /\ located = [r \in Requests |-> None] /\ fields = [r \in Requests |-> None]
    /\ tries = [r \in Requests |-> 0]
    /\ answer = [r \in Requests |-> None]
    /\ takes = {} /\ out = {} /\ reused = {}

-------------------------------------------------------------------------------

Exists(id) == store[id] # None

(* r starts an operation on a session its client knows, or comes back to it. *)
On(r, id, again) ==
    \/ at[r] = "idle" /\ id \in known
    \/ at[r] = again /\ id = from[r]

Goto(r, id, step) ==
    /\ at' = [at EXCEPT ![r] = step]
    /\ from' = [from EXCEPT ![r] = id]

Put(id, session) == store' = [store EXCEPT ![id] = session]

(* The compare-and-set scripts compare the serialized record, not the flash fields. *)
SameRecord(s, t) == s.token = t.token /\ s.activity = t.activity

(* No session: nothing is written, and the caller gets null, not found, or an error. *)
Missing(r, id) ==
    /\ \E again \in {"read", "touchAgain", "tokenAgain"} : On(r, id, again)
    /\ ~Exists(id)
    /\ Goto(r, id, "failed")
    /\ UNCHANGED <<store, known, to, now, located, fields, tries, answer, history>>

-------------------------------------------------------------------------------
(* rotateSession *)

(* The replacement is built from the record found here; next is a minted id, or
   one the caller supplied and believes to be unused. *)
Locate(r, id, next) ==
    /\ at[r] = "idle" /\ id \in known /\ next \in Ids \ known
    /\ Exists(id)
    /\ Goto(r, id, "read")
    /\ to' = [to EXCEPT ![r] = next]
    /\ located' = [located EXCEPT ![r] = store[id]]
    /\ UNCHANGED <<store, known, now, fields, tries, answer, history>>

ReadSource(r) ==
    /\ at[r] = "read"
    /\ Exists(from[r])
    /\ fields' = [fields EXCEPT ![r] = store[from[r]]]
    /\ at' = [at EXCEPT ![r] = "copy"]
    /\ UNCHANGED <<store, known, from, to, now, located, tries, answer, history>>

Refused(r) ==
    /\ at[r] = "copy"
    /\ Exists(to[r])
    /\ at' = [at EXCEPT ![r] = "failed"]
    /\ UNCHANGED <<store, known, from, to, now, located, fields, tries, answer, history>>

(* Variants of the deletion: a source that is gone counts as deleted, nothing is
   compared, or only the records are. *)
RemoveGone(r) ==
    /\ at[r] = "remove"
    /\ store[from[r]] \in {fields[r], None}
    /\ Put(from[r], None)
    /\ at' = [at EXCEPT ![r] = "rotated"]
    /\ UNCHANGED <<known, from, to, now, located, fields, tries, answer, history>>

RemoveUnchecked(r) ==
    /\ at[r] = "remove"
    /\ Put(from[r], None)
    /\ at' = [at EXCEPT ![r] = "rotated"]
    /\ UNCHANGED <<known, from, to, now, located, fields, tries, answer, history>>

RemoveSameRecord(r) ==
    /\ at[r] = "remove"
    /\ Exists(from[r]) /\ SameRecord(store[from[r]], fields[r])
    /\ Put(from[r], None)
    /\ at' = [at EXCEPT ![r] = "rotated"]
    /\ UNCHANGED <<known, from, to, now, located, fields, tries, answer, history>>

(* Variant: the copy takes the flash value from the session located at first. *)
CopyStale(r) ==
    /\ at[r] = "copy"
    /\ ~Exists(to[r])
    /\ Put(to[r], located[r])
    /\ at' = [at EXCEPT ![r] = IF tries[r] < RotateAttempts THEN "remove" ELSE "drop"]
    /\ reused' = reused \cup ({to[r]} \cap known)
    /\ UNCHANGED <<known, from, to, now, located, fields, tries, answer, takes, out>>

(* The replacement record with the flash fields just read. *)
Replacement(r) == [located[r] EXCEPT !.flash = fields[r].flash]

(* The last attempt does not compare before it deletes. *)
Copy(r) ==
    /\ at[r] = "copy"
    /\ ~Exists(to[r])
    /\ Put(to[r], Replacement(r))
    /\ at' = [at EXCEPT ![r] = IF tries[r] < RotateAttempts THEN "remove" ELSE "drop"]
    /\ reused' = reused \cup ({to[r]} \cap known)
    /\ UNCHANGED <<known, from, to, now, located, fields, tries, answer, takes, out>>

Remove(r) ==
    /\ at[r] = "remove"
    /\ store[from[r]] = fields[r]
    /\ Put(from[r], None)
    /\ at' = [at EXCEPT ![r] = "rotated"]
    /\ UNCHANGED <<known, from, to, now, located, fields, tries, answer, history>>

Changed(r) ==
    /\ at[r] = "remove"
    /\ store[from[r]] # fields[r]
    /\ at' = [at EXCEPT ![r] = IF Exists(from[r]) THEN "withdraw" ELSE "giveUp"]
    /\ UNCHANGED <<store, known, from, to, now, located, fields, tries, answer, history>>

(* Variant: the attempts are not counted. *)
WithdrawUncounted(r) ==
    /\ at[r] \in {"withdraw", "giveUp"}
    /\ Put(to[r], None)
    /\ at' = [at EXCEPT ![r] = IF at[r] = "withdraw" THEN "read" ELSE "failed"]
    /\ UNCHANGED <<known, from, to, now, located, fields, tries, answer, history>>

(* The copy is deleted; then the next attempt, or an error when the source is gone. *)
Withdraw(r) ==
    /\ at[r] \in {"withdraw", "giveUp"}
    /\ Put(to[r], None)
    /\ IF at[r] = "withdraw"
       THEN at' = [at EXCEPT ![r] = "read"] /\ tries' = [tries EXCEPT ![r] = @ + 1]
       ELSE at' = [at EXCEPT ![r] = "failed"] /\ UNCHANGED tries
    /\ UNCHANGED <<known, from, to, now, located, fields, answer, history>>

Drop(r) ==
    /\ at[r] = "drop"
    /\ Put(from[r], None)
    /\ at' = [at EXCEPT ![r] = "rotated"]
    /\ UNCHANGED <<known, from, to, now, located, fields, tries, answer, history>>

(* rotate resolved: the cookie with the new identifier is sent. *)
Publish(r) ==
    /\ at[r] = "rotated"
    /\ known' = known \cup {to[r]}
    /\ at' = [at EXCEPT ![r] = "published"]
    /\ UNCHANGED <<store, from, to, now, located, fields, tries, answer, history>>

-------------------------------------------------------------------------------
(* touchSession *)

(* Variant: the record is written although the session is gone. *)
TouchRevives(r) ==
    /\ at[r] = "touch"
    /\ Exists(from[r]) => SameRecord(store[from[r]], fields[r])
    /\ Put(from[r], [fields[r] EXCEPT !.activity = now[r]])
    /\ at' = [at EXCEPT ![r] = "done"]
    /\ UNCHANGED <<known, from, to, now, located, fields, tries, answer, history>>

TouchRead(r, id, n) ==
    /\ On(r, id, "touchAgain") /\ (at[r] = "touchAgain" => n = now[r])
    /\ Exists(id)
    /\ now' = [now EXCEPT ![r] = n]
    /\ fields' = [fields EXCEPT ![r] = store[id]]
    /\ Goto(r, id, IF store[id].activity < n THEN "touch" ELSE "done")
    /\ UNCHANGED <<store, known, to, located, tries, answer, history>>

TouchWrite(r) ==
    /\ at[r] = "touch"
    /\ IF Exists(from[r]) /\ SameRecord(store[from[r]], fields[r])
       THEN /\ Put(from[r], [store[from[r]] EXCEPT !.activity = now[r]])
            /\ at' = [at EXCEPT ![r] = "done"]
       ELSE /\ at' = [at EXCEPT ![r] = IF Exists(from[r]) THEN "touchAgain" ELSE "failed"]
            /\ UNCHANGED store
    /\ UNCHANGED <<known, from, to, now, located, fields, tries, answer, history>>

-------------------------------------------------------------------------------
(* setDataIfAbsent of the CSRF _token; r offers a token of its own *)

(* Variant: the token is written over a record that changed since it was read. *)
TokenUnchecked(r) ==
    /\ at[r] = "token"
    /\ Exists(from[r])
    /\ Put(from[r], [store[from[r]] EXCEPT !.token = r])
    /\ answer' = [answer EXCEPT ![r] = r]
    /\ at' = [at EXCEPT ![r] = "done"]
    /\ UNCHANGED <<known, from, to, now, located, fields, tries, history>>

TokenRead(r, id) ==
    /\ On(r, id, "tokenAgain")
    /\ Exists(id)
    /\ fields' = [fields EXCEPT ![r] = store[id]]
    /\ Goto(r, id, IF store[id].token = None THEN "token" ELSE "done")
    /\ answer' = [answer EXCEPT ![r] = store[id].token]
    /\ UNCHANGED <<store, known, to, now, located, tries, history>>

TokenWrite(r) ==
    /\ at[r] = "token"
    /\ Exists(from[r]) /\ SameRecord(store[from[r]], fields[r])
    /\ Put(from[r], [store[from[r]] EXCEPT !.token = r])
    /\ answer' = [answer EXCEPT ![r] = r]
    /\ at' = [at EXCEPT ![r] = "done"]
    /\ UNCHANGED <<known, from, to, now, located, fields, tries, history>>

TokenContended(r) ==
    /\ at[r] = "token"
    /\ ~(Exists(from[r]) /\ SameRecord(store[from[r]], fields[r]))
    /\ tries' = [tries EXCEPT ![r] = @ + 1]
    /\ at' = [at EXCEPT ![r] = IF Exists(from[r]) /\ tries[r] + 1 < TokenAttempts
                               THEN "tokenAgain" ELSE "failed"]
    /\ UNCHANGED <<store, known, from, to, now, located, fields, answer, history>>

-------------------------------------------------------------------------------
(* flashSession, takeSession, invalidateSession and writeSession *)

Flash(r, id) ==
    /\ at[r] = "idle" /\ id \in known
    /\ Exists(id)
    /\ Put(id, [store[id] EXCEPT !.flash = r])
    /\ Goto(r, id, "done")
    /\ UNCHANGED <<known, to, now, located, fields, tries, answer, history>>

Take(r, id) ==
    /\ at[r] = "idle" /\ id \in known
    /\ Exists(id)
    /\ takes' = takes \cup ([flash : {store[id].flash} \ {None}, id : {id}, by : {r}])
    /\ Put(id, [store[id] EXCEPT !.flash = None])
    /\ Goto(r, id, "done")
    /\ UNCHANGED <<known, to, now, located, fields, tries, answer, out, reused>>

Logout(r, id) ==
    /\ at[r] = "idle" /\ id \in known
    /\ Exists(id)
    /\ Put(id, None)
    /\ out' = out \cup {id}
    /\ Goto(r, id, "done")
    /\ UNCHANGED <<known, to, now, located, fields, tries, answer, takes, reused>>

(* A writer reads the record, changes it and saves it as it is. *)
SaveRead(r, id) ==
    /\ at[r] = "idle" /\ id \in known
    /\ Exists(id)
    /\ located' = [located EXCEPT ![r] = store[id]]
    /\ Goto(r, id, "save")
    /\ UNCHANGED <<store, known, to, now, fields, tries, answer, history>>

SaveWrite(r) ==
    /\ at[r] = "save"
    /\ Put(from[r], [located[r] EXCEPT !.flash = IF Exists(from[r]) THEN store[from[r]].flash
                                                 ELSE None])
    /\ reused' = reused \cup {from[r]}
    /\ at' = [at EXCEPT ![r] = "done"]
    /\ UNCHANGED <<known, from, to, now, located, fields, tries, answer, takes, out>>

-------------------------------------------------------------------------------
(* What happens around the requests *)

(* The process stops between two scripts, or a script rejects. *)
Interrupt(r) ==
    /\ at[r] \in Steps
    /\ at' = [at EXCEPT ![r] = "interrupted"]
    /\ UNCHANGED <<store, known, from, to, now, located, fields, tries, answer, history>>

(* Redis drops a session at the end of its lifetime. *)
Expire(id) ==
    /\ id \in known /\ Exists(id)
    /\ Put(id, None)
    /\ out' = out \cup {id}
    /\ UNCHANGED <<known, at, from, to, now, located, fields, tries, answer, takes, reused>>

(* Another client flashes a value. *)
Disturb(id, value) ==
    /\ id \in known /\ Exists(id)
    /\ Put(id, [store[id] EXCEPT !.flash = value])
    /\ UNCHANGED <<known, at, from, to, now, located, fields, tries, answer, history>>

Continue(r) ==
    \/ ReadSource(r) \/ Refused(r) \/ Copy(r) \/ Remove(r) \/ Changed(r) \/ Withdraw(r)
    \/ Drop(r) \/ Publish(r)
    \/ TouchWrite(r) \/ TokenWrite(r) \/ TokenContended(r) \/ SaveWrite(r)

Operate(r, id) ==
    \/ Missing(r, id)
    \/ \E next \in Ids : Locate(r, id, next)
    \/ \E n \in 0 .. MaxTime : TouchRead(r, id, n)
    \/ TokenRead(r, id)
    \/ Flash(r, id) \/ Take(r, id) \/ Logout(r, id) \/ SaveRead(r, id)

Next ==
    \/ \E r \in Requests : Continue(r) \/ Interrupt(r) \/ \E id \in Ids : Operate(r, id)
    \/ \E id \in Ids : Expire(id) \/ \E value \in Noise : Disturb(id, value)

Spec == Init /\ [][Next]_vars

(* An interrupted request stops for good; every other one goes on, since it waits
   only for Redis to answer.  Nobody must start a request, and nothing must expire. *)
Fairness ==
    \A r \in Requests : WF_vars(Continue(r) \/ (at[r] # "idle" /\ \E id \in Ids : Operate(r, id)))

FairSpec == Spec /\ Fairness

-------------------------------------------------------------------------------
(* Properties *)

(* r's rotation resolved; all of its attempts but the last had been in vain. *)
Rotated(r) == at[r] \in {"rotated", "published"}
Contended(r) == Rotated(r) /\ tries[r] = RotateAttempts

(* Identifiers with those they were rotated from, none of which a writeSession wrote, or
   a rotation claimed once more or left without comparing. *)
Family(C) ==
    /\ C \cap reused = {}
    /\ \A r \in Requests : Rotated(r) /\ to[r] \in C => from[r] \in C
    /\ \A r \in Requests : Contended(r) => from[r] \notin C

Waiting ==
    {[flash |-> store[to[r]].flash, id |-> to[r], by |-> None] :
        r \in {q \in Requests : Rotated(q) /\ Exists(to[q])}}

(* A flash value written once is delivered at most once: under one identifier unless a
   writeSession brought it back, and under two only if one of them, or one they come from,
   was brought back or left by a contended rotation (ADR 0012: an uncontended rotation
   never restores a value taken during its copy).  What was taken cannot be taken again
   from the session a rotation ended with either. *)
FlashOnce ==
    \A x \in takes, y \in takes \cup Waiting :
        x.flash = y.flash /\ x # y
            => \/ x.flash \in Noise
               \/ x.id = y.id /\ x.id \in reused
               \/ x.id # y.id /\ \A C \in SUBSET Ids : {x.id, y.id} \subseteq C => ~ Family(C)

(* Of the rotations that started from one session at most one leaves a successor,
   except where a contended one deleted the source without comparing; and rotations
   given the same new identifier never both succeed. *)
OneSuccessor ==
    \A r, q \in Requests :
        r # q /\ Rotated(r) /\ Rotated(q)
            => /\ from[r] = from[q] => from[r] \in reused \/ Contended(r) \/ Contended(q)
               /\ to[r] = to[q] => to[r] \in reused

(* A session that was logged out or expired before a rotation removed it has no
   successor: compare-and-delete finds it gone and the copy is withdrawn. *)
LogoutStopsRotation ==
    \A r \in Requests :
        Rotated(r) /\ ~Contended(r) /\ from[r] \in out => from[r] \in reused

(* A session that was logged out, expired or rotated away is back only if a
   writeSession had been under way: touching, flashing, taking and the token write
   cannot bring back the old session. *)
NeverRevived ==
    \A id \in Ids :
        \/ id \in out
        \/ \E r \in Requests : Rotated(r) /\ from[r] = id
        => id \in reused \/ ~Exists(id)

(* Requests that ask one session for its CSRF token at the same time get the same
   one, whatever else is written to it meanwhile. *)
TokensAgree ==
    \A r, q \in Requests :
        answer[r] # None /\ answer[q] # None /\ from[r] = from[q] /\ from[r] \notin reused
            => answer[r] = answer[q]

(* A session under an identifier nobody was given is the copy of a rotation that is
   under way or was interrupted; a rotation that failed leaves none behind. *)
NoStray ==
    \A id \in Ids \ known :
        Exists(id) => \E r \in Requests :
                         /\ to[r] = id
                         /\ at[r] \in {"remove", "withdraw", "giveUp", "drop", "rotated",
                                       "interrupted"}

(* An uncontended rotation hands over the flash value its source has at the instant
   the source is deleted, whatever was flashed or taken during the copy. *)
FlashMoves ==
    [][\A r \in Requests :
          at[r] = "remove" /\ at'[r] = "rotated" /\ to[r] \notin reused
              => Exists(to[r]) /\ store[to[r]].flash = store[from[r]].flash]_vars

(* Rotation never fails because of write contention, nor goes on for ever, however
   often other clients write: it ends once its attempts are used up. *)
RotationEnds ==
    \A r \in Requests : at[r] = "read" ~> at[r] \in Ends

(* What ADR 0012 says of writes: only the contended fallback can lose one.  A CSRF
   token that setDataIfAbsent stored, and returned, before the source was deleted is
   on the new identifier. *)
RotationKeepsToken ==
    \A r, q \in Requests :
        /\ at[r] = "rotated" /\ ~Contended(r)
        /\ answer[q] # None /\ from[q] = from[r]
        /\ {from[r], to[r]} \cap reused = {}
        => Exists(to[r]) /\ store[to[r]].token = answer[q]
===============================================================================
