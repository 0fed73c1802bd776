---------------------------- MODULE MediaMutation ----------------------------
(***************************************************************************)
(* Media mutations (packages/media/src/model/mutation.ts) inside the       *)
(* transactions of Transactions: an attachment, a replacement or a         *)
(* regeneration stores its new file before it opens a write transaction,   *)
(* its first step there is to register the compensation, it writes the     *)
(* media row, and leaves the deletion of the file it replaces to the       *)
(* commit.                                                                 *)
(*                                                                         *)
(* The file a scope stores is named as the row that will point to it.      *)
(***************************************************************************)
EXTENDS Transactions

CONSTANT Media \* the scopes that are media mutations

ASSUME MediaAssumption ==
    /\ Media \subseteq Scopes
    /\ \A r \in Media \cap Roots : MaxAttempts[r] = 1
    /\ Structured \/ Media = {}

VARIABLES
    files,      \* new files stored
    written,    \* files whose write() has ended well
    cleaned,    \* files whose mutation has compensated, or tried to
    replaced    \* media scopes whose replaced file is still stored

mediaVars == <<files, written, cleaned, replaced>>

MediaTypeOK ==
    /\ TypeOK
    /\ files \cup written \cup cleaned \subseteq Rows
    /\ replaced \subseteq Media

MediaInit == Init /\ files = {} /\ written = {} /\ cleaned = {} /\ replaced = Media

FileOf(s) == <<s, IF s \in Roots THEN 1 ELSE attempt[RootOf(s)]>>

(* No media mutation that the scope called is between its file and its transaction. *)
MediaAwaited(s) ==
    \A m \in Media \cap Savepoints :
        Parent[m] = s /\ FileOf(m) \in written => stage[m] # "idle"

(* compensate(): the file goes, or its deletion fails and is reported. *)
Compensate(file) ==
    /\ files' \in {files, files \ {file}}
    /\ cleaned' = cleaned \cup {file}
    /\ UNCHANGED <<written, replaced>>

(* write(): a file that fails half way is deleted, if it can be. *)
PutFile(m) ==
    /\ stage[m] = "idle" /\ FileOf(m) \notin written \cup cleaned
    /\ IF m \in Roots THEN phase[m] = "idle" ELSE InCallback(Parent[m]) /\ MediaAwaited(Parent[m])
    /\ \/ /\ written' = written \cup {FileOf(m)}
          /\ files' = files \cup {FileOf(m)}
          /\ UNCHANGED cleaned
       \/ /\ cleaned' = cleaned \cup {FileOf(m)}
          /\ files' \in {files, files \cup {FileOf(m)}}
          /\ UNCHANGED written
    /\ UNCHANGED <<vars, replaced>>

Ready(s) == s \in Media => FileOf(s) \in written

(* Mutant of CompensateUnstarted: the caller leaves it to a callback nobody registered. *)
CompensateUnstartedNever(s) == s \in Scopes /\ UNCHANGED mediaVars

(* The transaction never started: the caller compensates. *)
CompensateUnstarted(s) ==
    IF s \in Media THEN Compensate(FileOf(s)) ELSE UNCHANGED mediaVars

(***************************************************************************)
(* The callbacks of a media scope: a failed deletion fails the callback,   *)
(* and the compensation may fail in its second half, the refresh of the    *)
(* record, too.                                                            *)
(***************************************************************************)
MediaAfterRollback(s) ==
    /\ AfterRollback(s)
    /\ LET file == Last(onRollback[s])
       IN  IF file[1] \in Media
           THEN Compensate(file) /\ (file \in files' => stage'[s] = "undone")
           ELSE UNCHANGED mediaVars

MediaAfterCommit(r) ==
    /\ AfterCommit(r)
    /\ LET m == Head(onCommit[r])[1]
       IN  \/ replaced' = replaced \ {m}
           \/ m \in Media /\ onCommit'[r] = <<>> /\ r \notin known' /\ UNCHANGED replaced
    /\ UNCHANGED <<files, written, cleaned>>

(* Mutant of MediaEnd: the replaced file is deleted when the transaction's callback ends.
   Mutant of MediaFails: any failure of the transaction is compensated by the caller. *)
MediaEndDeletes(s) ==
    /\ End(s) /\ MediaAwaited(s)
    /\ s \in Media => progress[s] > 0 /\ (stage'[s] = "returned" => progress[s] = 3)
    /\ replaced' = replaced \ {s}
    /\ UNCHANGED <<files, written, cleaned>>

MediaFailsCompensating(s) == RollbackToFails(s) /\ CompensateUnstarted(s)

(* The transaction had started: what its callbacks do not undo stays. *)
MediaFails(s) == RollbackToFails(s) /\ UNCHANGED mediaVars

(* Registering the compensation cannot fail; a media mutation returns after all of its steps. *)
MediaEnd(s) ==
    /\ End(s) /\ MediaAwaited(s)
    /\ s \in Media => progress[s] > 0 /\ (stage'[s] = "returned" => progress[s] = 3)
    /\ UNCHANGED mediaVars

MediaRootStep(r) ==
    \/ Request(r) /\ Ready(r) /\ UNCHANGED mediaVars
    \/ BeginFails(r) /\ CompensateUnstarted(r)
    \/ MediaAfterCommit(r)
    \/ /\ Resume(r) \/ BeginTransaction(r) \/ Commit(r) \/ CommitFails(r) \/ Rollback(r) \/ RollbackFails(r)
       /\ UNCHANGED mediaVars

MediaScopeStep(s) ==
    \/ MediaAfterRollback(s)
    \/ /\ MediaAwaited(s)
       /\ RegisterRollback(s) \/ Write(s) \/ RegisterCommit(s)
       /\ UNCHANGED mediaVars
    \/ MediaEnd(s)
    \/ Settled(s) /\ UNCHANGED mediaVars

MediaSavepointStep(s) ==
    \/ Start(s) /\ Ready(s) /\ UNCHANGED mediaVars
    \/ CreateSavepoint(s) /\ IF stage'[s] = "failed" THEN CompensateUnstarted(s) ELSE UNCHANGED mediaVars
    \/ MediaFails(s)
    \/ /\ ReleaseSavepoint(s) \/ ReleaseFails(s) \/ RollbackToSavepoint(s)
       /\ UNCHANGED mediaVars

MediaNext ==
    \/ \E m \in Media : PutFile(m)
    \/ \E r \in Roots : MediaRootStep(r)
    \/ \E s \in Scopes : MediaScopeStep(s)
    \/ \E s \in Savepoints : MediaSavepointStep(s)
    \/ \E q \in Queries : Statement(q) /\ UNCHANGED mediaVars

MediaSpec == MediaInit /\ [][MediaNext]_<<vars, mediaVars>>

(***************************************************************************)
(* NoDanglingRow: a durable media row points to a file that is stored,     *)
(* also when the answer to its commit was lost.                            *)
(***************************************************************************)
NoDanglingRow == \A row \in durable : row[1] \in Media => row \in files

(***************************************************************************)
(* ReplacedUntilDurable: the file a media row named before is deleted only *)
(* when a row that no longer names it is durable.                          *)
(***************************************************************************)
ReplacedUntilDurable ==
    \A m \in Media \ replaced : \E row \in durable : row[1] = m

(***************************************************************************)
(* NoOrphanFile: when an attempt has committed or rolled back and its      *)
(* callbacks have run, a file that no durable row names is one whose       *)
(* deletion failed.                                                        *)
(***************************************************************************)
NoOrphanFile ==
    \A r \in known : Drained(r) =>
        \A file \in files \ cleaned :
            r \in Lineage[file[1]] /\ file[2] = attempt[r] => file \in durable
=============================================================================
