------------------------------- MODULE Restore -------------------------------
(***************************************************************************)
(* Restoring a backup (src/restore.rs): a snapshot is validated, brought   *)
(* to the current format and staged beside the live files while the server *)
(* runs; the next start moves the live files into a backup directory,      *)
(* installs the staged snapshot and the journal it authorizes, and removes *)
(* the marker.  The start can die after any file operation and is then     *)
(* repeated, so every operation looks first at what is already there.      *)
(*                                                                         *)
(* A content is [base, n]: the image it started from (0, or the number of  *)
(* the restore) and the writes since.  A snapshot names the generation of  *)
(* the journal that may follow it.                                         *)
(***************************************************************************)
EXTENDS Integers

CONSTANTS
  MaxRestores,   \* restores staged
  MaxRestoreOps  \* writes, saves, crashes and status requests

RestoreId == 1..MaxRestores

VARIABLES
  phase,      \* "up", "down", "refused", or the step the start has reached
  mem,        \* content of the running server
  snapFile,   \* lux.dat
  jrn,        \* the global journal
  staged,     \* .lux-restore.snapshot
  marker,     \* .lux-restore.pending: the number of the restore
  kept,       \* restore-backups/<id>: snapshot, journal, backup-complete
  stager,     \* progress of the request that stages a restore
  guard,      \* Store::snapshot_guard, held or not
  bound,      \* the configuration is the one the restore was staged for
  truth,      \* ghost: what the next start has to serve
  before,     \* ghost: what each restore replaced
  ops, nextId, gen

restoreVars == <<phase, mem, snapFile, jrn, staged, marker, kept, stager, guard, bound,
                 truth, before, ops, nextId, gen>>

Missing == [base |-> -1, n |-> 0, gen |-> 0]
Image(c, g) == [base |-> c.base, n |-> c.n, gen |-> g]
Journal(g, n) == [base |-> 0, n |-> n, gen |-> g]
Start0 == [base |-> 0, n |-> 0]
NotKept == [snap |-> Missing, jrn |-> Missing, complete |-> FALSE]

\* Recovery: a snapshot needs the journal it authorizes; without a snapshot
\* the journal is everything, and a missing one is created empty.
Recoverable(s, j) == s = Missing \/ (j # Missing /\ s.gen = j.gen)
Recovered(s, j) == IF s = Missing THEN [base |-> 0, n |-> j.n]
                   ELSE [base |-> s.base, n |-> s.n + j.n]

RestoreInit ==
  /\ phase = "up"
  /\ mem = Start0 /\ truth = Start0
  /\ snapFile = Missing
  /\ jrn = Journal(1, 0)
  /\ staged = Missing /\ marker = 0
  /\ kept = [r \in RestoreId |-> NotKept]
  /\ stager = "idle" /\ guard = FALSE /\ bound = TRUE
  /\ before = [r \in RestoreId |-> Start0]
  /\ ops = MaxRestoreOps /\ nextId = 1 /\ gen = 2

Op == ops > 0 /\ ops' = ops - 1

(***************************************************************************)
(* The running server.                                                     *)
(***************************************************************************)
Write ==
  /\ phase = "up" /\ Op
  /\ mem' = [mem EXCEPT !.n = @ + 1]
  /\ truth' = mem'
  /\ jrn' = [jrn EXCEPT !.n = @ + 1]
  /\ UNCHANGED <<phase, snapFile, staged, marker, kept, stager, guard, bound, before, nextId, gen>>

\* save_and_truncate_wal_observed, under the snapshot guard.
Save ==
  /\ phase = "up" /\ ~guard /\ Op
  /\ snapFile' = Image(mem, gen)
  /\ jrn' = Journal(gen, 0)
  /\ gen' = gen + 1
  /\ UNCHANGED <<phase, mem, staged, marker, kept, stager, guard, bound, truth, before, nextId>>

NoneStaged == marker = 0

\* stage_restore: refused while another one is pending; leftovers of a stage
\* that published no marker are removed; the canonical image carries a
\* detached checkpoint with a journal generation of its own.
StagePayload ==
  /\ phase = "up" /\ stager = "idle" /\ ~guard
  /\ NoneStaged /\ nextId \in RestoreId
  /\ guard' = TRUE
  /\ stager' = "staged"
  /\ staged' = Image([base |-> nextId, n |-> 0], gen)
  /\ gen' = gen + 1
  /\ UNCHANGED <<phase, mem, snapFile, jrn, marker, kept, bound, truth, before, ops, nextId>>

StageMarker ==
  /\ stager = "staged"
  /\ stager' = "idle" /\ guard' = FALSE
  /\ \/ marker' = nextId /\ nextId' = nextId + 1 /\ UNCHANGED <<staged, ops>>
     \/ Op /\ staged' = Missing /\ UNCHANGED <<marker, nextId>>   \* the write failed
  /\ UNCHANGED <<phase, mem, snapFile, jrn, kept, bound, truth, before, gen>>

WaitsForNobody == TRUE
HasGuard == ~guard

CleanUncommittedStage == IF marker = 0 THEN Missing ELSE staged

\* pending_restore_status: reads the marker and cleans up without one.
Status ==
  /\ phase = "up" /\ HasGuard /\ Op
  /\ staged' = CleanUncommittedStage
  /\ UNCHANGED <<phase, mem, snapFile, jrn, marker, kept, stager, guard, bound, truth, before,
                 nextId, gen>>

\* The process ends, at any time; the operator may change the paths.
Down ==
  /\ phase # "down" /\ Op
  /\ phase' = "down"
  /\ mem' = Start0
  /\ stager' = "idle" /\ guard' = FALSE
  /\ bound' \in (IF marker # 0 THEN BOOLEAN ELSE {TRUE})
  /\ UNCHANGED <<snapFile, jrn, staged, marker, kept, truth, before, nextId, gen>>

(***************************************************************************)
(* The start: commit_pending_restore, then recovery.                       *)
(***************************************************************************)
Kept == kept[marker]
StepTo(p) == phase' = p
Quiet == UNCHANGED <<mem, stager, guard, bound, ops, nextId, gen>>

\* validate_candidate: the staged image, or after the backup the live one, has
\* the length and checksum the marker recorded.
CandidateValid ==
  IF staged # Missing THEN staged.base = marker
  ELSE Kept.complete /\ snapFile.base = marker

StartUp ==
  /\ phase = "down"
  /\ IF marker = 0
     THEN staged' = Missing /\ StepTo("recover")
     ELSE /\ UNCHANGED staged
          /\ StepTo(IF ~bound \/ ~CandidateValid THEN "refused"
                    ELSE IF Kept.complete THEN "install" ELSE "backup")
  /\ Quiet /\ UNCHANGED <<snapFile, jrn, marker, kept, truth, before>>

\* move_file_once and move_directory_once.
Moved(src, dst) == IF dst = Missing THEN src ELSE dst
Collides(src, dst) == src # Missing /\ dst # Missing

BackupSnapshot ==
  /\ phase = "backup"
  /\ kept' = [kept EXCEPT ![marker].snap = Moved(snapFile, @)]
  /\ snapFile' = IF Collides(snapFile, Kept.snap) THEN snapFile ELSE Missing
  /\ StepTo(IF Collides(snapFile, Kept.snap) THEN "refused" ELSE "backup journal")
  /\ before' = [before EXCEPT ![marker] = truth]
  /\ Quiet /\ UNCHANGED <<jrn, staged, marker, truth>>

BackupJournal ==
  /\ phase = "backup journal"
  /\ kept' = [kept EXCEPT ![marker].jrn = Moved(jrn, @)]
  /\ jrn' = IF Collides(jrn, Kept.jrn) THEN jrn ELSE Missing
  /\ StepTo(IF Collides(jrn, Kept.jrn) THEN "refused" ELSE "complete")
  /\ Quiet /\ UNCHANGED <<snapFile, staged, marker, truth, before>>

UnmarksFirst == "unmark"
AfterBackup == "install"

BackupComplete ==
  /\ phase = "complete"
  /\ kept' = [kept EXCEPT ![marker].complete = TRUE]
  /\ StepTo(AfterBackup)
  /\ Quiet /\ UNCHANGED <<snapFile, jrn, staged, marker, truth, before>>

InstallSnapshot ==
  /\ phase = "install"
  /\ IF staged # Missing /\ snapFile # Missing
     THEN StepTo("refused") /\ UNCHANGED <<snapFile, staged>>
     ELSE /\ snapFile' = IF staged # Missing THEN staged ELSE snapFile
          /\ staged' = Missing
          /\ StepTo("journal")
  /\ Quiet /\ UNCHANGED <<jrn, marker, kept, truth, before>>

\* Wal::create_named_with_generation: an existing journal must already be the
\* authorized one.
InstallSuccessorJournal ==
  /\ phase = "journal"
  /\ IF jrn # Missing /\ jrn.gen # snapFile.gen
     THEN StepTo("refused") /\ UNCHANGED jrn
     ELSE jrn' = (IF jrn = Missing THEN Journal(snapFile.gen, 0) ELSE jrn) /\ StepTo("unmark")
  /\ Quiet /\ UNCHANGED <<snapFile, staged, marker, kept, truth, before>>

RemoveMarker ==
  /\ phase = "unmark"
  /\ truth' = [base |-> marker, n |-> 0]
  /\ marker' = 0
  /\ StepTo("recover")
  /\ Quiet /\ UNCHANGED <<snapFile, jrn, staged, kept, before>>

Recover ==
  /\ phase = "recover"
  /\ IF Recoverable(snapFile, jrn)
     THEN mem' = Recovered(snapFile, jrn) /\ StepTo("up")
     ELSE UNCHANGED mem /\ StepTo("refused")
  /\ UNCHANGED <<snapFile, jrn, staged, marker, kept, stager, guard, bound, truth, before,
                 ops, nextId, gen>>

\* Variant: the journal is dropped instead of moved.
KeepsNoJournal ==
  \/ BackupSnapshot \/ BackupComplete \/ InstallSnapshot \/ InstallSuccessorJournal \/ RemoveMarker
  \/ /\ phase = "backup journal"
     /\ jrn' = Missing
     /\ StepTo("complete")
     /\ Quiet /\ UNCHANGED <<snapFile, kept, staged, marker, truth, before>>

CommitPendingRestore ==
  \/ BackupSnapshot \/ BackupJournal \/ BackupComplete
  \/ InstallSnapshot \/ InstallSuccessorJournal \/ RemoveMarker

RestoreNext ==
  \/ Write \/ Save \/ StagePayload \/ StageMarker \/ Status \/ Down
  \/ StartUp \/ CommitPendingRestore \/ Recover

RestoreSpec == RestoreInit /\ [][RestoreNext]_restoreVars

\* The variables have their types.
RestoreTypeOK ==
  /\ marker \in 0..MaxRestores
  /\ guard \in BOOLEAN /\ bound \in BOOLEAN
  /\ stager \in {"idle", "staged"}

\* A server that serves holds either every acknowledged write or, once the
\* marker is gone, exactly the restored image and what was written since: no
\* crash between two file operations of a restore mixes the two or brings the
\* old state back (commit_pending_restore runs before the store opens).
ServesWhole == phase = "up" => mem = truth

\* The state a committed restore replaced can be recovered from its backup,
\* with the writes acknowledged after the restore was staged
\* (backup_current_state: snapshot, journal, then backup-complete).
RollbackKept ==
  \A r \in RestoreId : kept[r].complete =>
    /\ Recoverable(kept[r].snap, kept[r].jrn)
    /\ Recovered(kept[r].snap, kept[r].jrn) = before[r]

\* No crash leaves files a start cannot finish with: a start is refused only
\* when the configuration changed under a staged restore.
NeverStuck == phase = "refused" => ~bound
=============================================================================
