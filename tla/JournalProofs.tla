--------------------------- MODULE JournalProofs ---------------------------
(***************************************************************************)
(* Theorems about the journal, for every number of keys and writers, both  *)
(* durability policies and any number of faults: its types, and its crash  *)
(* safety.  Up to the first power loss, with any number of process         *)
(* crashes, failed file operations, snapshots and restarts, a restart is   *)
(* never refused and loses nothing that was acknowledged or visible.       *)
(* JournalInv is shown to be inductive for every step but a power loss.    *)
(* The last part is about what a step may never do, through power losses   *)
(* too: write after the final sync of a shutdown, or apply a mutation to a *)
(* key that already has a later one.                                       *)
(***************************************************************************)
EXTENDS JournalProperties, TLAPS

-----------------------------------------------------------------------------
(* Lemmas on files                                                         *)

\* Truncating a journal file (File::set_len) yields a journal file.
LEMMA SetLenType ==
  ASSUME NEW w \in WalFile, NEW offset \in Nat
  PROVE  SetLen(w, offset) \in WalFile
  BY DEF SetLen, WalFile

\* Rolling a journal file back (Wal::rollback_to) yields a journal file.
LEMMA RollbackType ==
  ASSUME NEW w \in WalFile, NEW offset \in Nat
  PROVE  RollbackTo(w, offset) \in WalFile
  BY SetLenType DEF RollbackTo, SetLen, WalFile

\* Syncing a journal file (Wal::fsync) yields a journal file.
LEMMA SyncedType ==
  ASSUME NEW w \in WalFile
  PROVE  Synced(w) \in WalFile
  BY DEF Synced, WalFile

\* Whatever a power loss leaves of a journal file, whole or torn, is a journal
\* file.
LEMMA PowerCutType ==
  ASSUME NEW w \in WalFile, NEW c \in PowerCut(w)
  PROVE  c \in WalFile
<1>1. ASSUME NEW e \in Nat PROVE KeptUpTo(w, e) \in WalFile
  BY SetLenType DEF KeptUpTo, SetLen, WalFile
<1>2. ASSUME NEW f \in w.frames
      PROVE  f.id + 1 \in Nat /\ [f EXCEPT !.whole = FALSE] \in Frame
  <2>1. f \in Frame
    BY DEF WalFile
  <2>2. f.id \in Nat
    BY <2>1 DEF Frame
  <2>3. [f EXCEPT !.whole = FALSE] \in Frame
    BY <2>1 DEF Frame
  <2> QED
    BY <2>2, <2>3
<1>3. ASSUME NEW f \in w.frames PROVE TornAt(w, f) \in WalFile
  <2>1. KeptUpTo(w, f.id + 1) \in WalFile
    BY <1>1, <1>2
  <2> QED
    BY <2>1, <1>2 DEF TornAt, WalFile
<1>4. w.synced \in Nat
  BY DEF WalFile
<1>5. \/ c = KeptUpTo(w, w.synced)
      \/ \E f \in w.frames : c = KeptUpTo(w, f.id + 1)
      \/ \E f \in w.frames : c = TornAt(w, f)
  BY DEF PowerCut
<1> QED
  BY <1>1, <1>2, <1>3, <1>4, <1>5

\* A store without lux.dat is described by a well-formed snapshot.
LEMMA NoSnapshotType == NoSnapshot \in SnapshotFile
  BY DEF NoSnapshot, SnapshotFile, EmptyImage

\* Recovery (load_for_recovery, replay_wal) rebuilds a typed image and leaves a
\* journal file.
LEMMA RecoveredType ==
  ASSUME NEW s \in SnapshotFile, NEW w \in WalFile
  PROVE  /\ Recovered(s, w) \in [Key -> SUBSET Nat]
         /\ RecoveredWal(s, w) \in WalFile
<1>1. ReplayFrames(s, w) \subseteq w.frames /\ w.frames \subseteq Frame
  BY DEF ReplayFrames, WalFile
<1>2. Recovered(s, w) \in [Key -> SUBSET Nat]
  BY <1>1 DEF Recovered, Ids, SnapshotFile, Frame
<1>3. RecoveredWal(s, w) \in WalFile
  <2> DEFINE bad == {f \in w.frames : ~f.whole} \cup RejectedTail(s, w)
  <2>1. CASE bad = {}
    BY <2>1 DEF RecoveredWal
  <2>2. CASE bad # {}
    <3>1. bad \subseteq Frame
      BY <1>1 DEF RejectedTail
    <3>2. (CHOOSE f \in bad : TRUE) \in bad
      BY <2>2
    <3> HIDE DEF bad
    <3>3. (CHOOSE f \in bad : TRUE).id \in Nat
      BY <3>1, <3>2 DEF Frame
    <3>4. RecoveredWal(s, w) = RollbackTo(w, (CHOOSE f \in bad : TRUE).id)
      BY <2>2 DEF RecoveredWal, bad
    <3> QED
      BY <3>3, <3>4, RollbackType
  <2> QED
    BY <2>1, <2>2
<1> QED
  BY <1>2, <1>3

-----------------------------------------------------------------------------
(* Type correctness                                                        *)

\* A fresh store satisfies the type invariant.
LEMMA InitType == Init => TypeOK
<1> SUFFICES ASSUME Init PROVE TypeOK
  OBVIOUS
<1>1. NoJob \in Job
  BY DEF NoJob, Job
<1>2. wal \in WalFile
  BY DEF Init, WalFile
<1>3. EmptyImage \in [Key -> SUBSET Nat]
  BY DEF EmptyImage
<1>4. Nobody \in Owner
  BY DEF Owner
<1>5. faults \in [proc : Nat, power : Nat, io : Nat, saves : Nat]
  BY DEF Init
<1> QED
  BY <1>1, <1>2, <1>3, <1>4, <1>5, NoSnapshotType DEF Init, TypeOK

\* Dropping the guards of a mutation keeps the types.
LEMMA ReplyType ==
  ASSUME TypeOK, NEW w \in Writer, Reply(w)
  PROVE  /\ gate' \in [Key -> Owner] /\ jlock' \in Owner
         /\ pc' \in [Writer -> {"idle", "gates", "prepared", "appending", "syncing",
                                "applying"}]
         /\ job' \in [Writer -> Job]
  BY DEF TypeOK, Reply, ReleaseGates, Owner, Job, NoJob

\* A successful sync of the journal keeps the types of what it changes.
LEMMA SyncWalType ==
  ASSUME TypeOK, SyncWal
  PROVE  wal' \in WalFile /\ staleWals' \in SUBSET WalFile /\ hardened' \in SUBSET Nat
<1>1. wal' \in WalFile /\ staleWals' \in SUBSET WalFile
  BY SyncedType DEF TypeOK, SyncWal, StaleAfterSync
<1>2. \A f \in wal.frames : f.id \in Nat
  BY DEF TypeOK, WalFile, Frame
<1>3. hardened' \in SUBSET Nat
  <2>1. hardened \in SUBSET Nat
    BY DEF TypeOK
  <2>2. hardened' = hardened \cup {f.id : f \in wal.frames}
    BY DEF SyncWal, Ids
  <2> QED
    BY <1>2, <2>1, <2>2
<1> QED
  BY <1>1, <1>3

\* A step that fails or does not fail keeps the fault counters typed.
LEMMA FaultsType ==
  ASSUME TypeOK, IoError \/ NoError
  PROVE  faults' \in [proc : Nat, power : Nat, io : Nat, saves : Nat]
  BY DEF TypeOK, IoError, NoError

\* A process that stops leaves the volatile variables in their initial ranges.
LEMMA VanishType ==
  ASSUME Vanish
  PROVE  /\ phase' = "down" /\ mem' \in [Key -> SUBSET Nat]
         /\ poisoned' \in BOOLEAN /\ accepting' \in BOOLEAN
         /\ gate' \in [Key -> Owner] /\ jlock' \in Owner
         /\ pc' \in [Writer -> {"idle", "gates", "prepared", "appending", "syncing",
                                "applying"}]
         /\ job' \in [Writer -> Job]
         /\ spc' = "idle" /\ cap' \in SnapshotFile /\ cpc' = "idle"
  BY NoSnapshotType DEF Vanish, EmptyImage, Owner, Job, NoJob

\* Every step of a mutation (commit_journaled and its phases) preserves TypeOK.
LEMMA WriterStepType ==
  ASSUME TypeOK, NEW w \in Writer, WriterStep(w)
  PROVE  TypeOK'
<1>1. ASSUME NEW k \in Key, LockGate(w, k) PROVE TypeOK'
  BY <1>1 DEF TypeOK, LockGate, lifeVars, writerVars, saverVars, walVars, snapVars,
              counters, Owner
<1>2. CASE PrepareJournaled(w)
  BY <1>2, ReplyType DEF TypeOK, PrepareJournaled, lifeVars, writerVars, saverVars,
                         walVars, snapVars, counters
<1>3. CASE AppendStart(w)
  <2>1. CASE ~poisoned
    <3>1. /\ jlock' = w
          /\ pc' = [pc EXCEPT ![w] = "appending"]
          /\ job' = [job EXCEPT ![w].id = nextId]
          /\ wal' = [wal EXCEPT !.frames = @ \cup {FrameOf(job'[w], FALSE)},
                                !.end = nextId + 1]
          /\ nextId' = nextId + 1
          /\ UNCHANGED gate
      BY <1>3, <2>1 DEF AppendStart
    <3>2. job' \in [Writer -> Job]
      BY <3>1 DEF TypeOK, Job
    <3>3. FrameOf(job'[w], FALSE) \in Frame
      BY <3>2 DEF FrameOf, Job, Frame
    <3>4. nextId + 1 \in Nat
      BY DEF TypeOK
    <3>5. wal' \in WalFile
      <4> DEFINE fs == wal.frames \cup {FrameOf(job'[w], FALSE)}
      <4>1. fs \in SUBSET Frame
        BY <3>3 DEF TypeOK, WalFile
      <4>2. wal' = [wal EXCEPT !.frames = fs, !.end = nextId + 1]
        BY <3>1
      <4> HIDE DEF fs
      <4> QED
        BY <4>1, <4>2, <3>4 DEF TypeOK, WalFile
    <3> QED
      BY <1>3, <3>1, <3>2, <3>4, <3>5 DEF TypeOK, AppendStart, lifeVars, saverVars, snapVars, Owner
  <2>2. CASE poisoned
    <3>1. Reply(w) /\ UNCHANGED <<wal, nextId>>
      BY <1>3, <2>2 DEF AppendStart
    <3> QED
      BY <1>3, <3>1, ReplyType DEF TypeOK, AppendStart, lifeVars, saverVars, snapVars
  <2> QED
    BY <2>1, <2>2
<1>4. CASE AppendDone(w)
  <2>1. FrameOf(job[w], TRUE) \in Frame
    BY DEF TypeOK, FrameOf, Job, Frame
  <2>2. wal' \in WalFile
    BY <1>4, <2>1 DEF TypeOK, AppendDone, WalFile
  <2>3. NextAfterAppend \in {"syncing", "applying"}
    BY DEF NextAfterAppend
  <2> QED
    BY <1>4, <2>2, <2>3 DEF TypeOK, AppendDone, lifeVars, saverVars, snapVars, counters, Owner
<1>5. CASE SyncDone(w)
  BY <1>5, SyncWalType DEF TypeOK, SyncDone, lifeVars, saverVars, snapVars, counters, Owner
<1>6. ASSUME RollbackDone(w) \/ RollbackFails(w)
      PROVE  wal' \in WalFile /\ staleWals' \in SUBSET WalFile /\ poisoned' \in BOOLEAN
  <2>1. job[w].id \in Nat
    BY DEF TypeOK, Job
  <2> QED
    BY <1>6, <2>1, SetLenType, RollbackType
    DEF TypeOK, RollbackDone, RollbackFails, StaleAfterSync
<1>7. CASE AppendFails(w)
  BY <1>6, <1>7, ReplyType, FaultsType
  DEF TypeOK, AppendFails, lifeVars, saverVars, snapVars, counters
<1>8. ASSUME NEW k \in Key, Apply(w, k) PROVE TypeOK'
  <2>1. mem' \in [Key -> SUBSET Nat]
    BY <1>8 DEF TypeOK, Apply, Job
  <2> QED
    BY <1>8, <2>1 DEF TypeOK, Apply, lifeVars, writerVars, saverVars, walVars, snapVars,
                      counters
<1>9. CASE Reject(w)
  BY <1>6, <1>9, ReplyType, FaultsType
  DEF TypeOK, Reject, lifeVars, saverVars, snapVars, counters
<1>10. CASE ApplyFails(w)
  BY <1>10, ReplyType, FaultsType
  DEF TypeOK, ApplyFails, lifeVars, saverVars, walVars, snapVars, counters
<1>11. CASE Complete(w)
  <2>1. acked' \in [Key -> SUBSET Nat]
    BY <1>11 DEF TypeOK, Complete, Job
  <2> QED
    BY <1>11, <2>1, ReplyType
    DEF TypeOK, Complete, lifeVars, saverVars, walVars, snapVars, counters
<1> QED
  BY <1>1, <1>2, <1>3, <1>4, <1>5, <1>7, <1>8, <1>9, <1>10, <1>11 DEF WriterStep

\* Every step of a save preserves TypeOK; the rotation needs to know that the
\* captured successor is a generation.
LEMMA SaverStepType ==
  ASSUME TypeOK, CaptureTyped, SaverStep
  PROVE  TypeOK'
<1> USE NoSnapshotType, FaultsType
<1>1. ASSUME NEW k \in Key, SaveLockGate(k) PROVE TypeOK'
  BY <1>1 DEF TypeOK, SaveLockGate, LockBarrier, lifeVars, writerVars, saverVars, walVars,
              snapVars, counters, Owner
<1>2. CASE Capture
  <2>1. gate' \in [Key -> Owner]
    BY <1>2 DEF Capture, ReleaseGates, TypeOK, Owner
  <2>2. CASE CheckpointSync /\ ~IoError
    <3>1. wal' \in WalFile /\ staleWals' \in SUBSET WalFile /\ hardened' \in SUBSET Nat
      BY <2>2, SyncWalType DEF CheckpointSync
    <3>2. nextGen' \in Nat
      BY <1>2, <2>2 DEF Capture, TypeOK
    <3>3. [image |-> mem, gen |-> wal.gen, offset |-> wal.end, succ |-> nextGen] \in SnapshotFile
      BY DEF TypeOK, SnapshotFile, WalFile
    <3>4. spc' \in {"idle", "write"} /\ cap' \in SnapshotFile
      BY <1>2, <2>2, <3>3 DEF Capture, SaveEnds
    <3> QED
      BY <1>2, <2>1, <2>2, <3>1, <3>2, <3>4
      DEF TypeOK, Capture, lifeVars, writerVars, snapVars
  <2>3. CASE IoError /\ UNCHANGED nextGen
    <3>1. SaveEnds /\ UNCHANGED <<walVars, hardened>>
      BY <1>2, <2>3 DEF Capture, TypeOK
    <3> QED
      BY <1>2, <2>1, <2>3, <3>1
      DEF TypeOK, Capture, SaveEnds, lifeVars, writerVars, snapVars, walVars
  <2> QED
    BY <1>2, <2>2, <2>3 DEF Capture, IoError, NoError, TypeOK
<1>3. CASE Install
  BY <1>3 DEF TypeOK, Install, SaveEnds, lifeVars, writerVars, walVars, snapVars, counters
<1>4. CASE SyncSnapshotDir
  BY <1>4 DEF TypeOK, SyncSnapshotDir, SnapshotDirSynced, SaveEnds, lifeVars, writerVars,
              walVars, counters
<1>5. CASE CheckBeforeRotate
  BY <1>5 DEF TypeOK, CheckBeforeRotate, SaveEnds, lifeVars, writerVars, walVars, snapVars,
              counters
<1>6. CASE RotateAfter
  <2>1. Retained \in SUBSET Frame
    BY DEF TypeOK, Retained, WalFile
  <2>2. [gen |-> cap.succ, frames |-> Retained, synced |-> wal.end, end |-> wal.end] \in WalFile
    BY <1>6, <2>1 DEF TypeOK, CaptureTyped, RotateAfter, WalFile
  <2> QED
    BY <1>6, <2>2 DEF TypeOK, RotateAfter, lifeVars, writerVars, walVars, snapVars, counters, Owner
<1>7. CASE SyncJournalDir
  <2>1. Ids(wal.frames) \in SUBSET Nat
    BY DEF TypeOK, Ids, WalFile, Frame
  <2> QED
    BY <1>7, <2>1 DEF TypeOK, SyncJournalDir, SaveEnds, lifeVars, writerVars, snapVars,
                      counters, Owner
<1>8. CASE PoisonAfterRotate
  BY <1>8 DEF TypeOK, PoisonAfterRotate, SaveEnds, lifeVars, writerVars, walVars, snapVars,
              counters
<1> QED
  BY <1>1, <1>2, <1>3, <1>4, <1>5, <1>6, <1>7, <1>8 DEF SaverStep

\* Every step of the graceful shutdown preserves TypeOK.
LEMMA CloserStepType ==
  ASSUME TypeOK, CloserStep
  PROVE  TypeOK'
<1>1. CASE JoinSaver
  BY <1>1 DEF TypeOK, JoinSaver, writerVars, saverVars, walVars, snapVars, counters
<1>2. ASSUME NEW k \in Key, CloseLockGate(k) PROVE TypeOK'
  BY <1>2 DEF TypeOK, CloseLockGate, LockBarrier, lifeVars, writerVars, saverVars, walVars,
              snapVars, counters, Owner
<1>3. CASE FinalizeShutdown
  <2>1. gate' \in [Key -> Owner]
    BY <1>3 DEF FinalizeShutdown, ReleaseGates, TypeOK, Owner
  <2>2. wal' \in WalFile /\ staleWals' \in SUBSET WalFile /\ hardened' \in SUBSET Nat
    BY <1>3, SyncWalType DEF FinalizeShutdown, TypeOK, walVars
  <2> QED
    BY <1>3, <2>1, <2>2, FaultsType
    DEF TypeOK, FinalizeShutdown, writerVars, saverVars, snapVars, counters
<1>4. CASE Exit
  BY <1>4, VanishType DEF TypeOK, Exit, walVars, snapVars, counters
<1> QED
  BY <1>1, <1>2, <1>3, <1>4 DEF CloserStep

\* Every step of the journal keeps the types.
LEMMA NextType ==
  ASSUME TypeOK, CaptureTyped, [Next]_vars
  PROVE  TypeOK'
<1>1. ASSUME NEW w \in Writer, NEW keys \in KeySets, NEW checked \in BOOLEAN,
             NEW doomed \in BOOLEAN, Begin(w, keys, checked, doomed)
      PROVE  TypeOK'
  <2>1. keys \in SUBSET Key
    BY DEF KeySets
  <2>2. [id |-> 0, keys |-> keys, checked |-> checked, doomed |-> doomed] \in Job
    BY <2>1 DEF Job
  <2> QED
    BY <1>1, <2>2 DEF TypeOK, Begin, lifeVars, saverVars, walVars, snapVars, counters
<1>2. ASSUME NEW w \in Writer, WriterStep(w) PROVE TypeOK'
  BY <1>2, WriterStepType
<1>3. CASE FsyncWal
  <2>1. wal' \in WalFile /\ staleWals' \in SUBSET WalFile /\ hardened' \in SUBSET Nat
    BY <1>3, SyncWalType DEF FsyncWal, TypeOK, walVars
  <2> QED
    BY <1>3, <2>1, FaultsType
    DEF TypeOK, FsyncWal, lifeVars, writerVars, saverVars, snapVars, counters
<1>4. CASE SaveBegin
  BY <1>4 DEF TypeOK, SaveBegin, lifeVars, writerVars, walVars, snapVars, counters
<1>5. CASE SaverStep
  BY <1>5, SaverStepType
<1>6. CASE BeginShutdown
  BY <1>6 DEF TypeOK, BeginShutdown, writerVars, saverVars, walVars, snapVars, counters
<1>7. CASE CloserStep
  BY <1>7, CloserStepType
<1>8. CASE ProcessCrash
  BY <1>8, VanishType DEF TypeOK, ProcessCrash, walVars, snapVars, counters
<1>9. CASE PowerLoss
  <2>1. wal' \in WalFile
    BY <1>9, PowerCutType DEF TypeOK, PowerLoss
  <2>2. snap' \in SnapshotFile
    BY <1>9 DEF TypeOK, PowerLoss
  <2>3. acked' \in [Key -> SUBSET Nat]
    BY <1>9 DEF TypeOK, PowerLoss, Owed
  <2> QED
    BY <1>9, <2>1, <2>2, <2>3, VanishType DEF TypeOK, PowerLoss, counters
<1>10. CASE Recover
  BY <1>10, RecoveredType
  DEF TypeOK, Recover, StaleAfterSync, writerVars, saverVars, snapVars, counters
<1>11. CASE UNCHANGED vars
  BY <1>11 DEF TypeOK, vars
<1> QED
  BY <1>1, <1>2, <1>3, <1>4, <1>5, <1>6, <1>7, <1>8, <1>9, <1>10, <1>11 DEF Next

\* Every step keeps the generation that a running save may rotate to.
LEMMA NextCaptureTyped ==
  ASSUME TypeOK, CaptureTyped, [Next]_vars
  PROVE  CaptureTyped'
<1>1. CASE UNCHANGED saverVars
  BY <1>1 DEF CaptureTyped, saverVars
<1>2. CASE spc' \in {"idle", "barrier", "renamed", "failed"}
  BY <1>2 DEF CaptureTyped
<1>3. ASSUME NEW w \in Writer, WriterStep(w) PROVE UNCHANGED saverVars
  <2> USE DEF saverVars
  <2>1. ASSUME NEW k \in Key, LockGate(w, k) \/ Apply(w, k) PROVE UNCHANGED saverVars
    BY <2>1 DEF LockGate, Apply
  <2>2. CASE PrepareJournaled(w) \/ AppendStart(w) \/ AppendDone(w) \/ SyncDone(w)
    BY <2>2 DEF PrepareJournaled, AppendStart, AppendDone, SyncDone
  <2>3. CASE AppendFails(w) \/ Reject(w) \/ ApplyFails(w) \/ Complete(w)
    BY <2>3 DEF AppendFails, Reject, ApplyFails, Complete
  <2> QED
    BY <1>3, <2>1, <2>2, <2>3 DEF WriterStep
<1>4. CASE SaverStep
  <2>1. ASSUME NEW k \in Key, SaveLockGate(k) PROVE CaptureTyped'
    BY <1>1, <2>1 DEF SaveLockGate, LockBarrier
  <2>2. CASE Capture
    <3>1. spc' = "idle" \/ cap'.succ = nextGen
      BY <2>2 DEF Capture, SaveEnds
    <3> QED
      BY <1>2, <3>1 DEF CaptureTyped, TypeOK
  <2>3. CASE Install
    BY <2>3 DEF Install, SaveEnds, CaptureTyped
  <2>4. CASE SyncSnapshotDir
    BY <2>4 DEF SyncSnapshotDir, SaveEnds, CaptureTyped
  <2>5. CASE CheckBeforeRotate
    BY <2>5 DEF CheckBeforeRotate, SaveEnds, CaptureTyped
  <2>6. CASE RotateAfter \/ SyncJournalDir \/ PoisonAfterRotate
    BY <1>2, <2>6 DEF RotateAfter, SyncJournalDir, PoisonAfterRotate, SaveEnds
  <2> QED
    BY <1>4, <2>1, <2>2, <2>3, <2>4, <2>5, <2>6 DEF SaverStep
<1>5. CASE CloserStep
  <2>1. ASSUME NEW k \in Key, CloseLockGate(k) PROVE CaptureTyped'
    BY <1>1, <2>1 DEF CloseLockGate, LockBarrier
  <2> QED
    BY <1>1, <1>2, <1>5, <2>1 DEF CloserStep, JoinSaver, FinalizeShutdown, Exit, Vanish
<1>6. CASE FsyncWal \/ BeginShutdown \/ Recover
  BY <1>1, <1>6 DEF FsyncWal, BeginShutdown, Recover
<1>7. CASE SaveBegin \/ ProcessCrash \/ PowerLoss
  BY <1>2, <1>7 DEF SaveBegin, ProcessCrash, PowerLoss, Vanish
<1>8. ASSUME NEW w \in Writer, NEW keys \in KeySets, NEW checked \in BOOLEAN,
             NEW doomed \in BOOLEAN, Begin(w, keys, checked, doomed)
      PROVE  UNCHANGED saverVars
  BY <1>8 DEF Begin
<1>9. CASE UNCHANGED vars
  BY <1>1, <1>9 DEF vars, saverVars
<1> QED
  BY <1>1, <1>3, <1>4, <1>5, <1>6, <1>7, <1>8, <1>9 DEF Next

\* The type invariant of the journal: locks, program counters, files and
\* bookkeeping stay within their ranges, through every crash and IO error.
THEOREM TypeCorrect == Spec => []TypeOK
<1>1. Init => TypeOK /\ CaptureTyped
  BY InitType DEF Init, CaptureTyped
<1>2. TypeOK /\ CaptureTyped /\ [Next]_vars => TypeOK' /\ CaptureTyped'
  BY NextType, NextCaptureTyped
<1> QED
  BY <1>1, <1>2, PTL DEF Spec

-----------------------------------------------------------------------------
(* What recovery computes                                                  *)

\* Mutation i is part of what recovery rebuilds for key k when the replay
\* starts at the given offset.
Rebuilt(s, w, offset, k, i) ==
  \/ i \in s.image[k]
  \/ \E f \in w.frames : f.id = i /\ f.id >= offset /\ ~Bad(f) /\ k \in f.keys

\* A rejected command is always the checked tail, so recovery drops exactly
\* the bad frames.
LEMMA RecoveredIs ==
  ASSUME NEW s, NEW w, NEW k \in Key, NEW i,
         \A f \in w.frames : Bad(f) => (\A g \in w.frames : g.id <= f.id) /\ (f.doomed => f.checked)
  PROVE  i \in Recovered(s, w)[k] <=> Rebuilt(s, w, ReplayOffset(s, w), k, i)
<1>1. ASSUME NEW f \in w.frames
      PROVE  f \in ReplayFrames(s, w) \ RejectedTail(s, w)
               <=> f.id >= ReplayOffset(s, w) /\ ~Bad(f)
  BY DEF ReplayFrames, RejectedTail, IsLast, Bad
<1>2. ReplayFrames(s, w) \ RejectedTail(s, w) \subseteq w.frames
  BY DEF ReplayFrames
<1>3. Recovered(s, w)[k] =
        s.image[k] \cup {f.id : f \in {g \in ReplayFrames(s, w) \ RejectedTail(s, w) : k \in g.keys}}
  BY DEF Recovered, Ids
<1> HIDE DEF ReplayFrames, RejectedTail
<1> QED
  BY <1>1, <1>2, <1>3 DEF Rebuilt

\* The replay of the present files starts, in effect, where the snapshot ends.
LEMMA RecoverableIs ==
  ASSUME TypeOK, FrameInv, SnapInv, NEW k \in Key, NEW i
  PROVE  i \in Recoverable[k] <=> Rebuilt(snap, wal, snap.offset, k, i)
<1>1. i \in Recoverable[k] <=> Rebuilt(snap, wal, ReplayOffset(snap, wal), k, i)
  BY RecoveredIs DEF FrameInv, Recoverable
<1>2. ASSUME NEW f \in wal.frames
      PROVE  f.id >= ReplayOffset(snap, wal) <=> f.id >= snap.offset
  <2>1. f.id \in Nat
    BY DEF TypeOK, WalFile, Frame
  <2> QED
    BY <2>1 DEF ReplayOffset, SnapInv
<1> QED
  BY <1>1, <1>2 DEF Rebuilt

\* The files the invariant describes pass every check of the startup.
LEMMA NotRefused ==
  ASSUME TypeOK, FrameInv, SnapInv
  PROVE  ~Refused(snap, wal)
<1>1. ~(snap.gen # NoGen /\ wal.gen \notin {snap.gen, snap.succ})
  BY DEF SnapInv
<1>2. ~(snap.gen = wal.gen /\ snap.offset > wal.end)
  BY DEF SnapInv, TypeOK, WalFile, SnapshotFile
<1>3. ~(\E f \in wal.frames : ~f.whole /\ ~IsLast(f, wal))
  BY DEF FrameInv, Bad, IsLast
<1>4. ~(\E f \in ReplayFrames(snap, wal) \ RejectedTail(snap, wal) : f.doomed)
  BY DEF FrameInv, Bad, IsLast, ReplayFrames, RejectedTail
<1> QED
  BY <1>1, <1>2, <1>3, <1>4 DEF Refused

\* The inductive invariant implies crash safety.
LEMMA InvRestartSafe == JournalInv => RestartSafe
<1> SUFFICES ASSUME JournalInv PROVE RestartSafe
  OBVIOUS
<1>1. ~Refused(snap, wal)
  BY NotRefused DEF JournalInv
<1>2. ASSUME NEW k \in Key
      PROVE  snap.image[k] \cap Ids({f \in ReplayFrames(snap, wal) : k \in f.keys}) = {}
  <2>1. ASSUME NEW f \in ReplayFrames(snap, wal), f.id \in snap.image[k] PROVE FALSE
    <3>1. f \in wal.frames /\ f.id >= ReplayOffset(snap, wal)
      BY DEF ReplayFrames
    <3>2. f.id \in Nat /\ f.id < snap.offset /\ snap.offset \in Nat
      BY <2>1, <3>1 DEF JournalInv, SnapInv, TypeOK, WalFile, Frame, SnapshotFile
    <3> QED
      BY <3>1, <3>2 DEF ReplayOffset, JournalInv, SnapInv
  <2> QED
    BY <2>1 DEF Ids
<1> QED
  BY <1>1, <1>2 DEF RestartSafe, JournalInv, LiveInv

-----------------------------------------------------------------------------
(* LockInv                                                                 *)

\* The part of LockInv about writer v.
WriterLocks(v) ==
  /\ pc[v] # "idle" => job[v].keys # {}
  /\ pc[v] = "prepared" \/ Active(v) => \A k \in job[v].keys : gate[k] = v
  /\ Holding(v) => jlock = v
  /\ job[v].doomed => job[v].checked

\* A writer that lets go of its gates and of the journal disturbs nobody.
LEMMA ReplyLocks ==
  ASSUME TypeOK, LockInv, NEW w \in Writer, Reply(w)
  PROVE  /\ \A v \in Writer : WriterLocks(v)'
         /\ jlock = Saver => jlock' = Saver
<1>1. ASSUME NEW v \in Writer, v # w PROVE WriterLocks(v)'
  <2>1. pc'[v] = pc[v] /\ job'[v] = job[v]
    BY <1>1 DEF Reply, TypeOK
  <2>2. \A k \in Key : gate[k] = v => gate'[k] = v
    BY <1>1 DEF Reply, ReleaseGates, TypeOK
  <2>3. jlock = v => jlock' = v
    BY <1>1 DEF Reply
  <2>4. job[v].keys \subseteq Key
    BY DEF TypeOK, Job
  <2> QED
    BY <2>1, <2>2, <2>3, <2>4 DEF WriterLocks, LockInv, Active, Holding
<1>2. WriterLocks(w)'
  <2>1. pc'[w] = "idle" /\ job'[w] = NoJob
    BY DEF Reply, TypeOK
  <2> QED
    BY <2>1 DEF WriterLocks, Active, Holding, NoJob
<1>3. jlock = Saver => jlock' = Saver
  BY WriterAssumption DEF Reply
<1> QED
  BY <1>1, <1>2, <1>3

\* The locks of writer v do not notice a step that keeps v's own state.
LEMMA OtherLocks ==
  ASSUME TypeOK, LockInv, NEW v \in Writer, pc'[v] = pc[v], job'[v] = job[v],
         \A k \in Key : gate[k] = v => gate'[k] = v,
         Holding(v) => jlock' = jlock
  PROVE  WriterLocks(v)'
<1>1. job[v].keys \subseteq Key
  BY DEF TypeOK, Job
<1> QED
  BY <1>1 DEF WriterLocks, LockInv, Active, Holding

\* A step of a mutation keeps the lock discipline of gates and journal.
LEMMA WriterStepLocks ==
  ASSUME TypeOK, LockInv, NEW w \in Writer, WriterStep(w)
  PROVE  LockInv'
<1> USE WriterAssumption DEF Saver, Nobody, Closer
<1>1. phase = "up" /\ UNCHANGED <<phase, spc>>
  <2>1. ASSUME NEW k \in Key, LockGate(w, k) \/ Apply(w, k) PROVE phase = "up" /\ UNCHANGED <<phase, spc>>
    BY <2>1 DEF LockGate, Apply, lifeVars, saverVars
  <2>2. CASE PrepareJournaled(w) \/ AppendStart(w) \/ AppendDone(w) \/ SyncDone(w)
    BY <2>2 DEF PrepareJournaled, AppendStart, AppendDone, SyncDone, lifeVars, saverVars
  <2>3. CASE AppendFails(w) \/ Reject(w) \/ ApplyFails(w) \/ Complete(w)
    BY <2>3 DEF AppendFails, Reject, ApplyFails, Complete, lifeVars, saverVars
  <2> QED
    BY <2>1, <2>2, <2>3 DEF WriterStep
<1>2. SUFFICES /\ \A v \in Writer : WriterLocks(v)'
               /\ jlock = Saver => jlock' = Saver
  BY <1>1, <1>2 DEF LockInv, WriterLocks
<1>3. ASSUME NEW k \in Key, LockGate(w, k)
      PROVE  (\A v \in Writer : WriterLocks(v)') /\ jlock' = jlock
  <2>1. /\ pc[w] = "gates" /\ gate[k] = Nobody /\ gate' = [gate EXCEPT ![k] = w]
        /\ UNCHANGED <<pc, job, jlock>>
    BY <1>3 DEF LockGate, GateFree, writerVars
  <2>2. ASSUME NEW v \in Writer PROVE \A i \in Key : gate[i] = v => gate'[i] = v
    BY <2>1 DEF TypeOK
  <2> QED
    BY <2>1, <2>2, OtherLocks
<1>4. CASE PrepareJournaled(w)
  <2>1. CASE Reply(w)
    BY <2>1, ReplyLocks
  <2>2. CASE ~Reply(w)
    <3>1. /\ pc[w] = "gates" /\ pc' = [pc EXCEPT ![w] = "prepared"]
          /\ \A k \in job[w].keys : gate[k] = w
          /\ UNCHANGED <<gate, jlock, job>>
      BY <1>4, <2>2 DEF PrepareJournaled
    <3>2. WriterLocks(w)'
      BY <3>1 DEF TypeOK, LockInv, WriterLocks, Active, Holding
    <3>3. ASSUME NEW v \in Writer, v # w PROVE WriterLocks(v)'
      BY <3>1, <3>3, OtherLocks DEF TypeOK
    <3> QED
      BY <3>1, <3>2, <3>3
  <2> QED
    BY <2>1, <2>2
<1>5. CASE AppendStart(w)
  <2>1. CASE Reply(w)
    BY <2>1, ReplyLocks
  <2>2. CASE ~Reply(w)
    <3>1. /\ pc[w] = "prepared" /\ pc' = [pc EXCEPT ![w] = "appending"]
          /\ jlock = Nobody /\ jlock' = w
          /\ job' = [job EXCEPT ![w].id = nextId]
          /\ UNCHANGED gate
      BY <1>5, <2>2 DEF AppendStart
    <3>2. WriterLocks(w)'
      <4>1. /\ pc'[w] = "appending" /\ job'[w].keys = job[w].keys
            /\ job'[w].doomed = job[w].doomed /\ job'[w].checked = job[w].checked
        BY <3>1 DEF TypeOK, Job
      <4> QED
        BY <3>1, <4>1 DEF LockInv, WriterLocks, Active, Holding
    <3>3. ASSUME NEW v \in Writer, v # w PROVE WriterLocks(v)'
      <4>1. pc'[v] = pc[v] /\ job'[v] = job[v]
        BY <3>1, <3>3 DEF TypeOK
      <4>2. ~Holding(v)
        BY <3>1 DEF LockInv
      <4> QED
        BY <3>1, <4>1, <4>2, OtherLocks
    <3> QED
      BY <3>1, <3>2, <3>3
  <2> QED
    BY <2>1, <2>2
<1>6. CASE AppendDone(w)
  <2>1. /\ pc[w] = "appending" /\ pc' = [pc EXCEPT ![w] = NextAfterAppend]
        /\ jlock' = IF NextAfterAppend = "syncing" \/ job[w].checked THEN w ELSE Nobody
        /\ UNCHANGED <<gate, job>>
    BY <1>6 DEF AppendDone, KeepsJournal
  <2>2. jlock = w
    BY <2>1 DEF LockInv, Holding
  <2>3. WriterLocks(w)'
    BY <2>1 DEF TypeOK, LockInv, WriterLocks, Active, Holding, NextAfterAppend
  <2>4. ASSUME NEW v \in Writer, v # w PROVE WriterLocks(v)'
    <3>1. ~Holding(v)
      BY <2>2, <2>4 DEF LockInv
    <3> QED
      BY <2>1, <2>4, <3>1, OtherLocks DEF TypeOK
  <2> QED
    BY <2>2, <2>3, <2>4
<1>7. CASE SyncDone(w)
  <2>1. /\ pc[w] = "syncing" /\ pc' = [pc EXCEPT ![w] = "applying"]
        /\ jlock' = IF job[w].checked THEN w ELSE Nobody
        /\ UNCHANGED <<gate, job>>
    BY <1>7 DEF SyncDone, KeepsJournal
  <2>2. jlock = w
    BY <2>1 DEF LockInv, Holding
  <2>3. WriterLocks(w)'
    BY <2>1 DEF TypeOK, LockInv, WriterLocks, Active, Holding
  <2>4. ASSUME NEW v \in Writer, v # w PROVE WriterLocks(v)'
    <3>1. ~Holding(v)
      BY <2>2, <2>4 DEF LockInv
    <3> QED
      BY <2>1, <2>4, <3>1, OtherLocks DEF TypeOK
  <2> QED
    BY <2>2, <2>3, <2>4
<1>8. CASE AppendFails(w) \/ Reject(w) \/ ApplyFails(w) \/ Complete(w)
  BY <1>8, ReplyLocks DEF AppendFails, Reject, ApplyFails, Complete
<1>9. ASSUME NEW k \in Key, Apply(w, k)
      PROVE  (\A v \in Writer : WriterLocks(v)') /\ jlock' = jlock
  BY <1>9, OtherLocks DEF Apply, writerVars
<1> QED
  BY <1>3, <1>4, <1>5, <1>6, <1>7, <1>8, <1>9 DEF WriterStep

\* Gates and locks of every writer survive a step of another thread that
\* neither takes a gate from a writer nor the journal from its holder.
LEMMA QuietLocks ==
  ASSUME TypeOK, LockInv, UNCHANGED <<pc, job>>,
         \A v \in Writer : \A k \in Key : gate[k] = v => gate'[k] = v,
         \A v \in Writer : Holding(v) => jlock' = jlock,
         spc' = "renamed" => jlock' = Saver, phase' = "down" => spc' = "idle", 
         phase' = "down" => phase = "down"
  PROVE  LockInv'
<1>1. ASSUME NEW v \in Writer PROVE WriterLocks(v)'
  BY OtherLocks
<1> QED
  BY <1>1 DEF LockInv, WriterLocks

\* A process that stops holds nothing.
LEMMA VanishLocks ==
  ASSUME Vanish
  PROVE  LockInv'
<1>1. \A v \in Writer : pc'[v] = "idle" /\ job'[v] = NoJob
  BY DEF Vanish
<1> QED
  BY <1>1 DEF Vanish, LockInv, Active, Holding, NoJob

\* Releasing the gates of the saver or of the closer leaves the writers' gates.
LEMMA ReleaseKeeps ==
  ASSUME TypeOK, NEW a \in {Saver, Closer}, ReleaseGates(a)
  PROVE  \A v \in Writer : \A k \in Key : gate[k] = v => gate'[k] = v
  BY WriterAssumption DEF ReleaseGates, TypeOK

\* Taking a free gate leaves the writers' gates.
LEMMA BarrierKeeps ==
  ASSUME TypeOK, NEW a, NEW k \in Key, LockBarrier(a, k)
  PROVE  \A v \in Writer : \A i \in Key : gate[i] = v => gate'[i] = v
  BY WriterAssumption DEF LockBarrier, TypeOK

\* A step of a save keeps the lock discipline: the barrier only takes free gates.
LEMMA SaverStepLocks ==
  ASSUME TypeOK, LockInv, SaverStep
  PROVE  LockInv'
<1> USE WriterAssumption
<1>1. ASSUME NEW k \in Key, SaveLockGate(k) PROVE LockInv'
  <2>1. LockBarrier(Saver, k) /\ spc = "barrier"
    BY <1>1 DEF SaveLockGate
  <2>2. UNCHANGED <<pc, job, jlock, spc, phase>>
    BY <2>1 DEF LockBarrier, lifeVars, writerVars, saverVars
  <2> QED
    BY <2>1, <2>2, BarrierKeeps, QuietLocks DEF LockInv
<1>2. CASE Capture
  <2>1. UNCHANGED <<pc, job, jlock, phase>> /\ ReleaseGates(Saver) /\ spc' \in {"idle", "write"}
    BY <1>2 DEF Capture, SaveEnds, writerVars, lifeVars
  <2>2. phase' # "down"
    BY <1>2, <2>1 DEF Capture
  <2> QED
    BY <2>1, <2>2, ReleaseKeeps, QuietLocks
<1>3. CASE Install \/ SyncSnapshotDir \/ CheckBeforeRotate \/ PoisonAfterRotate
  <2>1. UNCHANGED <<pc, job, jlock, phase, gate>> /\ spc' # "renamed" /\ phase = "up"
    BY <1>3 DEF Install, SyncSnapshotDir, CheckBeforeRotate, PoisonAfterRotate, SaveEnds,
                writerVars, lifeVars
  <2> QED
    BY <2>1, QuietLocks
<1>4. CASE RotateAfter
  <2>1. UNCHANGED <<pc, job, phase, gate>> /\ phase = "up" /\ jlock = Nobody
    BY <1>4 DEF RotateAfter, writerVars, lifeVars
  <2>2. spc' = "renamed" => jlock' = Saver
    BY <1>4 DEF RotateAfter
  <2>3. \A v \in Writer : ~Holding(v)
    BY <2>1 DEF LockInv
  <2> QED
    BY <2>1, <2>2, <2>3, QuietLocks
<1>5. CASE SyncJournalDir
  <2>1. UNCHANGED <<pc, job, phase, gate>> /\ phase = "up" /\ spc = "renamed" /\ spc' # "renamed"
    BY <1>5 DEF SyncJournalDir, SaveEnds, writerVars, lifeVars
  <2>2. \A v \in Writer : ~Holding(v)
    BY <2>1 DEF LockInv
  <2> QED
    BY <2>1, <2>2, QuietLocks
<1> QED
  BY <1>1, <1>2, <1>3, <1>4, <1>5 DEF SaverStep

\* A step of the shutdown keeps the lock discipline.
LEMMA CloserStepLocks ==
  ASSUME TypeOK, LockInv, CloserStep
  PROVE  LockInv'
<1>1. CASE JoinSaver
  <2>1. UNCHANGED <<pc, job, jlock, spc, phase, gate>>
    BY <1>1 DEF JoinSaver, writerVars, saverVars
  <2> QED
    BY <2>1, QuietLocks DEF LockInv
<1>2. ASSUME NEW k \in Key, CloseLockGate(k) PROVE LockInv'
  <2>1. LockBarrier(Closer, k)
    BY <1>2 DEF CloseLockGate
  <2>2. UNCHANGED <<pc, job, jlock, spc, phase>>
    BY <2>1 DEF LockBarrier, lifeVars, writerVars, saverVars
  <2> QED
    BY <2>1, <2>2, BarrierKeeps, QuietLocks DEF LockInv
<1>3. CASE FinalizeShutdown
  <2>1. UNCHANGED <<pc, job, jlock, spc, phase>> /\ ReleaseGates(Closer)
    BY <1>3 DEF FinalizeShutdown, writerVars, saverVars
  <2> QED
    BY <2>1, ReleaseKeeps, QuietLocks DEF LockInv
<1>4. CASE Exit
  BY <1>4, VanishLocks DEF Exit
<1> QED
  BY <1>1, <1>2, <1>3, <1>4 DEF CloserStep

\* Every step keeps the locks with their owners.
LEMMA NextLocks ==
  ASSUME TypeOK, LockInv, [Next]_vars
  PROVE  LockInv'
<1>1. ASSUME NEW w \in Writer, NEW keys \in KeySets, NEW checked \in BOOLEAN,
             NEW doomed \in BOOLEAN, Begin(w, keys, checked, doomed)
      PROVE  LockInv'
  <2>1. /\ phase = "up" /\ pc[w] = "idle" /\ pc' = [pc EXCEPT ![w] = "gates"]
        /\ job' = [job EXCEPT ![w] = [id |-> 0, keys |-> keys, checked |-> checked,
                                      doomed |-> doomed]]
        /\ doomed => checked
        /\ UNCHANGED <<gate, jlock, spc, phase>>
    BY <1>1 DEF Begin, lifeVars, saverVars
  <2>2. keys # {}
    BY NumKeysAssumption DEF KeySets, Key
  <2>3. WriterLocks(w)'
    BY <2>1, <2>2 DEF TypeOK, WriterLocks, Active, Holding
  <2>4. ASSUME NEW v \in Writer, v # w PROVE WriterLocks(v)'
    BY <2>1, <2>4, OtherLocks DEF TypeOK
  <2> QED
    BY <2>1, <2>3, <2>4 DEF LockInv, WriterLocks
<1>2. ASSUME NEW w \in Writer, WriterStep(w) PROVE LockInv'
  BY <1>2, WriterStepLocks
<1>3. CASE FsyncWal \/ BeginShutdown \/ SaveBegin
  <2>1. UNCHANGED <<pc, job, jlock, phase, gate>> /\ phase = "up" /\ spc' \in {spc, "barrier"}
    BY <1>3 DEF FsyncWal, BeginShutdown, SaveBegin, writerVars, saverVars, lifeVars
  <2> QED
    BY <2>1, QuietLocks DEF LockInv
<1>4. CASE SaverStep
  BY <1>4, SaverStepLocks
<1>5. CASE CloserStep
  BY <1>5, CloserStepLocks
<1>6. CASE ProcessCrash \/ PowerLoss
  BY <1>6, VanishLocks DEF ProcessCrash, PowerLoss
<1>7. CASE Recover
  <2>1. UNCHANGED <<pc, job, jlock, spc, gate>> /\ phase' = "up"
    BY <1>7 DEF Recover, writerVars, saverVars
  <2> QED
    BY <2>1, QuietLocks DEF LockInv
<1>8. CASE UNCHANGED vars
  <2>1. UNCHANGED <<pc, job, jlock, spc, gate, phase>>
    BY <1>8 DEF vars
  <2> QED
    BY <2>1, QuietLocks DEF LockInv
<1> QED
  BY <1>1, <1>2, <1>3, <1>4, <1>5, <1>6, <1>7, <1>8 DEF Next

-----------------------------------------------------------------------------
(* The files: steps that leave frames, snapshot and history alone          *)

FileInv == FrameInv /\ SnapInv /\ CaptureInv /\ LiveInv

\* Recovery looks only at the frames and the generation of a journal.
LEMMA SameRecovered ==
  ASSUME NEW s, NEW w, NEW x, w.frames = x.frames, w.gen = x.gen
  PROVE  Recovered(s, w) = Recovered(s, x)
<1>1. ReplayOffset(s, w) = ReplayOffset(s, x)
  BY DEF ReplayOffset
<1>2. ReplayFrames(s, w) = ReplayFrames(s, x)
  BY <1>1 DEF ReplayFrames
<1>3. RejectedTail(s, w) = RejectedTail(s, x)
  BY <1>2 DEF RejectedTail, IsLast
<1> QED
  BY <1>2, <1>3 DEF Recovered

\* Frames and snapshot stay, and no writer gains a frame.
LEMMA QuietFrames ==
  ASSUME TypeOK, TypeOK', FrameInv, SnapInv,
         wal'.frames = wal.frames, wal'.gen = wal.gen, wal'.end = wal.end,
         UNCHANGED <<snap, nextId>>, nextGen' >= nextGen,
         \A v \in Writer : Active(v)' =>
           job'[v] = job[v] /\ (pc'[v] = pc[v] \/ (pc[v] = "syncing" /\ pc'[v] = "applying")),
         phase' = "up" /\ ~poisoned' =>
           /\ phase = "up" /\ ~poisoned
           /\ \A v \in Writer : \A f \in wal.frames :
                Bad(f) /\ Holding(v) /\ job[v].id = f.id => Holding(v)' /\ job'[v].id = f.id
  PROVE  FrameInv' /\ SnapInv' /\ Recoverable' = Recoverable
<1>1. Recoverable' = Recoverable
  BY SameRecovered DEF Recoverable
<1>2. ASSUME NEW v \in Writer, Active(v)'
      PROVE  /\ Active(v) /\ job'[v] = job[v]
             /\ Holding(v)' => Holding(v)
             /\ pc'[v] = "appending" => pc[v] = "appending"
             /\ pc'[v] \in {"syncing", "applying"} => pc[v] \in {"syncing", "applying"}
  BY <1>2 DEF Active, Holding
<1>3. FrameInv'
  <2>1. (wal.end <= nextId /\ (\A f \in wal.frames : f.id < wal.end)
         /\ (\A f, g \in wal.frames : f.id = g.id => f = g))'
    BY DEF FrameInv
  <2>2. ASSUME NEW v \in Writer
        PROVE  (/\ pc[v] = "appending" => FrameOf(job[v], FALSE) \in wal.frames
                /\ pc[v] \in {"syncing", "applying"} => FrameOf(job[v], TRUE) \in wal.frames
                /\ Active(v) => job[v].id >= snap.offset
                /\ Holding(v) => \A f \in wal.frames : f.id <= job[v].id)'
    <3>1. CASE Active(v)'
      BY <1>2, <3>1 DEF FrameInv, FrameOf
    <3>2. CASE ~Active(v)'
      BY <3>2 DEF Active, Holding
    <3> QED
      BY <3>1, <3>2
  <2>3. ASSUME NEW f \in wal.frames, Bad(f)
        PROVE  /\ f.id >= snap.offset
               /\ \A g \in wal.frames : g.id <= f.id
               /\ f.doomed => f.checked
               /\ phase' = "up" /\ ~poisoned' => \E w \in Writer : Holding(w)' /\ job'[w].id = f.id
    BY <2>3 DEF FrameInv
  <2> QED
    BY <2>1, <2>2, <2>3 DEF FrameInv, Bad
<1>4. SnapInv'
  BY DEF SnapInv, TypeOK, WalFile
<1> QED
  BY <1>1, <1>3, <1>4

\* The same with the saver's capture untouched or given up.
LEMMA QuietFiles ==
  ASSUME TypeOK, TypeOK', FrameInv, SnapInv, CaptureInv,
         wal'.frames = wal.frames, wal'.gen = wal.gen, wal'.end = wal.end,
         UNCHANGED <<snap, nextId>>, nextGen' >= nextGen,
         \A v \in Writer : Active(v)' =>
           job'[v] = job[v] /\ (pc'[v] = pc[v] \/ (pc[v] = "syncing" /\ pc'[v] = "applying")),
         phase' = "up" /\ ~poisoned' =>
           /\ phase = "up" /\ ~poisoned
           /\ \A v \in Writer : \A f \in wal.frames :
                Bad(f) /\ Holding(v) /\ job[v].id = f.id => Holding(v)' /\ job'[v].id = f.id,
         Capturing' => Capturing /\ cap' = cap,
         spc' \in {"installed", "durable", "rotate"} => spc \in {"installed", "durable", "rotate"}
  PROVE  FrameInv' /\ SnapInv' /\ CaptureInv' /\ Recoverable' = Recoverable
<1>1. FrameInv' /\ SnapInv' /\ Recoverable' = Recoverable
  BY QuietFrames
<1>2. CaptureInv'
  <2>1. CASE Capturing'
    <3>1. Recovered(cap, wal)' = Recovered(cap, wal)
      BY <2>1, SameRecovered
    <3>2. Capturing /\ cap' = cap
      BY <2>1
    <3>3. cap'.succ \in Nat /\ wal'.gen < cap'.succ /\ cap'.succ < nextGen'
      BY <3>2 DEF CaptureInv, Capturing, TypeOK, WalFile
    <3>4. \A w \in Writer : Active(w)' => job'[w].id >= cap'.offset
      BY <3>2 DEF CaptureInv, Capturing, Active
    <3> QED
      BY <1>1, <3>1, <3>2, <3>3, <3>4 DEF CaptureInv, Capturing, Bad
  <2>2. CASE ~Capturing'
    BY <2>2 DEF CaptureInv, Capturing
  <2> QED
    BY <2>1, <2>2
<1> QED
  BY <1>1, <1>2

\* Memory and acknowledgements follow what a restart would rebuild.
LEMMA QuietLive ==
  ASSUME LiveInv, Recoverable' = Recoverable, UNCHANGED nextId,
         \A k \in Key : acked'[k] \subseteq Recoverable[k] /\ mem'[k] \subseteq Recoverable[k],
         phase' = "up" /\ ~poisoned' =>
           /\ phase = "up" /\ ~poisoned
           /\ \A k \in Key : mem[k] \cup InFlight(k) \subseteq mem'[k] \cup InFlight(k)',
         \A v \in Writer : Pending(v)' =>
           \A k \in Key : job'[v].id \notin mem'[k] /\ job'[v].id \notin acked'[k]
  PROVE  LiveInv'
<1>1. ASSUME NEW k \in Key
      PROVE  phase' = "up" /\ ~poisoned' => Recoverable[k] \subseteq mem'[k] \cup InFlight(k)'
  BY DEF LiveInv
<1>2. \A k \in Key : \A i \in Recoverable[k] : i < nextId
  BY DEF LiveInv
<1> QED
  BY <1>1, <1>2 DEF LiveInv

\* A step of locks and program counters only: no writer gains or loses a frame.
LEMMA QuietStep ==
  ASSUME TypeOK, TypeOK', FileInv,
         wal'.frames = wal.frames, wal'.gen = wal.gen, wal'.end = wal.end,
         UNCHANGED <<snap, nextId, mem, acked>>, nextGen' >= nextGen,
         \A v \in Writer : (pc'[v] = pc[v] /\ job'[v] = job[v]) \/ (~Active(v) /\ ~Active(v)'),
         phase' = "up" /\ ~poisoned' => phase = "up" /\ ~poisoned,
         Capturing' => Capturing /\ cap' = cap,
         spc' \in {"installed", "durable", "rotate"} => spc \in {"installed", "durable", "rotate"}
  PROVE  FileInv' /\ Recoverable' = Recoverable
<1>1. ASSUME NEW v \in Writer
      PROVE  /\ Active(v)' => job'[v] = job[v] /\ pc'[v] = pc[v]
             /\ Holding(v) => Holding(v)' /\ job'[v] = job[v]
             /\ Pending(v)' => Pending(v) /\ job'[v] = job[v]
             /\ pc[v] \in {"syncing", "applying"} => pc'[v] = pc[v] /\ job'[v] = job[v]
  BY DEF Active, Holding, Pending
<1>2. FrameInv' /\ SnapInv' /\ CaptureInv' /\ Recoverable' = Recoverable
  BY <1>1, QuietFiles DEF FileInv
<1>3. ASSUME NEW k \in Key PROVE InFlight(k) \subseteq InFlight(k)'
  BY <1>1 DEF InFlight
<1>4. LiveInv'
  <2>1. \A k \in Key : acked'[k] \subseteq Recoverable[k] /\ mem'[k] \subseteq Recoverable[k]
    BY DEF FileInv, LiveInv
  <2>2. \A v \in Writer : Pending(v)' =>
           \A k \in Key : job'[v].id \notin mem'[k] /\ job'[v].id \notin acked'[k]
    BY <1>1 DEF FileInv, LiveInv
  <2>3. \A k \in Key : mem[k] \cup InFlight(k) \subseteq mem'[k] \cup InFlight(k)'
    BY <1>3
  <2> QED
    BY <1>2, <2>1, <2>2, <2>3, QuietLive DEF FileInv
<1> QED
  BY <1>2, <1>4 DEF FileInv

-----------------------------------------------------------------------------
(* The files: steps of a writer that write nothing                         *)

\* Two active writers commit different mutations: they would share a gate.
LEMMA DistinctJobs ==
  ASSUME LockInv, FrameInv, NEW v \in Writer, NEW w \in Writer, v # w, Active(v), Active(w)
  PROVE  job[v].id # job[w].id
<1>1. ASSUME NEW x \in Writer, Active(x)
      PROVE  \E b \in BOOLEAN : FrameOf(job[x], b) \in wal.frames
  BY <1>1 DEF FrameInv, Active
<1>2. PICK b \in BOOLEAN : FrameOf(job[v], b) \in wal.frames
  BY <1>1
<1>3. PICK c \in BOOLEAN : FrameOf(job[w], c) \in wal.frames
  BY <1>1
<1>4. SUFFICES ASSUME job[v].id = job[w].id PROVE FALSE
  OBVIOUS
<1>5. FrameOf(job[v], b).id = FrameOf(job[w], c).id
  BY <1>4 DEF FrameOf
<1>6. FrameOf(job[v], b) = FrameOf(job[w], c)
  BY <1>2, <1>3, <1>5 DEF FrameInv
<1>7. job[v].keys = job[w].keys
  BY <1>6 DEF FrameOf
<1>8. PICK k \in job[v].keys : TRUE
  BY DEF LockInv, Active
<1> QED
  BY <1>7, <1>8 DEF LockInv

\* The frame at an active writer's offset is the writer's own.
LEMMA OwnFrame ==
  ASSUME FrameInv, NEW w \in Writer, pc[w] \in {"syncing", "applying"}, NEW f \in wal.frames,
         f.id = job[w].id
  PROVE  f = FrameOf(job[w], TRUE) /\ f.doomed = job[w].doomed /\ f.checked = job[w].checked
         /\ f.whole /\ f.keys = job[w].keys
<1>1. FrameOf(job[w], TRUE) \in wal.frames /\ FrameOf(job[w], TRUE).id = job[w].id
  BY DEF FrameInv, FrameOf
<1>2. \A g, h \in wal.frames : g.id = h.id => g = h
  BY DEF FrameInv
<1>3. f = FrameOf(job[w], TRUE)
  BY <1>1, <1>2
<1> QED
  BY <1>3 DEF FrameOf

\* The mutation of a writer that may apply is part of what a restart rebuilds.
LEMMA AppliedIsRecoverable ==
  ASSUME TypeOK, FrameInv, SnapInv, NEW w \in Writer, pc[w] = "applying", ~job[w].doomed,
         NEW k \in job[w].keys
  PROVE  job[w].id \in Recoverable[k]
<1>1. k \in Key
  BY DEF TypeOK, Job
<1>2. FrameOf(job[w], TRUE) \in wal.frames /\ job[w].id >= snap.offset
  BY DEF FrameInv, Active
<1>3. Rebuilt(snap, wal, snap.offset, k, job[w].id)
  BY <1>2 DEF Rebuilt, FrameOf, Bad
<1> QED
  BY <1>1, <1>3, RecoverableIs

\* How Reply changes the program counters.
LEMMA ReplyMoves ==
  ASSUME TypeOK, NEW w \in Writer, Reply(w)
  PROVE  /\ pc'[w] = "idle" /\ ~Active(w)'
         /\ \A v \in Writer : v # w => pc'[v] = pc[v] /\ job'[v] = job[v]
  BY DEF Reply, TypeOK, Active

\* A writer waits for its gates or gives up before it appended.
LEMMA BeforeAppendFiles ==
  ASSUME TypeOK, TypeOK', FileInv, NEW w \in Writer,
         \/ \E k \in Key : LockGate(w, k)
         \/ PrepareJournaled(w)
         \/ AppendStart(w) /\ poisoned
  PROVE  FileInv' /\ Recoverable' = Recoverable
<1>1. ASSUME NEW k \in Key, LockGate(w, k) PROVE FileInv' /\ Recoverable' = Recoverable
  <2>1. UNCHANGED <<pc, job, wal, snap, nextId, nextGen, mem, acked, phase, poisoned, spc, cap>>
    BY <1>1 DEF LockGate, writerVars, walVars, snapVars, counters, lifeVars, saverVars
  <2> QED
    BY <2>1, QuietStep DEF TypeOK, Capturing
<1>2. CASE PrepareJournaled(w)
  <2>1. /\ UNCHANGED <<wal, snap, nextId, nextGen, mem, acked, phase, poisoned, spc, cap>>
        /\ ~Active(w)
    BY <1>2 DEF PrepareJournaled, walVars, snapVars, counters, lifeVars, saverVars, Active
  <2>2. ~Active(w)' /\ \A v \in Writer : v # w => pc'[v] = pc[v] /\ job'[v] = job[v]
    BY <1>2, ReplyMoves DEF PrepareJournaled, TypeOK, Active
  <2> QED
    BY <2>1, <2>2, QuietStep DEF TypeOK, Capturing
<1>3. CASE AppendStart(w) /\ poisoned
  <2>1. /\ UNCHANGED <<wal, snap, nextId, nextGen, mem, acked, phase, poisoned, spc, cap>>
        /\ ~Active(w) /\ Reply(w)
    BY <1>3 DEF AppendStart, snapVars, lifeVars, saverVars, Active
  <2>2. ~Active(w)' /\ \A v \in Writer : v # w => pc'[v] = pc[v] /\ job'[v] = job[v]
    BY <2>1, ReplyMoves
  <2> QED
    BY <2>1, <2>2, QuietStep DEF TypeOK, Capturing
<1> QED
  BY <1>1, <1>2, <1>3

\* The sync of an append (always_sync) preserves the file invariants.
LEMMA SyncDoneFiles ==
  ASSUME TypeOK, TypeOK', LockInv, FileInv, NEW w \in Writer, SyncDone(w)
  PROVE  FileInv' /\ Recoverable' = Recoverable
<1>1. /\ UNCHANGED <<job, snap, nextId, nextGen, mem, acked, phase, poisoned, spc, cap>>
      /\ pc[w] = "syncing" /\ pc' = [pc EXCEPT ![w] = "applying"]
      /\ wal' = Synced(wal)
  BY DEF SyncDone, SyncWal, snapVars, counters, lifeVars, saverVars
<1>2. wal'.frames = wal.frames /\ wal'.gen = wal.gen /\ wal'.end = wal.end
  BY <1>1 DEF Synced, TypeOK, WalFile
<1>3. pc'[w] = "applying" /\ \A v \in Writer : v # w => pc'[v] = pc[v]
  BY <1>1 DEF TypeOK
<1>4. ASSUME NEW v \in Writer, NEW f \in wal.frames, Bad(f), Holding(v), job[v].id = f.id
      PROVE  Holding(v)'
  <2>1. CASE v # w
    BY <1>1, <1>3, <1>4, <2>1 DEF Holding
  <2>2. CASE v = w
    <3>1. f.doomed /\ f.doomed = job[w].doomed
      BY <1>1, <1>4, <2>2, OwnFrame DEF FileInv, Bad
    <3> QED
      BY <1>1, <1>3, <2>2, <3>1 DEF Holding, LockInv
  <2> QED
    BY <2>1, <2>2
<1>5. FrameInv' /\ SnapInv' /\ CaptureInv' /\ Recoverable' = Recoverable
  BY <1>1, <1>2, <1>3, <1>4, QuietFiles DEF FileInv, TypeOK, Capturing
<1>6. ASSUME NEW k \in Key PROVE InFlight(k) \subseteq InFlight(k)'
  BY <1>1, <1>3 DEF InFlight
<1>7. ASSUME NEW v \in Writer, Pending(v)' PROVE Pending(v)
  BY <1>1, <1>3, <1>7 DEF Pending
<1>8. LiveInv'
  BY <1>1, <1>5, <1>6, <1>7, QuietLive DEF FileInv, LiveInv
<1> QED
  BY <1>5, <1>8 DEF FileInv

\* Applying a mutation to one of its keys preserves the file invariants: its
\* frame is already complete in the journal.
LEMMA ApplyFiles ==
  ASSUME TypeOK, TypeOK', LockInv, FileInv, NEW w \in Writer, NEW k \in Key, Apply(w, k)
  PROVE  FileInv' /\ Recoverable' = Recoverable
<1>1. /\ UNCHANGED <<pc, job, wal, snap, nextId, nextGen, acked, phase, poisoned, spc, cap>>
      /\ pc[w] = "applying" /\ ~job[w].doomed /\ k \in job[w].keys
      /\ mem' = [mem EXCEPT ![k] = @ \cup {job[w].id}]
  BY DEF Apply, writerVars, walVars, snapVars, counters, lifeVars, saverVars
<1>2. FrameInv' /\ SnapInv' /\ CaptureInv' /\ Recoverable' = Recoverable
  BY <1>1, QuietFiles DEF FileInv, TypeOK, Capturing, Holding
<1>3. ASSUME NEW i \in Key
      PROVE  /\ mem[i] \subseteq mem'[i] /\ mem'[i] \subseteq mem[i] \cup {job[w].id}
             /\ mem'[i] \subseteq Recoverable[i]
  <2>1. job[w].id \in Recoverable[k]
    BY <1>1, AppliedIsRecoverable DEF FileInv
  <2>2. mem[i] \subseteq Recoverable[i]
    BY DEF FileInv, LiveInv
  <2>3. mem'[i] = IF i = k THEN mem[i] \cup {job[w].id} ELSE mem[i]
    BY <1>1 DEF TypeOK
  <2> QED
    BY <2>1, <2>2, <2>3
<1>4. ASSUME NEW v \in Writer, Pending(v)'
      PROVE  \A i \in Key : job'[v].id \notin mem'[i] /\ job'[v].id \notin acked'[i]
  <2>1. Pending(v) /\ v # w
    BY <1>1, <1>4 DEF Pending
  <2>2. Active(v) /\ Active(w)
    BY <1>1, <2>1 DEF Pending, Active
  <2>3. job[v].id # job[w].id
    BY <2>1, <2>2, DistinctJobs DEF FileInv
  <2> QED
    BY <1>1, <1>3, <2>1, <2>3 DEF FileInv, LiveInv
<1>5. \A i \in Key : InFlight(i)' = InFlight(i)
  BY <1>1 DEF InFlight
<1>6. LiveInv'
  BY <1>1, <1>2, <1>3, <1>4, <1>5, QuietLive DEF FileInv, LiveInv
<1> QED
  BY <1>2, <1>6 DEF FileInv

\* Acknowledging a mutation preserves the file invariants: all its keys hold it.
LEMMA CompleteFiles ==
  ASSUME TypeOK, TypeOK', LockInv, FileInv, NEW w \in Writer, Complete(w)
  PROVE  FileInv' /\ Recoverable' = Recoverable
<1>1. /\ UNCHANGED <<wal, snap, nextId, nextGen, mem, phase, poisoned, spc, cap>>
      /\ pc[w] = "applying" /\ ~job[w].doomed /\ Reply(w)
      /\ \A k \in job[w].keys : job[w].id \in mem[k]
      /\ acked' = [k \in Key |-> IF k \in job[w].keys /\ ~poisoned
                                 THEN acked[k] \cup {job[w].id} ELSE acked[k]]
  BY DEF Complete, walVars, snapVars, counters, lifeVars, saverVars
<1>2. ~Active(w)' /\ \A v \in Writer : v # w => pc'[v] = pc[v] /\ job'[v] = job[v]
  BY <1>1, ReplyMoves
<1>3. ASSUME NEW v \in Writer, NEW f \in wal.frames, Bad(f), job[v].id = f.id PROVE v # w
  BY <1>1, <1>3, OwnFrame DEF FileInv, Bad
<1>4. FrameInv' /\ SnapInv' /\ CaptureInv' /\ Recoverable' = Recoverable
  BY <1>1, <1>2, <1>3, QuietFiles DEF FileInv, TypeOK, Capturing, Holding
<1>5. ASSUME NEW k \in Key
      PROVE  /\ acked'[k] \subseteq acked[k] \cup {job[w].id}
             /\ acked'[k] \subseteq Recoverable[k]
             /\ InFlight(k) \subseteq mem[k] \cup InFlight(k)'
  <2>1. acked[k] \subseteq Recoverable[k] /\ mem[k] \subseteq Recoverable[k]
    BY DEF FileInv, LiveInv
  <2>2. InFlight(k) \subseteq mem[k] \cup InFlight(k)'
    BY <1>1, <1>2 DEF InFlight
  <2> QED
    BY <1>1, <2>1, <2>2
<1>6. ASSUME NEW v \in Writer, Pending(v)'
      PROVE  \A k \in Key : job'[v].id \notin mem'[k] /\ job'[v].id \notin acked'[k]
  <2>1. v # w /\ Pending(v) /\ job'[v] = job[v]
    BY <1>2, <1>6 DEF Pending, Active
  <2>2. Active(v) /\ Active(w)
    BY <1>1, <2>1 DEF Pending, Active
  <2>3. job[v].id # job[w].id
    BY <2>1, <2>2, DistinctJobs DEF FileInv
  <2> QED
    BY <1>1, <1>5, <2>1, <2>3 DEF FileInv, LiveInv
<1>7. LiveInv'
  BY <1>1, <1>4, <1>5, <1>6, QuietLive DEF FileInv, LiveInv
<1> QED
  BY <1>4, <1>7 DEF FileInv

\* A writer gives up and poisons the journal without changing its frames.
LEMMA PoisonFiles ==
  ASSUME TypeOK, TypeOK', FileInv, NEW w \in Writer, Reply(w), poisoned',
         UNCHANGED <<wal, snap, nextId, nextGen, mem, acked, phase, spc, cap>>
  PROVE  FileInv' /\ Recoverable' = Recoverable
<1>1. ~Active(w)' /\ \A v \in Writer : v # w => pc'[v] = pc[v] /\ job'[v] = job[v]
  BY ReplyMoves
<1>2. FrameInv' /\ SnapInv' /\ CaptureInv' /\ Recoverable' = Recoverable
  BY <1>1, QuietFiles DEF FileInv, TypeOK, Capturing
<1>3. ASSUME NEW v \in Writer, Pending(v)' PROVE Pending(v) /\ job'[v] = job[v]
  BY <1>1, <1>3 DEF Pending, Active
<1>4. LiveInv'
  BY <1>2, <1>3, QuietLive DEF FileInv, LiveInv
<1> QED
  BY <1>2, <1>4 DEF FileInv

-----------------------------------------------------------------------------
(* The files: append and rollback                                          *)

\* Bad frames are checked tails, as RecoveredIs requires.
BadLast(w) ==
  \A f \in w.frames : Bad(f) => (\A g \in w.frames : g.id <= f.id) /\ (f.doomed => f.checked)

\* Two pairs of files rebuild the same when they do so for every key.
LEMMA RecoveredExt ==
  ASSUME NEW s, NEW w, NEW t, NEW x,
         \A k \in Key : \A i : i \in Recovered(s, w)[k] <=> i \in Recovered(t, x)[k]
  PROVE  Recovered(s, w) = Recovered(t, x)
<1>1. \A k \in Key : Recovered(s, w)[k] = Recovered(t, x)[k]
  OBVIOUS
<1> QED
  BY <1>1 DEF Recovered

\* Bad frames do not matter to recovery.
LEMMA SameGood ==
  ASSUME NEW s, NEW w, NEW x, w.gen = x.gen, BadLast(w), BadLast(x),
         \A f : f \in w.frames /\ ~Bad(f) <=> f \in x.frames /\ ~Bad(f)
  PROVE  Recovered(s, w) = Recovered(s, x)
<1>1. ReplayOffset(s, w) = ReplayOffset(s, x)
  BY DEF ReplayOffset
<1>2. ASSUME NEW k \in Key, NEW i
      PROVE  i \in Recovered(s, w)[k] <=> i \in Recovered(s, x)[k]
  <2>1. i \in Recovered(s, w)[k] <=> Rebuilt(s, w, ReplayOffset(s, w), k, i)
    BY RecoveredIs DEF BadLast
  <2>2. i \in Recovered(s, x)[k] <=> Rebuilt(s, x, ReplayOffset(s, x), k, i)
    BY RecoveredIs DEF BadLast
  <2> QED
    BY <1>1, <2>1, <2>2 DEF Rebuilt
<1> QED
  BY <1>2, RecoveredExt

\* While nobody is inside the journal lock a healthy journal has no bad frame.
LEMMA NoBadFrame ==
  ASSUME LockInv, FrameInv, jlock = Nobody, phase = "up", ~poisoned, NEW f \in wal.frames
  PROVE  ~Bad(f)
  BY WriterAssumption DEF LockInv, FrameInv

\* Starting a frame preserves the file invariants: the frame is the last of the
\* file and invisible to recovery until it is complete.
LEMMA AppendStartFiles ==
  ASSUME TypeOK, TypeOK', LockInv, LockInv', FileInv, NEW w \in Writer, AppendStart(w), ~poisoned
  PROVE  FileInv' /\ Recoverable' = Recoverable
<1> DEFINE new == FrameOf(job'[w], FALSE)
<1>1. /\ phase = "up" /\ pc[w] = "prepared" /\ jlock = Nobody
      /\ pc' = [pc EXCEPT ![w] = "appending"]
      /\ job' = [job EXCEPT ![w].id = nextId]
      /\ wal' = [wal EXCEPT !.frames = @ \cup {new}, !.end = nextId + 1]
      /\ nextId' = nextId + 1
      /\ UNCHANGED <<phase, poisoned, mem, spc, cap, snap, nextGen, acked>>
  BY DEF AppendStart, lifeVars, saverVars, snapVars
<1>2. /\ pc'[w] = "appending" /\ job'[w].id = nextId
      /\ \A v \in Writer : v # w => pc'[v] = pc[v] /\ job'[v] = job[v]
  BY <1>1 DEF TypeOK, Job
<1>3. new.id = nextId /\ Bad(new) /\ (new.doomed => new.checked)
  <2>1. job'[w].doomed => job'[w].checked
    BY DEF LockInv
  <2> QED
    BY <1>2, <2>1 DEF FrameOf, Bad
<1>4. \A v \in Writer : ~Holding(v)
  BY <1>1, WriterAssumption DEF LockInv
<1>5. \A f \in wal.frames : ~Bad(f)
  BY <1>1, NoBadFrame DEF FileInv
<1>6. /\ wal'.frames = wal.frames \cup {new} /\ wal'.gen = wal.gen /\ wal'.end = nextId + 1
      /\ nextId \in Nat /\ wal.end \in Nat /\ snap.offset \in Nat
      /\ \A f \in wal.frames : f.id \in Nat
  <2>1. wal'.frames = wal.frames \cup {new} /\ wal'.gen = wal.gen /\ wal'.end = nextId + 1
    BY <1>1 DEF TypeOK, WalFile
  <2> QED
    BY <2>1 DEF TypeOK, WalFile, Frame, SnapshotFile
<1>7. \A f \in wal.frames : f.id < nextId
  BY <1>6 DEF FileInv, FrameInv
<1>8. Holding(w)' /\ Active(w)' /\ \A v \in Writer : v # w => ~Holding(v)'
  BY <1>2, <1>4 DEF Holding, Active
<1>9. snap.offset <= nextId
  BY <1>6 DEF FileInv, FrameInv, SnapInv
<1> HIDE DEF new
<1>10. FrameInv'
  <2>1. wal'.end <= nextId' /\ \A f \in wal'.frames : f.id < wal'.end
    BY <1>1, <1>3, <1>6, <1>7
  <2>2. \A f, g \in wal'.frames : f.id = g.id => f = g
    <3>1. \A f, g \in wal.frames : f.id = g.id => f = g
      BY DEF FileInv, FrameInv
    <3>2. \A f \in wal.frames : f.id # new.id
      BY <1>3, <1>6, <1>7
    <3> QED
      BY <1>6, <3>1, <3>2
  <2>3. ASSUME NEW v \in Writer
        PROVE  (/\ pc[v] = "appending" => FrameOf(job[v], FALSE) \in wal.frames
                /\ pc[v] \in {"syncing", "applying"} => FrameOf(job[v], TRUE) \in wal.frames
                /\ Active(v) => job[v].id >= snap.offset
                /\ Holding(v) => \A f \in wal.frames : f.id <= job[v].id)'
    <3>1. CASE v = w
      <4>1. new \in wal'.frames /\ new = FrameOf(job'[v], FALSE)
        BY <1>6, <3>1 DEF new
      <4>2. job'[v].id >= snap'.offset
        BY <1>1, <1>2, <1>6, <1>9, <3>1
      <4>3. \A f \in wal'.frames : f.id <= job'[v].id
        BY <1>2, <1>3, <1>6, <1>7, <3>1
      <4> QED
        BY <1>2, <3>1, <4>1, <4>2, <4>3
    <3>2. CASE v # w
      <4>1. (Active(v)' => Active(v)) /\ FrameOf(job'[v], TRUE) = FrameOf(job[v], TRUE)
            /\ FrameOf(job'[v], FALSE) = FrameOf(job[v], FALSE)
        BY <1>2, <3>2 DEF Active
      <4> QED
        BY <1>1, <1>2, <1>6, <1>8, <3>2, <4>1 DEF FileInv, FrameInv
    <3> QED
      BY <3>1, <3>2
  <2>4. ASSUME NEW f \in wal'.frames, Bad(f) PROVE f = new
    BY <1>5, <1>6, <2>4
  <2>5. /\ new.id >= snap'.offset
        /\ \A g \in wal'.frames : g.id <= new.id
        /\ new.doomed => new.checked
        /\ Holding(w)' /\ job'[w].id = new.id
    BY <1>1, <1>2, <1>3, <1>6, <1>7, <1>8, <1>9
  <2>6. \A f \in wal'.frames : Bad(f) =>
          /\ f.id >= snap'.offset
          /\ \A g \in wal'.frames : g.id <= f.id
          /\ f.doomed => f.checked
          /\ phase' = "up" /\ ~poisoned' => \E v \in Writer : Holding(v)' /\ job'[v].id = f.id
    BY <2>4, <2>5
  <2> QED
    BY <2>1, <2>2, <2>3, <2>6 DEF FrameInv, Bad
<1>11. SnapInv'
  BY <1>1, <1>3, <1>6, <1>9 DEF FileInv, SnapInv
<1>12. ASSUME NEW s PROVE Recovered(s, wal') = Recovered(s, wal)
  <2>1. BadLast(wal) /\ BadLast(wal')
    BY <1>10 DEF FileInv, FrameInv, BadLast, Bad
  <2>2. \A f : f \in wal.frames /\ ~Bad(f) <=> f \in wal'.frames /\ ~Bad(f)
    BY <1>3, <1>6
  <2> QED
    BY <1>6, <2>1, <2>2, SameGood
<1>13. Recoverable' = Recoverable
  BY <1>1, <1>12 DEF Recoverable
<1>14. CaptureInv'
  <2>1. CASE Capturing
    <3>1. cap.gen = wal.gen /\ cap.offset <= wal.end /\ cap.offset \in Nat
      BY <2>1 DEF FileInv, CaptureInv, Capturing, TypeOK, SnapshotFile
    <3>2. cap.offset <= nextId /\ cap.offset <= wal'.end
      BY <1>6, <3>1 DEF FileInv, FrameInv
    <3>3. \A v \in Writer : Active(v)' => job'[v].id >= cap'.offset
      <4>1. ASSUME NEW v \in Writer, v # w, Active(v)' PROVE job'[v].id >= cap'.offset
        BY <1>1, <1>2, <2>1, <4>1 DEF FileInv, CaptureInv, Capturing, Active
      <4> QED
        BY <1>1, <1>2, <1>6, <3>1, <3>2, <4>1
    <3>4. \A f \in wal'.frames : Bad(f) => f.id >= cap'.offset
      BY <1>1, <1>3, <1>5, <1>6, <3>1, <3>2
    <3>5. Recovered(cap, wal)' = Recoverable'
      BY <1>1, <1>12, <1>13, <2>1 DEF FileInv, CaptureInv, Capturing
    <3> QED
      BY <1>1, <1>6, <2>1, <3>1, <3>2, <3>3, <3>4, <3>5 DEF FileInv, CaptureInv, Capturing, Bad
  <2>2. CASE ~Capturing
    BY <1>1, <2>2 DEF CaptureInv, Capturing
  <2> QED
    BY <2>1, <2>2
<1>15. LiveInv'
  <2>1. \A k \in Key : InFlight(k) \subseteq InFlight(k)'
    BY <1>1, <1>2 DEF InFlight
  <2>2. \A k \in Key : \A i \in Recoverable[k] : i \in Nat /\ i < nextId
    BY RecoveredType DEF FileInv, LiveInv, Recoverable, TypeOK
  <2>3. \A k \in Key : \A i \in Recoverable[k] : i < nextId'
    BY <1>1, <1>6, <2>2
  <2>4. ASSUME NEW v \in Writer, Pending(v)', NEW k \in Key
        PROVE  job'[v].id \notin mem'[k] /\ job'[v].id \notin acked'[k]
    <3>1. CASE v = w
      BY <1>1, <1>2, <1>6, <2>2, <3>1 DEF FileInv, LiveInv
    <3>2. CASE v # w
      BY <1>1, <1>2, <2>4, <3>2 DEF FileInv, LiveInv, Pending
    <3> QED
      BY <3>1, <3>2
  <2> QED
    BY <1>1, <1>13, <2>1, <2>3, <2>4 DEF FileInv, LiveInv
<1> QED
  BY <1>10, <1>11, <1>13, <1>14, <1>15 DEF FileInv

\* Completing a frame preserves the file invariants: recovery now rebuilds the
\* mutation, which is in flight.
LEMMA AppendDoneFiles ==
  ASSUME TypeOK, TypeOK', LockInv, LockInv', FileInv, NEW w \in Writer, AppendDone(w)
  PROVE  /\ FileInv'
         /\ \A k \in Key : \A i : i \in Recoverable'[k] <=>
              i \in Recoverable[k] \/ (i = job[w].id /\ k \in job[w].keys /\ ~job[w].doomed)
<1> DEFINE torn == FrameOf(job[w], FALSE)
           done == FrameOf(job[w], TRUE)
<1>1. /\ phase = "up" /\ pc[w] = "appending"
      /\ wal' = [wal EXCEPT !.frames = (@ \ {torn}) \cup {done}]
      /\ pc' = [pc EXCEPT ![w] = NextAfterAppend]
      /\ UNCHANGED <<phase, poisoned, mem, job, spc, cap, snap, nextId, nextGen, acked>>
  BY DEF AppendDone, lifeVars, saverVars, snapVars, counters
<1>2. /\ pc'[w] \in {"syncing", "applying"}
      /\ \A v \in Writer : v # w => pc'[v] = pc[v]
  BY <1>1 DEF TypeOK, NextAfterAppend
<1>3. /\ torn.id = job[w].id /\ done.id = job[w].id /\ ~torn.whole /\ done.whole
      /\ torn.keys = job[w].keys /\ done.keys = job[w].keys
      /\ torn.doomed = job[w].doomed /\ done.doomed = job[w].doomed
      /\ torn.checked = job[w].checked /\ done.checked = job[w].checked
  BY DEF FrameOf
<1>4. torn \in wal.frames /\ Bad(torn) /\ (Bad(done) <=> job[w].doomed)
  BY <1>1, <1>3 DEF FileInv, FrameInv, Bad
<1>5. /\ wal'.frames = (wal.frames \ {torn}) \cup {done}
      /\ wal'.gen = wal.gen /\ wal'.end = wal.end
  BY <1>1 DEF TypeOK, WalFile
<1>6. /\ nextId \in Nat /\ wal.end \in Nat /\ snap.offset \in Nat /\ job[w].id \in Nat
      /\ \A f \in wal.frames : f.id \in Nat
  BY DEF TypeOK, WalFile, Frame, SnapshotFile, Job
<1>7. \A v \in Writer : v # w => ~Holding(v) /\ ~Holding(v)'
  BY <1>1, <1>2 DEF LockInv, Holding
<1>8. \A f \in wal.frames : f # torn => f.id < job[w].id /\ ~Bad(f)
  <2>1. \A f \in wal.frames : f.id <= job[w].id
    BY <1>1 DEF FileInv, FrameInv, Holding
  <2>2. \A f \in wal.frames : f.id = job[w].id => f = torn
    BY <1>3, <1>4 DEF FileInv, FrameInv
  <2>3. \A f \in wal.frames : Bad(f) => torn.id <= f.id
    BY <1>4 DEF FileInv, FrameInv
  <2> HIDE DEF torn, done
  <2>4. ASSUME NEW f \in wal.frames, f # torn PROVE f.id < job[w].id /\ ~Bad(f)
    <3>1. f.id \in Nat /\ f.id <= job[w].id /\ f.id # job[w].id
      BY <1>6, <2>1, <2>2, <2>4
    <3>2. f.id < job[w].id
      BY <1>6, <3>1
    <3>3. ~(job[w].id <= f.id)
      BY <1>6, <3>1, <3>2
    <3> QED
      BY <1>3, <2>3, <3>2, <3>3
  <2> QED
    BY <2>4
<1>9. job[w].id < wal.end /\ job[w].id >= snap.offset
  BY <1>1, <1>3, <1>4 DEF FileInv, FrameInv, Active
<1>10. job[w].doomed => Holding(w)' /\ job[w].checked
  BY <1>1, <1>2 DEF LockInv, Holding
<1> HIDE DEF torn, done
<1>11. FrameInv'
  <2>1. wal'.end <= nextId' /\ \A f \in wal'.frames : f.id < wal'.end
    BY <1>1, <1>3, <1>5, <1>9 DEF FileInv, FrameInv
  <2>2. \A f, g \in wal'.frames : f.id = g.id => f = g
    <3>1. \A f, g \in wal.frames : f.id = g.id => f = g
      BY DEF FileInv, FrameInv
    <3>2. \A f \in wal.frames \ {torn} : f.id # done.id
      BY <1>3, <1>6, <1>8
    <3> QED
      BY <1>5, <3>1, <3>2
  <2>3. ASSUME NEW v \in Writer
        PROVE  (/\ pc[v] = "appending" => FrameOf(job[v], FALSE) \in wal.frames
                /\ pc[v] \in {"syncing", "applying"} => FrameOf(job[v], TRUE) \in wal.frames
                /\ Active(v) => job[v].id >= snap.offset
                /\ Holding(v) => \A f \in wal.frames : f.id <= job[v].id)'
    <3>1. CASE v = w
      <4>1. done \in wal'.frames /\ done = FrameOf(job'[v], TRUE)
        BY <1>1, <1>5, <3>1 DEF done
      <4>2. \A f \in wal'.frames : f.id <= job'[v].id
        BY <1>1, <1>3, <1>5, <1>6, <1>8, <3>1
      <4> QED
        BY <1>1, <1>2, <1>9, <3>1, <4>1, <4>2
    <3>2. CASE v # w
      <4>1. pc'[v] # "appending" /\ (Active(v)' => Active(v))
        BY <1>2, <1>7, <3>2 DEF Active, Holding
      <4>2. pc[v] \in {"syncing", "applying"} => FrameOf(job[v], TRUE) \in wal.frames \ {torn}
        <5>1. FrameOf(job[v], TRUE) # torn
          BY DEF FrameOf, torn
        <5> QED
          BY <5>1 DEF FileInv, FrameInv
      <4> QED
        BY <1>1, <1>2, <1>5, <1>7, <3>2, <4>1, <4>2 DEF FileInv, FrameInv
    <3> QED
      BY <3>1, <3>2
  <2>4. ASSUME NEW f \in wal'.frames, Bad(f) PROVE f = done /\ job[w].doomed
    BY <1>4, <1>5, <1>8, <2>4
  <2>5. /\ done.id >= snap'.offset
        /\ \A g \in wal'.frames : g.id <= done.id
        /\ job[w].doomed => done.checked /\ Holding(w)' /\ job'[w].id = done.id
    BY <1>1, <1>3, <1>5, <1>6, <1>8, <1>9, <1>10
  <2>6. \A f \in wal'.frames : Bad(f) =>
          /\ f.id >= snap'.offset
          /\ \A g \in wal'.frames : g.id <= f.id
          /\ f.doomed => f.checked
          /\ phase' = "up" /\ ~poisoned' => \E v \in Writer : Holding(v)' /\ job'[v].id = f.id
    BY <2>4, <2>5
  <2> QED
    BY <2>1, <2>2, <2>3, <2>6 DEF FrameInv, Bad
<1>12. SnapInv'
  BY <1>1, <1>3, <1>5, <1>9 DEF FileInv, SnapInv
<1>13. BadLast(wal) /\ BadLast(wal')
  BY <1>11 DEF FileInv, FrameInv, BadLast, Bad
\* What recovery rebuilds grows by the completed frame, unless it is doomed.
<1>14. ASSUME NEW s, NEW k \in Key, NEW i, ReplayOffset(s, wal) <= job[w].id
       PROVE  i \in Recovered(s, wal')[k] <=>
                i \in Recovered(s, wal)[k] \/ (i = job[w].id /\ k \in job[w].keys /\ ~job[w].doomed)
  <2>1. i \in Recovered(s, wal')[k] <=> Rebuilt(s, wal', ReplayOffset(s, wal), k, i)
    BY <1>5, <1>13, RecoveredIs DEF BadLast, ReplayOffset
  <2>2. i \in Recovered(s, wal)[k] <=> Rebuilt(s, wal, ReplayOffset(s, wal), k, i)
    BY <1>13, RecoveredIs DEF BadLast
  <2> QED
    BY <1>3, <1>4, <1>5, <1>14, <2>1, <2>2 DEF Rebuilt
<1>15. ASSUME NEW k \in Key, NEW i
       PROVE  i \in Recoverable'[k] <=>
                i \in Recoverable[k] \/ (i = job[w].id /\ k \in job[w].keys /\ ~job[w].doomed)
  <2>1. ReplayOffset(snap, wal) <= job[w].id
    BY <1>6, <1>9 DEF ReplayOffset
  <2> QED
    BY <1>1, <1>14, <2>1 DEF Recoverable
<1>16. CaptureInv'
  <2>1. CASE Capturing
    <3>1. /\ cap.gen = wal.gen /\ cap.offset <= wal.end /\ cap.offset <= job[w].id
          /\ Recovered(cap, wal) = Recoverable
      BY <1>1, <2>1 DEF FileInv, CaptureInv, Capturing, Active
    <3>2. \A v \in Writer : Active(v)' => job'[v].id >= cap'.offset
      BY <1>1, <1>2, <2>1 DEF FileInv, CaptureInv, Capturing, Active
    <3>3. \A f \in wal'.frames : Bad(f) => f.id >= cap'.offset
      BY <1>1, <1>3, <1>5, <1>8, <3>1
    <3>4. Recovered(cap, wal)' = Recoverable'
      <4>1. ReplayOffset(cap, wal) <= job[w].id
        BY <1>6, <3>1 DEF ReplayOffset
      <4>2. ASSUME NEW k \in Key, NEW i
            PROVE  i \in Recovered(cap, wal')[k] <=> i \in Recovered(snap, wal')[k]
        <5>1. i \in Recovered(cap, wal')[k] <=>
                i \in Recoverable[k] \/ (i = job[w].id /\ k \in job[w].keys /\ ~job[w].doomed)
          BY <1>14, <3>1, <4>1
        <5>2. Recoverable' = Recovered(snap, wal')
          BY <1>1 DEF Recoverable
        <5> QED
          BY <1>15, <5>1, <5>2
      <4> QED
        BY <1>1, <4>2, RecoveredExt DEF Recoverable
    <3> QED
      BY <1>1, <1>5, <2>1, <3>1, <3>2, <3>3, <3>4 DEF FileInv, CaptureInv, Capturing, Bad
  <2>2. CASE ~Capturing
    BY <1>1, <2>2 DEF CaptureInv, Capturing
  <2> QED
    BY <2>1, <2>2
<1>17. LiveInv'
  <2>1. ASSUME NEW k \in Key
        PROVE  InFlight(k) \subseteq InFlight(k)' /\ (k \in job[w].keys => job[w].id \in InFlight(k)')
    BY <1>1, <1>2 DEF InFlight
  <2>2. ASSUME NEW v \in Writer, Pending(v)' PROVE Pending(v)
    BY <1>1, <1>2, <2>2 DEF Pending
  <2>3. job[w].id < nextId
    BY <1>6, <1>9 DEF FileInv, FrameInv
  <2>4. ASSUME NEW k \in Key
        PROVE  /\ acked'[k] \subseteq Recoverable'[k] /\ mem'[k] \subseteq Recoverable'[k]
               /\ phase' = "up" /\ ~poisoned' => Recoverable'[k] \subseteq mem'[k] \cup InFlight(k)'
               /\ \A i \in Recoverable'[k] : i < nextId'
    BY <1>1, <1>15, <2>1, <2>3 DEF FileInv, LiveInv
  <2> QED
    BY <1>1, <2>2, <2>4 DEF FileInv, LiveInv
<1> QED
  BY <1>11, <1>12, <1>15, <1>16, <1>17 DEF FileInv

\* The writer inside the journal lock removes its own frame.
LEMMA RollbackFiles ==
  ASSUME TypeOK, TypeOK', LockInv, FileInv, NEW w \in Writer, Holding(w), Pending(w), Reply(w),
         wal'.frames = {f \in wal.frames : f.id < job[w].id},
         wal'.gen = wal.gen, wal'.end = job[w].id,
         poisoned => poisoned',
         UNCHANGED <<phase, mem, spc, cap, snap, nextId, nextGen, acked>>
  PROVE  /\ FileInv'
         /\ \A k \in Key : \A i : i \in Recoverable'[k] <=> i \in Recoverable[k] /\ i # job[w].id
<1>1. ~Active(w)' /\ \A v \in Writer : v # w => pc'[v] = pc[v] /\ job'[v] = job[v]
  BY ReplyMoves
<1>2. /\ nextId \in Nat /\ wal.end \in Nat /\ snap.offset \in Nat /\ job[w].id \in Nat
      /\ \A f \in wal.frames : f.id \in Nat
  BY DEF TypeOK, WalFile, Frame, SnapshotFile, Job
<1>3. Active(w)
  BY DEF Holding, Active
<1>4. PICK b \in BOOLEAN : FrameOf(job[w], b) \in wal.frames
  BY <1>3 DEF FileInv, FrameInv, Active
<1>5. job[w].id < wal.end /\ job[w].id >= snap.offset
  <2>1. FrameOf(job[w], b).id = job[w].id
    BY DEF FrameOf
  <2> QED
    BY <1>3, <1>4, <2>1 DEF FileInv, FrameInv
<1>6. \A v \in Writer : v # w => ~Holding(v) /\ ~Holding(v)'
  BY <1>1 DEF LockInv, Holding
<1>7. \A f \in wal'.frames : f \in wal.frames /\ f.id < job[w].id /\ ~Bad(f)
  <2>1. ASSUME NEW f \in wal.frames, f.id < job[w].id PROVE ~Bad(f)
    <3>1. FrameOf(job[w], b).id = job[w].id
      BY DEF FrameOf
    <3> QED
      BY <1>2, <1>4, <2>1, <3>1 DEF FileInv, FrameInv
  <2> QED
    BY <2>1
<1>8. FrameInv'
  <2>1. wal'.end <= nextId' /\ \A f \in wal'.frames : f.id < wal'.end
    BY <1>2, <1>5, <1>7 DEF FileInv, FrameInv
  <2>2. \A f, g \in wal'.frames : f.id = g.id => f = g
    BY <1>7 DEF FileInv, FrameInv
  <2>3. ASSUME NEW v \in Writer
        PROVE  (/\ pc[v] = "appending" => FrameOf(job[v], FALSE) \in wal.frames
                /\ pc[v] \in {"syncing", "applying"} => FrameOf(job[v], TRUE) \in wal.frames
                /\ Active(v) => job[v].id >= snap.offset
                /\ Holding(v) => \A f \in wal.frames : f.id <= job[v].id)'
    <3>1. CASE v = w
      BY <1>1, <3>1 DEF Active, Holding
    <3>2. CASE v # w /\ ~Active(v)
      BY <1>1, <1>6, <3>2 DEF Active
    <3>3. CASE v # w /\ Active(v)
      <4>1. pc[v] \in {"syncing", "applying"} /\ ~Holding(v)'
        BY <1>6, <3>3 DEF Active, Holding
      <4>2. FrameOf(job[v], TRUE) \in wal.frames /\ FrameOf(job[v], TRUE).id = job[v].id
        BY <4>1 DEF FileInv, FrameInv, FrameOf
      <4>3. job[v].id # job[w].id /\ job[v].id <= job[w].id
        BY <1>3, <3>3, <4>2, DistinctJobs DEF FileInv, FrameInv
      <4>4. FrameOf(job[v], TRUE) \in wal'.frames
        <5>1. job[v].id \in Nat
          BY DEF TypeOK, Job
        <5>2. job[v].id < job[w].id
          BY <1>2, <4>3, <5>1
        <5> QED
          BY <4>2, <5>2
      <4> QED
        BY <1>1, <3>3, <4>1, <4>4 DEF FileInv, FrameInv
    <3> QED
      BY <3>1, <3>2, <3>3
  <2> QED
    BY <1>7, <2>1, <2>2, <2>3 DEF FrameInv, Bad
<1>9. SnapInv'
  BY <1>5, <1>7 DEF FileInv, SnapInv
<1>10. BadLast(wal) /\ BadLast(wal')
  BY <1>7 DEF FileInv, FrameInv, BadLast, Bad
<1>11. \A f \in wal.frames : f.id # job[w].id => f \in wal'.frames
  <2>1. ASSUME NEW f \in wal.frames, f.id # job[w].id PROVE f.id < job[w].id
    <3>1. f.id <= job[w].id
      BY DEF FileInv, FrameInv
    <3> QED
      BY <1>2, <2>1, <3>1
  <2> QED
    BY <2>1
\* Recovery loses the removed mutation and nothing else.
<1>12. ASSUME NEW s, NEW k \in Key, NEW i, job[w].id \notin s.image[k]
       PROVE  i \in Recovered(s, wal')[k] <=> i \in Recovered(s, wal)[k] /\ i # job[w].id
  <2>1. i \in Recovered(s, wal')[k] <=> Rebuilt(s, wal', ReplayOffset(s, wal), k, i)
    BY <1>10, RecoveredIs DEF BadLast, ReplayOffset
  <2>2. i \in Recovered(s, wal)[k] <=> Rebuilt(s, wal, ReplayOffset(s, wal), k, i)
    BY <1>10, RecoveredIs DEF BadLast
  <2>3. \A f \in wal'.frames : f.id # job[w].id
    BY <1>2, <1>7
  <2> QED
    BY <1>7, <1>11, <1>12, <2>1, <2>2, <2>3 DEF Rebuilt
<1>13. ASSUME NEW k \in Key, NEW i
       PROVE  i \in Recoverable'[k] <=> i \in Recoverable[k] /\ i # job[w].id
  <2>1. job[w].id \notin snap.image[k]
    BY <1>2, <1>5 DEF FileInv, SnapInv
  <2> QED
    BY <1>12, <2>1 DEF Recoverable
<1>14. CaptureInv'
  <2>1. CASE Capturing
    <3>1. /\ cap.offset <= job[w].id /\ Recovered(cap, wal) = Recoverable /\ cap.offset \in Nat
          /\ \A k \in Key : \A i \in cap.image[k] : i < cap.offset
      BY <1>3, <2>1 DEF FileInv, CaptureInv, Capturing, TypeOK, SnapshotFile
    <3>2. \A v \in Writer : Active(v)' => job'[v].id >= cap'.offset
      BY <1>1, <2>1 DEF FileInv, CaptureInv, Capturing, Active
    <3>3. Recovered(cap, wal)' = Recoverable'
      <4>1. ASSUME NEW k \in Key, NEW i
            PROVE  i \in Recovered(cap, wal')[k] <=> i \in Recovered(snap, wal')[k]
        <5>1. job[w].id \notin cap.image[k]
          BY <1>2, <3>1
        <5> QED
          BY <1>12, <1>13, <3>1, <5>1 DEF Recoverable
      <4> QED
        BY <4>1, RecoveredExt DEF Recoverable
    <3> QED
      BY <1>7, <2>1, <3>1, <3>2, <3>3 DEF FileInv, CaptureInv, Capturing, Bad
  <2>2. CASE ~Capturing
    BY <2>2 DEF CaptureInv, Capturing
  <2> QED
    BY <2>1, <2>2
<1>15. LiveInv'
  <2>1. \A k \in Key : job[w].id \notin mem[k] /\ job[w].id \notin acked[k]
    BY DEF FileInv, LiveInv
  <2>2. ASSUME NEW k \in Key, NEW i \in InFlight(k), i # job[w].id PROVE i \in InFlight(k)'
    BY <1>1, <2>2 DEF InFlight
  <2>3. ASSUME NEW v \in Writer, Pending(v)' PROVE Pending(v) /\ job'[v] = job[v]
    BY <1>1, <2>3 DEF Pending, Active
  <2>4. ASSUME NEW k \in Key
        PROVE  /\ acked'[k] \subseteq Recoverable'[k] /\ mem'[k] \subseteq Recoverable'[k]
               /\ phase' = "up" /\ ~poisoned' => Recoverable'[k] \subseteq mem'[k] \cup InFlight(k)'
               /\ \A i \in Recoverable'[k] : i < nextId'
    BY <1>13, <2>1, <2>2 DEF FileInv, LiveInv
  <2> QED
    BY <2>3, <2>4 DEF FileInv, LiveInv
<1> QED
  BY <1>8, <1>9, <1>13, <1>14, <1>15 DEF FileInv

\* A failed append or a rejected command: rolled back, or poisoned.
LEMMA UndoFiles ==
  ASSUME TypeOK, TypeOK', LockInv, FileInv, NEW w \in Writer, AppendFails(w) \/ Reject(w)
  PROVE  /\ FileInv'
         /\ \/ wal' = wal /\ Recoverable' = Recoverable
            \/ \A k \in Key : \A i : i \in Recoverable'[k] <=> i \in Recoverable[k] /\ i # job[w].id
<1>1. /\ UNCHANGED <<phase, mem, spc, cap, snap, nextId, nextGen, acked>>
      /\ Reply(w) /\ (RollbackDone(w) \/ RollbackFails(w))
  BY DEF AppendFails, Reject, lifeVars, saverVars, snapVars, counters
<1>2. Holding(w) /\ Pending(w)
  BY DEF AppendFails, Reject, Holding, Pending, LockInv
<1>3. job[w].id \in Nat
  BY DEF TypeOK, Job
<1>4. CASE wal' = RollbackTo(wal, job[w].id) /\ UNCHANGED poisoned
  <2>1. /\ wal'.frames = {f \in wal.frames : f.id < job[w].id}
        /\ wal'.gen = wal.gen /\ wal'.end = job[w].id
    BY <1>4 DEF RollbackTo, SetLen, TypeOK, WalFile
  <2> QED
    BY <1>1, <1>2, <1>4, <2>1, RollbackFiles
<1>5. CASE wal' = SetLen(wal, job[w].id) /\ poisoned'
  <2>1. /\ wal'.frames = {f \in wal.frames : f.id < job[w].id}
        /\ wal'.gen = wal.gen /\ wal'.end = job[w].id
    BY <1>5 DEF SetLen, TypeOK, WalFile
  <2> QED
    BY <1>1, <1>2, <1>5, <2>1, RollbackFiles
<1>6. CASE UNCHANGED wal /\ poisoned'
  BY <1>1, <1>6, PoisonFiles
<1> QED
  BY <1>1, <1>4, <1>5, <1>6 DEF RollbackDone, RollbackFails

-----------------------------------------------------------------------------
(* The files: capture, install, rotate                                     *)

\* Behind the barrier no mutation is between append and apply.
LEMMA BarrierExcludes ==
  ASSUME TypeOK, LockInv, BarrierHeld(Saver), NEW w \in Writer
  PROVE  ~Active(w)
<1>1. SUFFICES ASSUME Active(w) PROVE FALSE
  OBVIOUS
<1>2. PICK k \in job[w].keys : TRUE
  BY <1>1 DEF LockInv, Active
<1>3. k \in Key
  BY <1>2 DEF TypeOK, Job
<1> QED
  BY <1>1, <1>2, <1>3, WriterAssumption DEF LockInv, BarrierHeld

\* The saver's capture: memory is exactly what the journal would rebuild.
LEMMA CaptureFiles ==
  ASSUME TypeOK, TypeOK', LockInv, FileInv, Capture
  PROVE  FileInv' /\ Recoverable' = Recoverable
<1>1. /\ phase = "up" /\ spc = "barrier" /\ jlock = Nobody /\ BarrierHeld(Saver)
      /\ UNCHANGED <<phase, mem, poisoned, pc, job, snap, nextId, acked>>
  BY DEF Capture, lifeVars, writerVars, snapVars
<1>2. /\ wal'.frames = wal.frames /\ wal'.gen = wal.gen /\ wal'.end = wal.end
      /\ nextGen' >= nextGen
  <2>1. wal' = Synced(wal) \/ wal' = wal
    BY DEF Capture, CheckpointSync, SyncWal, walVars
  <2>2. nextGen' = nextGen + 1 \/ nextGen' = nextGen
    BY DEF Capture
  <2> QED
    BY <2>1, <2>2 DEF Synced, TypeOK, WalFile
<1>3. CASE spc' = "idle"
  BY <1>1, <1>2, <1>3, QuietStep DEF Capturing
<1>4. CASE spc' # "idle"
  <2>1. /\ ~poisoned /\ spc' = "write" /\ nextGen' = nextGen + 1
        /\ cap' = [image |-> mem, gen |-> wal.gen, offset |-> wal.end, succ |-> nextGen]
    BY <1>4 DEF Capture, SaveEnds
  <2>2. FrameInv' /\ SnapInv' /\ Recoverable' = Recoverable
    BY <1>1, <1>2, QuietFrames DEF FileInv, Holding
  <2>3. \A v \in Writer : ~Active(v) /\ ~Active(v)'
    BY <1>1, BarrierExcludes DEF Active
  <2>4. \A f \in wal.frames : ~Bad(f)
    BY <1>1, <2>1, NoBadFrame DEF FileInv
  <2>5. ASSUME NEW k \in Key PROVE InFlight(k) = {} /\ mem[k] = Recoverable[k]
    <3>1. InFlight(k) = {}
      BY <2>3 DEF InFlight, Active
    <3> QED
      BY <1>1, <2>1, <3>1 DEF FileInv, LiveInv
  <2>6. /\ wal.end \in Nat /\ snap.offset \in Nat /\ wal.gen \in Nat /\ nextGen \in Nat
        /\ \A f \in wal.frames : f.id \in Nat
    BY DEF TypeOK, WalFile, Frame, SnapshotFile
  <2>7. ASSUME NEW k \in Key, NEW i \in mem[k] PROVE i < wal.end
    <3>1. Rebuilt(snap, wal, snap.offset, k, i)
      BY <2>5, RecoverableIs DEF FileInv
    <3>2. i \in Nat
      BY DEF TypeOK
    <3>3. CASE i \in snap.image[k]
      BY <2>6, <3>2, <3>3 DEF FileInv, SnapInv
    <3>4. CASE i \notin snap.image[k]
      BY <3>1, <3>4 DEF Rebuilt, FileInv, FrameInv
    <3> QED
      BY <3>3, <3>4
  <2>8. Recovered(cap', wal') = Recoverable
    <3>1. ReplayOffset(cap', wal') = wal.end
      BY <1>2, <2>1 DEF ReplayOffset
    <3>2. ASSUME NEW k \in Key, NEW i
          PROVE  i \in Recovered(cap', wal')[k] <=> i \in Recovered(snap, wal)[k]
      <4>1. i \in Recovered(cap', wal')[k] <=> Rebuilt(cap', wal', wal.end, k, i)
        BY <1>2, <2>4, <3>1, RecoveredIs
      <4>2. \A f \in wal'.frames : ~(f.id >= wal.end)
        BY <1>2, <2>6 DEF FileInv, FrameInv
      <4>3. cap'.image[k] = Recoverable[k]
        BY <2>1, <2>5
      <4> QED
        BY <4>1, <4>2, <4>3 DEF Rebuilt, Recoverable
    <3> QED
      BY <3>2, RecoveredExt DEF Recoverable
  <2>9. CaptureInv'
    <3>1. cap'.gen = wal'.gen /\ cap'.offset <= wal'.end
      BY <1>2, <2>1, <2>6
    <3>2. cap'.succ \in Nat /\ wal'.gen < cap'.succ /\ cap'.succ < nextGen'
      BY <1>2, <2>1, <2>6 DEF FileInv, SnapInv
    <3>3. \A k \in Key : \A i \in cap'.image[k] : i < cap'.offset
      BY <2>1, <2>7
    <3>4. \A f \in wal'.frames : ~Bad(f)
      BY <1>2, <2>4
    <3> QED
      BY <2>1, <2>2, <2>3, <2>8, <3>1, <3>2, <3>3, <3>4 DEF CaptureInv, Bad
  <2>10. LiveInv'
    <3>1. \A k \in Key : InFlight(k) \subseteq InFlight(k)'
      BY <2>5
    <3>2. \A v \in Writer : ~Pending(v)'
      BY <2>3 DEF Pending, Active
    <3> QED
      BY <1>1, <2>2, <3>1, <3>2, QuietLive DEF FileInv, LiveInv
  <2> QED
    BY <2>2, <2>9, <2>10 DEF FileInv
<1> QED
  BY <1>3, <1>4

\* Installing the snapshot leaves what a restart rebuilds as it was.
LEMMA InstallFiles ==
  ASSUME TypeOK, TypeOK', FileInv, Install
  PROVE  FileInv' /\ Recoverable' = Recoverable
<1>1. /\ spc = "write" /\ phase = "up"
      /\ UNCHANGED <<phase, mem, poisoned, pc, job, wal, nextId, nextGen, acked>>
  BY DEF Install, lifeVars, writerVars, walVars, counters
<1>2. CASE spc' = "idle"
  BY <1>1, <1>2, QuietStep DEF Install, snapVars, Capturing, TypeOK
<1>3. CASE spc' # "idle"
  <2>1. snap' = cap /\ spc' = "installed" /\ cap' = cap
    BY <1>3 DEF Install, SaveEnds
  <2>2. /\ cap.gen = wal.gen /\ cap.offset <= wal.end
        /\ cap.succ \in Nat /\ wal.gen < cap.succ /\ cap.succ < nextGen
        /\ \A k \in Key : \A i \in cap.image[k] : i < cap.offset
        /\ \A w \in Writer : Active(w) => job[w].id >= cap.offset
        /\ \A f \in wal.frames : Bad(f) => f.id >= cap.offset
        /\ Recovered(cap, wal) = Recoverable
    BY <1>1 DEF FileInv, CaptureInv
  <2>3. Recoverable' = Recoverable
    BY <1>1, <2>1, <2>2 DEF Recoverable
  <2>4. \A v \in Writer : (Active(v)' <=> Active(v)) /\ (Holding(v)' <=> Holding(v))
                          /\ (Pending(v)' <=> Pending(v))
    BY <1>1 DEF Active, Holding, Pending
  <2>5. FrameInv'
    BY <1>1, <2>1, <2>2, <2>4 DEF FileInv, FrameInv, Bad
  <2>6. SnapInv'
    BY <1>1, <2>1, <2>2 DEF FileInv, SnapInv
  <2>7. CaptureInv'
    <3>1. Recovered(cap, wal)' = Recoverable'
      BY <1>1, <2>1, <2>2, <2>3
    <3> QED
      BY <1>1, <2>1, <2>2, <2>4, <3>1 DEF CaptureInv, Bad
  <2>8. LiveInv'
    <3>1. \A k \in Key : InFlight(k)' = InFlight(k)
      BY <1>1 DEF InFlight
    <3> QED
      BY <1>1, <2>3, <2>4, <3>1, QuietLive DEF FileInv, LiveInv
  <2> QED
    BY <2>3, <2>5, <2>6, <2>7, <2>8 DEF FileInv
<1> QED
  BY <1>2, <1>3

\* Rotation drops only frames that the installed snapshot contains.
LEMMA RotateFiles ==
  ASSUME TypeOK, TypeOK', LockInv, FileInv, RotateAfter
  PROVE  FileInv' /\ Recoverable' = Recoverable
<1>1. /\ spc = "rotate" /\ phase = "up" /\ jlock = Nobody
      /\ UNCHANGED <<phase, mem, poisoned, pc, job, cap, snap, nextId, nextGen, acked>>
  BY DEF RotateAfter, lifeVars, writerVars, snapVars, counters
<1>2. CASE spc' = "failed"
  BY <1>1, <1>2, QuietStep DEF RotateAfter, walVars, Capturing, TypeOK
<1>3. CASE spc' # "failed"
  <2>1. /\ \A f \in Retained : f.whole
        /\ wal' = [gen |-> cap.succ, frames |-> Retained, synced |-> wal.end, end |-> wal.end]
        /\ spc' = "renamed"
    BY <1>3 DEF RotateAfter
  <2>2. wal'.gen = cap.succ /\ wal'.frames = Retained /\ wal'.end = wal.end
    BY <2>1
  <2>3. /\ snap = cap /\ cap.gen = wal.gen /\ cap.offset <= wal.end
        /\ cap.succ \in Nat /\ wal.gen < cap.succ /\ cap.succ < nextGen
        /\ \A w \in Writer : Active(w) => job[w].id >= cap.offset
    BY <1>1 DEF FileInv, CaptureInv
  <2>4. \A f : f \in Retained <=> f \in wal.frames /\ f.id >= snap.offset
    BY <2>3 DEF Retained
  <2>5. \A v \in Writer : ~Holding(v) /\ ~Holding(v)' /\ (Active(v)' <=> Active(v))
                          /\ (Pending(v)' <=> Pending(v))
    BY <1>1, WriterAssumption DEF LockInv, Active, Holding, Pending
  <2>6. FrameInv'
    <3>1. ASSUME NEW v \in Writer
          PROVE  (/\ pc[v] = "appending" => FrameOf(job[v], FALSE) \in wal.frames
                  /\ pc[v] \in {"syncing", "applying"} => FrameOf(job[v], TRUE) \in wal.frames
                  /\ Active(v) => job[v].id >= snap.offset
                  /\ Holding(v) => \A f \in wal.frames : f.id <= job[v].id)'
      <4>1. FrameOf(job[v], TRUE).id = job[v].id /\ FrameOf(job[v], FALSE).id = job[v].id
        BY DEF FrameOf
      <4>2. Active(v) => job[v].id >= snap.offset
        BY DEF FileInv, FrameInv
      <4> QED
        BY <1>1, <2>2, <2>4, <2>5, <4>1, <4>2 DEF FileInv, FrameInv, Active
    <3>2. \A f \in wal'.frames : f \in wal.frames
      BY <2>2, <2>4
    <3>3. \A f \in wal'.frames : Bad(f) =>
            /\ f.id >= snap'.offset
            /\ \A g \in wal'.frames : g.id <= f.id
            /\ f.doomed => f.checked
            /\ phase' = "up" /\ ~poisoned' => \E v \in Writer : Holding(v)' /\ job'[v].id = f.id
      BY <1>1, <2>5, <3>2 DEF FileInv, FrameInv
    <3>4. wal'.end <= nextId' /\ (\A f \in wal'.frames : f.id < wal'.end)
          /\ \A f, g \in wal'.frames : f.id = g.id => f = g
      BY <1>1, <2>2, <3>2 DEF FileInv, FrameInv
    <3> QED
      BY <3>1, <3>3, <3>4 DEF FrameInv, Bad
  <2>7. SnapInv'
    BY <1>1, <2>2, <2>3, <2>4 DEF FileInv, SnapInv
  <2>8. Recoverable' = Recoverable
    <3>1. ASSUME NEW k \in Key, NEW i
          PROVE  i \in Recovered(snap, wal')[k] <=> i \in Recovered(snap, wal)[k]
      <4>1. i \in Recovered(snap, wal)[k] <=> Rebuilt(snap, wal, snap.offset, k, i)
        BY RecoverableIs DEF FileInv, Recoverable
      <4>2. i \in Recovered(snap, wal')[k] <=> Rebuilt(snap, wal', 0, k, i)
        <5>1. ReplayOffset(snap, wal') = 0
          BY <2>2, <2>3 DEF ReplayOffset, TypeOK, WalFile
        <5>2. BadLast(wal')
          BY <2>6 DEF FrameInv, BadLast, Bad
        <5> QED
          BY <5>1, <5>2, RecoveredIs DEF BadLast
      <4>3. \A f \in wal.frames : f.id \in Nat
        BY DEF TypeOK, WalFile, Frame
      <4>4. \A f : (f \in wal'.frames /\ f.id >= 0) <=> (f \in wal.frames /\ f.id >= snap.offset)
        BY <2>2, <2>4, <4>3
      <4> QED
        BY <4>1, <4>2, <4>4 DEF Rebuilt
    <3> QED
      BY <1>1, <3>1, RecoveredExt DEF Recoverable
  <2>9. CaptureInv'
    BY <2>1 DEF CaptureInv
  <2>10. LiveInv'
    <3>1. \A k \in Key : InFlight(k)' = InFlight(k)
      BY <1>1 DEF InFlight
    <3> QED
      BY <1>1, <2>5, <2>8, <3>1, QuietLive DEF FileInv, LiveInv
  <2> QED
    BY <2>6, <2>7, <2>8, <2>9, <2>10 DEF FileInv
<1> QED
  BY <1>2, <1>3

-----------------------------------------------------------------------------
(* The files: the remaining steps                                          *)

\* A process that stops leaves the files as they are.
LEMMA VanishFiles ==
  ASSUME TypeOK, TypeOK', FileInv, Vanish, UNCHANGED <<wal, snap, nextId, nextGen, acked>>
  PROVE  FileInv' /\ Recoverable' = Recoverable
<1>1. /\ phase' = "down" /\ spc' = "idle" /\ \A k \in Key : mem'[k] = {}
      /\ \A v \in Writer : pc'[v] = "idle"
  BY DEF Vanish, EmptyImage
<1>2. \A v \in Writer : ~Active(v)' /\ ~Pending(v)'
  BY <1>1 DEF Active, Pending
<1>3. FrameInv' /\ SnapInv' /\ CaptureInv' /\ Recoverable' = Recoverable
  BY <1>1, <1>2, QuietFiles DEF FileInv, TypeOK, Capturing
<1>4. LiveInv'
  BY <1>1, <1>2, <1>3, QuietLive DEF FileInv, LiveInv
<1> QED
  BY <1>3, <1>4 DEF FileInv

\* The journal after recovery holds exactly the good frames: a torn or rejected
\* tail is rolled back, and with that synced.
LEMMA RecoveredWalIs ==
  ASSUME TypeOK, FrameInv, SnapInv, NEW x, x = RecoveredWal(snap, wal)
  PROVE  /\ \A f : f \in x.frames <=> f \in wal.frames /\ ~Bad(f)
         /\ x.gen = wal.gen /\ x.end <= wal.end /\ snap.offset <= x.end
         /\ \A f \in x.frames : f.id < x.end
         /\ x = wal \/ x.synced = x.end
<1> DEFINE bad == {f \in wal.frames : ~f.whole} \cup RejectedTail(snap, wal)
<1>1. \A f \in wal.frames : f.id \in Nat
  BY DEF TypeOK, WalFile, Frame
<1>2. \A f : f \in bad <=> f \in wal.frames /\ Bad(f)
  <2>1. ASSUME NEW f \in wal.frames, Bad(f), f.whole PROVE f \in RejectedTail(snap, wal)
    <3>1. f.doomed /\ f.checked /\ f.id >= snap.offset /\ IsLast(f, wal)
      BY <2>1 DEF FrameInv, Bad, IsLast
    <3>2. f.id >= ReplayOffset(snap, wal)
      BY <1>1, <3>1 DEF ReplayOffset
    <3> QED
      BY <2>1, <3>1, <3>2 DEF RejectedTail, ReplayFrames
  <2>2. RejectedTail(snap, wal) \subseteq {f \in wal.frames : f.doomed}
    BY DEF RejectedTail, ReplayFrames
  <2> QED
    BY <2>1, <2>2 DEF Bad
<1> HIDE DEF bad
<1>3. CASE bad = {}
  <2>1. x = wal
    BY <1>3 DEF RecoveredWal, bad
  <2> QED
    BY <1>2, <1>3, <2>1 DEF FrameInv, SnapInv, TypeOK, WalFile
<1>4. CASE bad # {}
  <2> DEFINE b == CHOOSE f \in bad : TRUE
  <2>1. b \in bad
    BY <1>4
  <2>2. x = RollbackTo(wal, b.id)
    BY <1>4 DEF RecoveredWal, bad
  <2> HIDE DEF b
  <2>3. /\ x.frames = {f \in wal.frames : f.id < b.id}
        /\ x.gen = wal.gen /\ x.end = b.id /\ x.synced = b.id
    BY <2>2 DEF RollbackTo, SetLen, TypeOK, WalFile
  <2>4. b \in wal.frames /\ Bad(b) /\ b.id \in Nat /\ wal.end \in Nat
    BY <1>1, <1>2, <2>1 DEF TypeOK, WalFile
  <2>5. b.id < wal.end /\ b.id >= snap.offset /\ \A g \in wal.frames : g.id <= b.id
    BY <2>4 DEF FrameInv
  <2>6. ASSUME NEW f \in wal.frames PROVE f.id < b.id <=> ~Bad(f)
    <3>1. CASE Bad(f)
      <4>1. b.id <= f.id
        BY <2>4, <3>1 DEF FrameInv
      <4> QED
        BY <1>1, <2>4, <3>1, <4>1
    <3>2. CASE ~Bad(f)
      <4>1. f.id # b.id
        BY <2>4, <3>2 DEF FrameInv
      <4> QED
        BY <1>1, <2>4, <2>5, <3>2, <4>1
    <3> QED
      BY <3>1, <3>2
  <2> QED
    BY <2>3, <2>4, <2>5, <2>6
<1> QED
  BY <1>3, <1>4

\* Recovery rolls a torn or rejected tail back and serves the rest.
LEMMA RecoverFiles ==
  ASSUME TypeOK, TypeOK', LockInv, FileInv, Recover
  PROVE  FileInv' /\ Recoverable' = Recoverable
<1>1. /\ phase = "down" /\ mem' = Recovered(snap, wal) /\ wal' = RecoveredWal(snap, wal)
      /\ UNCHANGED <<poisoned, pc, job, spc, cap, snap, nextId, nextGen, acked>>
  BY DEF Recover, writerVars, saverVars, snapVars, counters
<1>2. spc' = "idle" /\ \A v \in Writer : pc'[v] = "idle"
  BY <1>1 DEF LockInv
<1>3. \A v \in Writer : ~Active(v)' /\ ~Pending(v)' /\ ~Holding(v)'
  BY <1>2 DEF Active, Pending, Holding
<1>6. /\ \A f : f \in wal'.frames <=> f \in wal.frames /\ ~Bad(f)
      /\ wal'.gen = wal.gen /\ wal'.end <= wal.end /\ snap.offset <= wal'.end
      /\ \A f \in wal'.frames : f.id < wal'.end
  BY <1>1, RecoveredWalIs DEF FileInv
<1>7. FrameInv'
  <2>1. wal'.end <= nextId'
    BY <1>1, <1>6 DEF FileInv, FrameInv, TypeOK, WalFile
  <2>2. \A f, g \in wal'.frames : f.id = g.id => f = g
    BY <1>6 DEF FileInv, FrameInv
  <2> QED
    BY <1>2, <1>3, <1>6, <2>1, <2>2 DEF FrameInv, Bad
<1>8. SnapInv'
  BY <1>1, <1>6 DEF FileInv, SnapInv
<1>9. Recoverable' = Recoverable
  <2>1. BadLast(wal) /\ BadLast(wal')
    BY <1>6 DEF FileInv, FrameInv, BadLast, Bad
  <2> QED
    BY <1>1, <1>6, <2>1, SameGood DEF Recoverable
<1>10. CaptureInv'
  BY <1>2 DEF CaptureInv
<1>11. LiveInv'
  <2>1. mem' = Recoverable
    BY <1>1 DEF Recoverable
  <2> QED
    BY <1>1, <1>3, <1>9, <2>1 DEF FileInv, LiveInv
<1> QED
  BY <1>7, <1>8, <1>9, <1>10, <1>11 DEF FileInv

\* Every step of a mutation preserves the file invariants.
LEMMA WriterStepFiles ==
  ASSUME TypeOK, TypeOK', LockInv, LockInv', FileInv, NEW w \in Writer, WriterStep(w)
  PROVE  FileInv'
<1>1. CASE ApplyFails(w)
  <2>1. /\ UNCHANGED <<wal, snap, nextId, nextGen, mem, acked, phase, spc, cap>>
        /\ Reply(w) /\ poisoned'
    BY <1>1 DEF ApplyFails, walVars, snapVars, counters, lifeVars, saverVars
  <2> QED
    BY <2>1, PoisonFiles
<1>2. CASE AppendStart(w)
  BY <1>2, BeforeAppendFiles, AppendStartFiles
<1> QED
  BY <1>1, <1>2, BeforeAppendFiles, AppendDoneFiles, SyncDoneFiles, UndoFiles, ApplyFiles,
     CompleteFiles
  DEF WriterStep

\* Every step of a save preserves the file invariants.
LEMMA SaverStepFiles ==
  ASSUME TypeOK, TypeOK', LockInv, FileInv, SaverStep
  PROVE  FileInv' /\ Recoverable' = Recoverable
<1>1. ASSUME NEW k \in Key, SaveLockGate(k) PROVE FileInv' /\ Recoverable' = Recoverable
  <2>1. UNCHANGED <<pc, job, wal, snap, nextId, nextGen, mem, acked, phase, poisoned, spc, cap>>
    BY <1>1 DEF SaveLockGate, LockBarrier, writerVars, walVars, snapVars, counters, lifeVars,
                saverVars
  <2> QED
    BY <2>1, QuietStep DEF TypeOK, Capturing
<1>2. CASE SyncSnapshotDir
  <2>1. /\ UNCHANGED <<pc, job, wal, snap, nextId, nextGen, mem, acked, phase, poisoned>>
        /\ spc = "installed" /\ (spc' = "idle" \/ (spc' = "durable" /\ cap' = cap))
    BY <1>2 DEF SyncSnapshotDir, SaveEnds, writerVars, walVars, counters, lifeVars
  <2> QED
    BY <2>1, QuietStep DEF TypeOK, Capturing
<1>3. CASE CheckBeforeRotate
  <2>1. /\ UNCHANGED <<pc, job, wal, snap, nextId, nextGen, mem, acked, phase, poisoned>>
        /\ spc = "durable" /\ (spc' = "idle" \/ (spc' = "rotate" /\ cap' = cap))
    BY <1>3 DEF CheckBeforeRotate, SaveEnds, writerVars, walVars, snapVars, counters, lifeVars
  <2> QED
    BY <2>1, QuietStep DEF TypeOK, Capturing
<1>4. CASE SyncJournalDir \/ PoisonAfterRotate
  <2>1. /\ UNCHANGED <<pc, job, wal, snap, nextId, nextGen, mem, acked, phase>>
        /\ (poisoned => poisoned') /\ spc' \in {"idle", "failed"}
    BY <1>4 DEF SyncJournalDir, PoisonAfterRotate, SaveEnds, writerVars, walVars, snapVars,
                counters, lifeVars
  <2> QED
    BY <2>1, QuietStep DEF TypeOK, Capturing
<1> QED
  BY <1>1, <1>2, <1>3, <1>4, CaptureFiles, InstallFiles, RotateFiles DEF SaverStep

\* Every step of the shutdown preserves the file invariants.
LEMMA CloserStepFiles ==
  ASSUME TypeOK, TypeOK', FileInv, CloserStep
  PROVE  FileInv' /\ Recoverable' = Recoverable
<1>1. CASE JoinSaver
  <2>1. UNCHANGED <<pc, job, wal, snap, nextId, nextGen, mem, acked, phase, poisoned, spc, cap>>
    BY <1>1 DEF JoinSaver, writerVars, walVars, snapVars, counters, saverVars
  <2> QED
    BY <2>1, QuietStep DEF TypeOK, Capturing
<1>2. ASSUME NEW k \in Key, CloseLockGate(k) PROVE FileInv' /\ Recoverable' = Recoverable
  <2>1. UNCHANGED <<pc, job, wal, snap, nextId, nextGen, mem, acked, phase, poisoned, spc, cap>>
    BY <1>2 DEF CloseLockGate, LockBarrier, writerVars, walVars, snapVars, counters, lifeVars,
                saverVars
  <2> QED
    BY <2>1, QuietStep DEF TypeOK, Capturing
<1>3. CASE FinalizeShutdown
  <2>1. /\ UNCHANGED <<pc, job, snap, nextId, nextGen, mem, acked, phase, spc, cap>>
        /\ wal' \in {wal, Synced(wal)} /\ (poisoned => poisoned')
    BY <1>3 DEF FinalizeShutdown, SyncWal, writerVars, walVars, snapVars, counters, saverVars
  <2>2. wal'.frames = wal.frames /\ wal'.gen = wal.gen /\ wal'.end = wal.end
    BY <2>1 DEF Synced, TypeOK, WalFile
  <2> QED
    BY <2>1, <2>2, QuietStep DEF TypeOK, Capturing
<1>4. CASE Exit
  BY <1>4, VanishFiles DEF Exit, walVars, snapVars, counters
<1> QED
  BY <1>1, <1>2, <1>3, <1>4 DEF CloserStep

\* Every step but a power loss keeps the file invariant.
LEMMA NextFiles ==
  ASSUME TypeOK, TypeOK', LockInv, LockInv', FileInv, [Next]_vars, ~PowerLoss
  PROVE  FileInv'
<1>1. ASSUME NEW w \in Writer, NEW keys \in KeySets, NEW checked \in BOOLEAN,
             NEW doomed \in BOOLEAN, Begin(w, keys, checked, doomed)
      PROVE  FileInv'
  <2>1. /\ UNCHANGED <<wal, snap, nextId, nextGen, mem, acked, phase, poisoned, spc, cap>>
        /\ pc[w] = "idle" /\ pc' = [pc EXCEPT ![w] = "gates"]
        /\ \A v \in Writer : v # w => pc'[v] = pc[v] /\ job'[v] = job[v]
    BY <1>1 DEF Begin, walVars, snapVars, counters, lifeVars, saverVars, TypeOK
  <2>2. ~Active(w) /\ ~Active(w)'
    BY <2>1 DEF Active, TypeOK
  <2> QED
    BY <2>1, <2>2, QuietStep DEF TypeOK, Capturing
<1>2. ASSUME NEW w \in Writer, WriterStep(w) PROVE FileInv'
  BY <1>2, WriterStepFiles
<1>3. CASE FsyncWal
  <2>1. /\ UNCHANGED <<pc, job, snap, nextId, nextGen, mem, acked, phase, spc, cap>>
        /\ wal' \in {wal, Synced(wal)} /\ (poisoned => poisoned')
    BY <1>3 DEF FsyncWal, SyncWal, writerVars, walVars, snapVars, counters, saverVars, lifeVars
  <2>2. wal'.frames = wal.frames /\ wal'.gen = wal.gen /\ wal'.end = wal.end
    BY <2>1 DEF Synced, TypeOK, WalFile
  <2> QED
    BY <2>1, <2>2, QuietStep DEF TypeOK, Capturing
<1>4. CASE SaveBegin \/ BeginShutdown
  <2>1. /\ UNCHANGED <<pc, job, wal, snap, nextId, nextGen, mem, acked, phase, poisoned, cap>>
        /\ spc' \in {spc, "barrier"}
    BY <1>4 DEF SaveBegin, BeginShutdown, writerVars, walVars, snapVars, counters, saverVars,
                lifeVars
  <2> QED
    BY <2>1, QuietStep DEF TypeOK, Capturing
<1>5. CASE SaverStep
  BY <1>5, SaverStepFiles
<1>6. CASE CloserStep
  BY <1>6, CloserStepFiles
<1>7. CASE ProcessCrash
  BY <1>7, VanishFiles DEF ProcessCrash, walVars, snapVars, counters
<1>8. CASE Recover
  BY <1>8, RecoverFiles
<1>9. CASE UNCHANGED vars
  <2>1. UNCHANGED <<pc, job, wal, snap, nextId, nextGen, mem, acked, phase, poisoned, spc, cap>>
    BY <1>9 DEF vars
  <2> QED
    BY <2>1, QuietStep DEF TypeOK, Capturing
<1> QED
  BY <1>1, <1>2, <1>3, <1>4, <1>5, <1>6, <1>7, <1>8, <1>9 DEF Next

-----------------------------------------------------------------------------
(* The theorems                                                            *)

\* A fresh store satisfies the inductive invariant.
LEMMA InitInv == Init => JournalInv
<1> SUFFICES ASSUME Init PROVE JournalInv
  OBVIOUS
<1>1. TypeOK
  BY InitType
<1>2. /\ wal.frames = {} /\ wal.end = 1 /\ wal.gen = 1 /\ nextId = 1 /\ nextGen = 2
      /\ snap = NoSnapshot /\ snap.gen = NoGen /\ snap.offset = 0 /\ spc = "idle"
      /\ phase = "up" /\ mem = EmptyImage /\ acked = EmptyImage
      /\ \A w \in Writer : pc[w] = "idle" /\ job[w] = NoJob
  BY DEF Init, NoSnapshot
<1>3. LockInv
  BY <1>2 DEF LockInv, Active, Holding, NoJob
<1>4. FrameInv
  BY <1>2 DEF FrameInv, Active, Holding
<1>5. SnapInv
  BY <1>2 DEF SnapInv, NoSnapshot, EmptyImage
<1>6. CaptureInv
  BY <1>2 DEF CaptureInv
<1>7. LiveInv
  <2>1. ASSUME NEW k \in Key, NEW i PROVE i \notin Recoverable[k]
    BY <1>1, <1>2, <1>4, <1>5, RecoverableIs DEF Rebuilt, NoSnapshot, EmptyImage
  <2> QED
    BY <1>2, <2>1 DEF LiveInv, EmptyImage, Pending
<1> QED
  BY <1>1, <1>3, <1>4, <1>5, <1>6, <1>7 DEF JournalInv

\* Only a power loss is counted as one, and the count never goes back.
LEMMA PowerCounts ==
  ASSUME TypeOK, [Next]_vars, faults'.power = 0
  PROVE  faults.power = 0 /\ ~PowerLoss
<1> DEFINE Same == faults'.power = faults.power
<1>0. faults \in [proc : Nat, power : Nat, io : Nat, saves : Nat]
  BY DEF TypeOK
<1>1. ASSUME IoError \/ NoError PROVE Same
  BY <1>0, <1>1 DEF IoError, NoError
<1>2. ~PowerLoss
  BY <1>0 DEF PowerLoss
<1> SUFFICES Same
  BY <1>2
<1>3. ASSUME NEW w \in Writer, WriterStep(w) PROVE Same
  <2>1. ASSUME NEW k \in Key, LockGate(w, k) \/ Apply(w, k) PROVE UNCHANGED faults
    BY <2>1 DEF LockGate, Apply
  <2>2. CASE PrepareJournaled(w) \/ AppendStart(w) \/ AppendDone(w) \/ SyncDone(w)
    BY <2>2 DEF PrepareJournaled, AppendStart, AppendDone, SyncDone
  <2>3. CASE AppendFails(w) \/ Reject(w)
    BY <1>1, <2>3 DEF AppendFails, Reject, RollbackDone, RollbackFails
  <2>4. CASE ApplyFails(w) \/ Complete(w)
    BY <1>1, <2>4 DEF ApplyFails, Complete
  <2> QED
    BY <1>3, <2>1, <2>2, <2>3, <2>4 DEF WriterStep
<1>4. CASE SaverStep
  <2>1. ASSUME NEW k \in Key, SaveLockGate(k) PROVE UNCHANGED faults
    BY <2>1 DEF SaveLockGate, LockBarrier
  <2>2. CASE Capture \/ Install \/ SyncSnapshotDir
    BY <1>1, <2>2 DEF Capture, Install, SyncSnapshotDir
  <2>3. CASE CheckBeforeRotate \/ RotateAfter \/ SyncJournalDir \/ PoisonAfterRotate
    BY <1>1, <2>3 DEF CheckBeforeRotate, RotateAfter, SyncJournalDir, PoisonAfterRotate
  <2> QED
    BY <1>4, <2>1, <2>2, <2>3 DEF SaverStep
<1>5. CASE CloserStep
  <2>1. ASSUME NEW k \in Key, CloseLockGate(k) PROVE UNCHANGED faults
    BY <2>1 DEF CloseLockGate, LockBarrier
  <2>2. CASE JoinSaver \/ FinalizeShutdown \/ Exit
    BY <1>1, <2>2 DEF JoinSaver, FinalizeShutdown, Exit
  <2> QED
    BY <1>5, <2>1, <2>2 DEF CloserStep
<1>6. CASE FsyncWal \/ SaveBegin \/ BeginShutdown
  BY <1>0, <1>1, <1>6 DEF FsyncWal, SaveBegin, BeginShutdown
<1>7. CASE ProcessCrash \/ Recover
  BY <1>0, <1>7 DEF ProcessCrash, Recover
<1>8. ASSUME NEW w \in Writer, NEW keys \in KeySets, NEW checked \in BOOLEAN,
             NEW doomed \in BOOLEAN, Begin(w, keys, checked, doomed)
      PROVE  UNCHANGED faults
  BY <1>8 DEF Begin
<1>9. CASE UNCHANGED vars
  BY <1>9 DEF vars
<1> QED
  BY <1>2, <1>3, <1>4, <1>5, <1>6, <1>7, <1>8, <1>9 DEF Next

\* JournalInv is inductive as long as the power stays on.
LEMMA NextInv ==
  ASSUME JournalInv, [Next]_vars, ~PowerLoss
  PROVE  JournalInv'
<1>1. TypeOK'
  BY NextType DEF JournalInv, CaptureInv, CaptureTyped
<1>2. LockInv'
  BY NextLocks DEF JournalInv
<1>3. FileInv'
  BY <1>1, <1>2, NextFiles DEF JournalInv, FileInv
<1> QED
  BY <1>1, <1>2, <1>3 DEF JournalInv, FileInv

\* Until the first power loss the inductive invariant of the journal holds:
\* gates and journal lock, frames, snapshot, capture and memory fit together.
LEMMA HoldsUntilPowerLoss == Spec => [](faults.power = 0 => JournalInv)
<1>1. Init => (faults.power = 0 => JournalInv)
  BY InitInv
<1>2. TypeOK /\ (faults.power = 0 => JournalInv) /\ [Next]_vars
        => (faults.power = 0 => JournalInv)'
  BY PowerCounts, NextInv
<1> QED
  BY <1>1, <1>2, TypeCorrect, PTL DEF Spec

-----------------------------------------------------------------------------
(* Shutdown                                                                *)

\* Behind the barrier of the saver or of the closer every writer is idle or
\* waits for a gate.
LEMMA BarrierWaits ==
  ASSUME TypeOK, LockInv, NEW a \in {Saver, Closer}, BarrierHeld(a), NEW w \in Writer
  PROVE  pc[w] \in {"idle", "gates"}
<1>1. SUFFICES ASSUME pc[w] = "prepared" \/ Active(w) PROVE FALSE
  BY DEF TypeOK, Active
<1>2. PICK k \in job[w].keys : TRUE
  BY <1>1 DEF LockInv, Active
<1>3. k \in Key
  BY <1>2 DEF TypeOK, Job
<1> QED
  BY <1>1, <1>2, <1>3, WriterAssumption DEF LockInv, BarrierHeld

\* A step of a mutation: once the final sync is done a writer can only lock a
\* gate, and then finds the fence.
LEMMA WriterStepShutdown ==
  ASSUME TypeOK, ShutdownInv, NEW w \in Writer, WriterStep(w)
  PROVE  ShutdownInv' /\ (cpc = "synced" => wal' = wal /\ acked' = acked)
<1>1. UNCHANGED <<phase, accepting, cpc, spc>>
  <2>1. ASSUME NEW k \in Key, LockGate(w, k) \/ Apply(w, k)
        PROVE  UNCHANGED <<phase, accepting, cpc, spc>>
    BY <2>1 DEF LockGate, Apply, lifeVars, saverVars
  <2>2. CASE PrepareJournaled(w) \/ AppendStart(w) \/ AppendDone(w) \/ SyncDone(w)
    BY <2>2 DEF PrepareJournaled, AppendStart, AppendDone, SyncDone, lifeVars, saverVars
  <2>3. CASE AppendFails(w) \/ Reject(w) \/ ApplyFails(w) \/ Complete(w)
    BY <2>3 DEF AppendFails, Reject, ApplyFails, Complete, lifeVars, saverVars
  <2> QED
    BY <2>1, <2>2, <2>3 DEF WriterStep
<1>2. CASE cpc # "synced"
  BY <1>1, <1>2 DEF ShutdownInv
<1>3. CASE cpc = "synced"
  <2>1. pc[w] \in {"idle", "gates"} /\ ~accepting
    BY <1>3 DEF ShutdownInv
  <2>2. PrepareJournaled(w) \/ \E k \in Key : LockGate(w, k)
    BY <2>1 DEF WriterStep, AppendStart, AppendDone, SyncDone, AppendFails, Apply, Reject,
                ApplyFails, Complete
  <2>3. UNCHANGED <<wal, acked>>
    BY <2>2 DEF PrepareJournaled, LockGate, walVars
  <2>4. \A v \in Writer : pc'[v] \in {"idle", "gates"}
    <3>1. CASE PrepareJournaled(w)
      <4>1. Reply(w)
        BY <2>1, <3>1 DEF PrepareJournaled, Admitted
      <4> QED
        BY <1>3, <4>1, ReplyMoves DEF ShutdownInv
    <3>2. CASE \E k \in Key : LockGate(w, k)
      BY <1>3, <3>2 DEF ShutdownInv, LockGate, writerVars
    <3> QED
      BY <2>2, <3>1, <3>2
  <2> QED
    BY <1>1, <1>3, <2>3, <2>4 DEF ShutdownInv
<1> QED
  BY <1>2, <1>3

\* Every step keeps the order of the shutdown, and after the final sync none
\* changes the journal or acknowledges a mutation.
LEMMA NextShutdown ==
  ASSUME TypeOK, LockInv, ShutdownInv, [Next]_vars
  PROVE  ShutdownInv' /\ (cpc = "synced" /\ phase' = "up" => wal' = wal /\ acked' = acked)
<1> DEFINE Goal ==
      ShutdownInv' /\ (cpc = "synced" /\ phase' = "up" => wal' = wal /\ acked' = acked)
<1>1. CASE cpc = "idle" /\ cpc' = "idle"
  BY <1>1 DEF ShutdownInv
<1>2. ASSUME NEW w \in Writer, NEW keys \in KeySets, NEW checked \in BOOLEAN,
             NEW doomed \in BOOLEAN, Begin(w, keys, checked, doomed)
      PROVE  Goal
  BY <1>1, <1>2 DEF Begin, lifeVars, ShutdownInv
<1>3. ASSUME NEW w \in Writer, WriterStep(w) PROVE Goal
  BY <1>3, WriterStepShutdown
<1>4. CASE FsyncWal
  <2>1. UNCHANGED <<phase, accepting, cpc, spc, pc, acked>>
    BY <1>4 DEF FsyncWal, lifeVars, saverVars, writerVars
  <2>2. cpc = "synced" => wal' = wal
    <3>1. wal.synced < wal.end \/ wal' = wal
      BY <1>4 DEF FsyncWal, walVars
    <3>2. cpc = "synced" => wal.synced = wal.end
      BY DEF ShutdownInv
    <3>3. wal.synced \in Nat /\ wal.end \in Nat
      BY DEF TypeOK, WalFile
    <3> QED
      BY <3>1, <3>2, <3>3
  <2> QED
    BY <2>1, <2>2 DEF ShutdownInv
<1>5. CASE SaveBegin
  BY <1>1, <1>5 DEF SaveBegin, lifeVars
<1>6. CASE SaverStep
  <2>1. UNCHANGED <<phase, accepting, cpc>> /\ spc # "idle"
    <3>1. ASSUME NEW k \in Key, SaveLockGate(k) PROVE UNCHANGED <<phase, accepting, cpc>> /\ spc # "idle"
      BY <3>1 DEF SaveLockGate, LockBarrier, lifeVars
    <3> QED
      BY <1>6, <3>1 DEF SaverStep, Capture, Install, SyncSnapshotDir, CheckBeforeRotate, RotateAfter,
                   SyncJournalDir, PoisonAfterRotate, lifeVars
  <2> QED
    BY <2>1 DEF ShutdownInv
<1>7. CASE BeginShutdown
  BY <1>7 DEF BeginShutdown, ShutdownInv
<1>8. CASE CloserStep
  <2>1. CASE JoinSaver
    BY <2>1 DEF JoinSaver, saverVars, ShutdownInv
  <2>2. ASSUME NEW k \in Key, CloseLockGate(k) PROVE Goal
    BY <2>2 DEF CloseLockGate, LockBarrier, lifeVars, writerVars, saverVars, walVars, ShutdownInv
  <2>3. CASE FinalizeShutdown
    <3>1. /\ phase = "up" /\ cpc = "barrier" /\ cpc' \in {"synced", "unsynced"}
          /\ UNCHANGED <<phase, accepting, pc, spc>>
          /\ cpc' = "synced" => wal' = Synced(wal)
      BY <2>3 DEF FinalizeShutdown, SyncWal, writerVars, saverVars
    <3>2. \A w \in Writer : pc[w] \in {"idle", "gates"}
      BY <2>3, BarrierWaits DEF FinalizeShutdown
    <3>3. cpc' = "synced" => wal'.synced = wal'.end
      BY <3>1 DEF Synced, TypeOK, WalFile
    <3> QED
      BY <3>1, <3>2, <3>3 DEF ShutdownInv
  <2>4. CASE Exit
    BY <2>4 DEF Exit, Vanish, ShutdownInv
  <2> QED
    BY <1>8, <2>1, <2>2, <2>3, <2>4 DEF CloserStep
<1>9. CASE ProcessCrash \/ PowerLoss
  BY <1>9 DEF ProcessCrash, PowerLoss, Vanish, ShutdownInv
<1>10. CASE Recover
  BY <1>1, <1>10 DEF Recover, ShutdownInv
<1>11. CASE UNCHANGED vars
  BY <1>11 DEF vars, ShutdownInv
<1> QED
  BY <1>2, <1>3, <1>4, <1>5, <1>6, <1>7, <1>8, <1>9, <1>10, <1>11 DEF Next

\* A fresh store has no shutdown in progress.
LEMMA InitShutdown == Init => LockInv /\ ShutdownInv
<1> SUFFICES ASSUME Init PROVE LockInv /\ ShutdownInv
  OBVIOUS
<1> QED
  BY InitInv DEF JournalInv, Init, ShutdownInv

\* Whatever crashes and fails in between, once finalize_shutdown has synced the
\* journal nothing is appended to it and no mutation is acknowledged until the
\* process has exited.
THEOREM FinalSyncIsFinal == Spec => NothingAfterFinalSync
<1>1. TypeOK /\ LockInv /\ ShutdownInv /\ [Next]_vars => LockInv' /\ ShutdownInv'
  BY NextLocks, NextShutdown
<1>2. TypeOK /\ LockInv /\ ShutdownInv /\ [Next]_vars
        => [cpc = "synced" /\ phase' = "up" => wal' = wal /\ acked' = acked]_vars
  BY NextShutdown
<1> QED
  BY <1>1, <1>2, InitShutdown, TypeCorrect, PTL DEF Spec, NothingAfterFinalSync

-----------------------------------------------------------------------------
(* Order of application                                                    *)

\* Every issue number in memory, in a snapshot or in a journal file was handed
\* out before.
IssuedInv ==
  /\ \A k \in Key : \A i \in mem[k] : i < nextId
  /\ \A s \in Snaps \cup {cap} : \A k \in Key : \A i \in s.image[k] : i < nextId
  /\ \A w \in Wals : \A f \in w.frames : f.id < nextId
  /\ \A w \in Writer : Active(w) => job[w].id < nextId

\* While a mutation is in the journal its keys have no later one applied.
NewestInv ==
  \A w \in Writer : Active(w) => \A k \in job[w].keys : \A i \in mem[k] : i <= job[w].id

OrderInv == IssuedInv /\ NewestInv

\* A step that issues and applies nothing.
LEMMA OrderKeeps ==
  ASSUME TypeOK, TypeOK', OrderInv, UNCHANGED nextId,
         \A k \in Key : \A i \in mem'[k] : i < nextId,
         \A k \in Key : mem'[k] # mem[k] => \A v \in Writer : ~Active(v)',
         \A s \in Snaps' \cup {cap'} : \A k \in Key : \A i \in s.image[k] : i < nextId,
         \A w \in Wals' : \A f \in w.frames : f.id < nextId,
         \A v \in Writer : Active(v)' => Active(v) /\ job'[v] = job[v]
  PROVE  OrderInv'
<1>1. IssuedInv'
  BY DEF OrderInv, IssuedInv
<1>2. ASSUME NEW v \in Writer, Active(v)', NEW k \in job'[v].keys, NEW i \in mem'[k]
      PROVE  i <= job'[v].id
  <2>1. k \in Key
    BY <1>2 DEF TypeOK, Job
  <2> QED
    BY <1>2, <2>1 DEF OrderInv, NewestInv
<1> QED
  BY <1>1, <1>2 DEF OrderInv, NewestInv

\* A step that leaves memory and all files alone.
LEMMA OrderIdle ==
  ASSUME TypeOK, TypeOK', OrderInv,
         UNCHANGED <<nextId, mem, cap, wal, staleWals, snap, staleSnaps>>,
         \A v \in Writer : Active(v)' => Active(v) /\ job'[v] = job[v]
  PROVE  OrderInv'
<1>1. Snaps' = Snaps /\ Wals' = Wals
  BY DEF Snaps, Wals
<1> QED
  BY <1>1, OrderKeeps DEF OrderInv, IssuedInv

\* A step that changes the journal files, to frames that were there before.
LEMMA OrderFrames ==
  ASSUME TypeOK, TypeOK', OrderInv,
         UNCHANGED <<nextId, mem, snap, staleSnaps>>,
         cap' = cap \/ cap' = NoSnapshot,
         \A x \in Wals' : \E w \in Wals : Ids(x.frames) \subseteq Ids(w.frames),
         \A v \in Writer : Active(v)' => Active(v) /\ job'[v] = job[v]
  PROVE  OrderInv'
<1>1. Snaps' = Snaps
  BY DEF Snaps
<1>2. ASSUME NEW x \in Wals', NEW f \in x.frames PROVE f.id < nextId
  <2>1. PICK w \in Wals : Ids(x.frames) \subseteq Ids(w.frames)
    OBVIOUS
  <2>2. f.id \in Ids(w.frames)
    BY <2>1 DEF Ids
  <2> QED
    BY <2>2 DEF OrderInv, IssuedInv, Ids
<1>3. \A k \in Key : \A i \in cap'.image[k] : i < nextId
  BY DEF OrderInv, IssuedInv, NoSnapshot, EmptyImage
<1> QED
  BY <1>1, <1>2, <1>3, OrderKeeps DEF OrderInv, IssuedInv

\* What syncs, rollbacks and power cuts leave of a journal file.
LEMMA FramesShrink ==
  ASSUME NEW w \in WalFile
  PROVE  /\ Ids(Synced(w).frames) = Ids(w.frames)
         /\ \A n \in Nat : Ids(SetLen(w, n).frames) \subseteq Ids(w.frames)
         /\ \A n \in Nat : Ids(RollbackTo(w, n).frames) \subseteq Ids(w.frames)
         /\ \A c \in PowerCut(w) : Ids(c.frames) \subseteq Ids(w.frames)
<1>1. Synced(w).frames = w.frames
  BY DEF Synced, WalFile
<1>2. ASSUME NEW n \in Nat
      PROVE  /\ SetLen(w, n).frames \subseteq w.frames
             /\ RollbackTo(w, n).frames \subseteq w.frames
             /\ KeptUpTo(w, n).frames \subseteq w.frames
  BY DEF SetLen, RollbackTo, KeptUpTo, WalFile
<1>3. ASSUME NEW c \in PowerCut(w), NEW g \in c.frames PROVE \E f \in w.frames : f.id = g.id
  <2>1. w.synced \in Nat /\ \A f \in w.frames : f.id + 1 \in Nat
    BY DEF WalFile, Frame
  <2>2. CASE \E n \in Nat : c = KeptUpTo(w, n)
    BY <1>2, <1>3, <2>2
  <2>3. ASSUME NEW f \in w.frames, c = TornAt(w, f) PROVE \E h \in w.frames : h.id = g.id
    <3>1. c.frames = (KeptUpTo(w, f.id + 1).frames \ {f}) \cup {[f EXCEPT !.whole = FALSE]}
      BY <2>3 DEF TornAt, KeptUpTo, SetLen, WalFile
    <3>2. [f EXCEPT !.whole = FALSE].id = f.id
      BY DEF WalFile, Frame
    <3> QED
      BY <1>2, <1>3, <2>1, <3>1, <3>2
  <2> QED
    BY <2>1, <2>2, <2>3 DEF PowerCut
<1> QED
  BY <1>1, <1>2, <1>3 DEF Ids

\* A successful sync of the journal issues nothing.
LEMMA OrderSynced ==
  ASSUME TypeOK, SyncWal
  PROVE  \A x \in Wals' : \E w \in Wals : Ids(x.frames) \subseteq Ids(w.frames)
<1>1. ASSUME NEW x \in Wals' PROVE x = Synced(wal) \/ x \in staleWals
  BY DEF Wals, SyncWal, StaleAfterSync
<1>2. Ids(Synced(wal).frames) = Ids(wal.frames)
  BY FramesShrink DEF TypeOK
<1> QED
  BY <1>1, <1>2 DEF Wals

\* Starting a frame hands out the next issue number.
LEMMA OrderAppendStart ==
  ASSUME TypeOK, TypeOK', OrderInv, NEW w \in Writer, AppendStart(w)
  PROVE  OrderInv'
<1>1. CASE poisoned
  <2>1. UNCHANGED <<nextId, mem, cap, wal, staleWals, snap, staleSnaps>> /\ Reply(w)
    BY <1>1 DEF AppendStart, saverVars, snapVars
  <2> QED
    BY <2>1, OrderIdle, ReplyMoves DEF Active
<1>2. CASE ~poisoned
  <2>1. /\ pc' = [pc EXCEPT ![w] = "appending"]
        /\ job' = [job EXCEPT ![w].id = nextId]
        /\ wal' = [wal EXCEPT !.frames = @ \cup {FrameOf(job'[w], FALSE)}, !.end = nextId + 1]
        /\ nextId' = nextId + 1
        /\ UNCHANGED <<mem, cap, staleWals, snap, staleSnaps>>
    BY <1>2 DEF AppendStart, saverVars, snapVars
  <2>2. /\ wal'.frames = wal.frames \cup {FrameOf(job'[w], FALSE)}
        /\ FrameOf(job'[w], FALSE).id = nextId /\ job'[w].id = nextId
        /\ \A v \in Writer : v # w => pc'[v] = pc[v] /\ job'[v] = job[v]
    BY <2>1 DEF TypeOK, WalFile, FrameOf, Job
  <2>3. nextId \in Nat
    BY DEF TypeOK
  <2>4. IssuedInv'
    <3>1. ASSUME NEW k \in Key, NEW i \in mem'[k] PROVE i < nextId'
      <4>1. i \in Nat /\ i < nextId
        BY <2>1, <3>1 DEF TypeOK, OrderInv, IssuedInv
      <4> QED
        BY <2>1, <2>3, <4>1
    <3>2. ASSUME NEW s \in Snaps' \cup {cap'}, NEW k \in Key, NEW i \in s.image[k] PROVE i < nextId'
      <4>1. s \in Snaps \cup {cap}
        BY <2>1 DEF Snaps
      <4>2. i \in Nat
        BY <4>1 DEF Snaps, TypeOK, SnapshotFile
      <4>3. i < nextId
        BY <4>1 DEF OrderInv, IssuedInv
      <4> QED
        BY <2>1, <2>3, <4>2, <4>3
    <3>3. ASSUME NEW x \in Wals', NEW f \in x.frames PROVE f.id < nextId'
      <4>1. CASE f = FrameOf(job'[w], FALSE)
        <5>1. f.id = nextId
          BY <2>2, <4>1
        <5> QED
          BY <2>1, <2>3, <5>1
      <4>2. CASE f # FrameOf(job'[w], FALSE)
        <5>1. \E y \in Wals : f \in y.frames
          BY <2>1, <2>2, <3>3, <4>2 DEF Wals
        <5>2. f.id < nextId
          BY <5>1 DEF OrderInv, IssuedInv
        <5>3. f.id \in Nat
          BY <5>1 DEF Wals, TypeOK, WalFile, Frame
        <5> QED
          BY <2>1, <2>3, <5>2, <5>3
      <4> QED
        BY <4>1, <4>2
    <3>4. ASSUME NEW v \in Writer, Active(v)' PROVE job'[v].id < nextId'
      <4>1. CASE v = w
        BY <2>1, <2>2, <2>3, <4>1
      <4>2. CASE v # w
        <5>1. Active(v) /\ job[v].id \in Nat
          BY <2>2, <3>4, <4>2 DEF Active, TypeOK, Job
        <5>2. job[v].id < nextId
          BY <5>1 DEF OrderInv, IssuedInv
        <5> QED
          BY <2>1, <2>2, <2>3, <4>2, <5>1, <5>2
      <4> QED
        BY <4>1, <4>2
    <3> QED
      BY <3>1, <3>2, <3>3, <3>4 DEF IssuedInv
  <2>5. ASSUME NEW v \in Writer, Active(v)', NEW k \in job'[v].keys, NEW i \in mem'[k]
        PROVE  i <= job'[v].id
    <3>1. k \in Key
      BY <2>5 DEF TypeOK, Job
    <3>2. CASE v = w
      <4>1. i \in Nat /\ i < nextId
        BY <2>1, <2>5, <3>1 DEF TypeOK, OrderInv, IssuedInv
      <4> QED
        BY <2>2, <2>3, <3>2, <4>1
    <3>3. CASE v # w
      BY <2>1, <2>2, <2>5, <3>3 DEF OrderInv, NewestInv, Active
    <3> QED
      BY <3>2, <3>3
  <2> QED
    BY <2>4, <2>5 DEF OrderInv, NewestInv
<1> QED
  BY <1>1, <1>2

\* Applying a mutation: the gate keeps every other mutation of the key away, so
\* it is the newest one of the key.
LEMMA OrderApply ==
  ASSUME TypeOK, TypeOK', LockInv, OrderInv, NEW w \in Writer, NEW k \in Key, Apply(w, k)
  PROVE  /\ OrderInv'
         /\ \A i \in Key : \A n \in mem'[i] \ mem[i] : \A j \in mem[i] : j < n
<1>1. /\ UNCHANGED <<pc, job, nextId, cap, wal, staleWals, snap, staleSnaps>>
      /\ pc[w] = "applying" /\ k \in job[w].keys /\ job[w].id \notin mem[k]
      /\ mem' = [mem EXCEPT ![k] = @ \cup {job[w].id}]
  BY DEF Apply, writerVars, saverVars, walVars, snapVars, counters
<1>2. /\ mem'[k] = mem[k] \cup {job[w].id}
      /\ \A i \in Key : i # k => mem'[i] = mem[i]
  BY <1>1 DEF TypeOK
<1>3. Active(w) /\ job[w].id < nextId /\ job[w].id \in Nat
  BY <1>1 DEF Active, OrderInv, IssuedInv, TypeOK, Job
<1>4. Snaps' = Snaps /\ Wals' = Wals /\ \A v \in Writer : Active(v)' <=> Active(v)
  BY <1>1 DEF Snaps, Wals, Active
<1>5. IssuedInv'
  BY <1>1, <1>2, <1>3, <1>4 DEF OrderInv, IssuedInv
<1>6. ASSUME NEW v \in Writer, Active(v)', NEW i \in job'[v].keys, NEW n \in mem'[i]
      PROVE  n <= job'[v].id
  <2>1. i \in Key /\ job'[v] = job[v] /\ Active(v)
    BY <1>1, <1>4, <1>6 DEF TypeOK, Job
  <2>2. CASE n \in mem[i]
    BY <1>6, <2>1, <2>2 DEF OrderInv, NewestInv
  <2>3. CASE n \notin mem[i]
    <3>1. i = k /\ n = job[w].id
      BY <1>2, <1>6, <2>1, <2>3
    <3>2. gate[k] = v /\ gate[k] = w
      BY <1>1, <1>3, <1>6, <2>1, <3>1 DEF LockInv
    <3> QED
      BY <1>3, <2>1, <3>1, <3>2
  <2> QED
    BY <2>2, <2>3
<1>7. ASSUME NEW i \in Key, NEW n \in mem'[i] \ mem[i], NEW j \in mem[i] PROVE j < n
  <2>1. i = k /\ n = job[w].id
    BY <1>2, <1>7
  <2>2. j <= job[w].id /\ j # job[w].id /\ j \in Nat
    BY <1>1, <1>3, <1>7, <2>1 DEF OrderInv, NewestInv, TypeOK
  <2> QED
    BY <1>3, <2>1, <2>2
<1> QED
  BY <1>5, <1>6, <1>7 DEF OrderInv, NewestInv

\* Every step of a mutation keeps the order; all but Apply leave memory alone.
LEMMA OrderWriterStep ==
  ASSUME TypeOK, TypeOK', LockInv, OrderInv, NEW w \in Writer, WriterStep(w)
  PROVE  /\ OrderInv'
         /\ \A i \in Key : \A n \in mem'[i] \ mem[i] : \A j \in mem[i] : j < n
<1>1. ASSUME NEW k \in Key, LockGate(w, k) PROVE OrderInv' /\ mem' = mem
  <2>1. UNCHANGED <<pc, job, nextId, mem, cap, wal, staleWals, snap, staleSnaps>>
    BY <1>1 DEF LockGate, writerVars, saverVars, walVars, snapVars, counters
  <2> QED
    BY <2>1, OrderIdle DEF Active
<1>2. CASE PrepareJournaled(w)
  <2>1. UNCHANGED <<nextId, mem, cap, wal, staleWals, snap, staleSnaps>>
    BY <1>2 DEF PrepareJournaled, saverVars, walVars, snapVars, counters
  <2>2. \A v \in Writer : Active(v)' => Active(v) /\ job'[v] = job[v]
    BY <1>2, ReplyMoves DEF PrepareJournaled, TypeOK, Active
  <2> QED
    BY <2>1, <2>2, OrderIdle
<1>3. CASE AppendStart(w)
  <2>1. mem' = mem
    BY <1>3 DEF AppendStart
  <2> QED
    BY <1>3, <2>1, OrderAppendStart
<1>4. CASE AppendDone(w)
  <2>1. /\ UNCHANGED <<job, nextId, mem, cap, staleWals, snap, staleSnaps>>
        /\ pc[w] = "appending" /\ pc' = [pc EXCEPT ![w] = NextAfterAppend]
        /\ wal' = [wal EXCEPT !.frames = (@ \ {FrameOf(job[w], FALSE)}) \cup {FrameOf(job[w], TRUE)}]
    BY <1>4 DEF AppendDone, saverVars, snapVars, counters
  <2>2. wal'.frames \subseteq wal.frames \cup {FrameOf(job[w], TRUE)}
    BY <2>1 DEF TypeOK, WalFile
  <2>3. FrameOf(job[w], TRUE).id = job[w].id /\ job[w].id < nextId
    BY <2>1 DEF FrameOf, OrderInv, IssuedInv, Active
  <2>4. \A x \in Wals' : \A f \in x.frames : f.id < nextId
    BY <2>1, <2>2, <2>3 DEF Wals, OrderInv, IssuedInv
  <2>5. Snaps' = Snaps /\ \A v \in Writer : Active(v)' => Active(v) /\ job'[v] = job[v]
    BY <2>1 DEF Snaps, Active, TypeOK
  <2> QED
    BY <2>1, <2>4, <2>5, OrderKeeps DEF OrderInv, IssuedInv
<1>5. CASE SyncDone(w)
  <2>1. /\ UNCHANGED <<job, nextId, mem, cap, snap, staleSnaps>> /\ SyncWal
        /\ pc[w] = "syncing" /\ pc' = [pc EXCEPT ![w] = "applying"]
    BY <1>5 DEF SyncDone, saverVars, snapVars, counters
  <2>2. \A v \in Writer : Active(v)' => Active(v) /\ job'[v] = job[v]
    BY <2>1 DEF Active, TypeOK
  <2> QED
    BY <2>1, <2>2, OrderSynced, OrderFrames
<1>6. CASE AppendFails(w) \/ Reject(w)
  <2>1. /\ UNCHANGED <<nextId, mem, cap, snap, staleSnaps>> /\ Reply(w)
        /\ wal' \in {wal, SetLen(wal, job[w].id), RollbackTo(wal, job[w].id)}
        /\ staleWals' \subseteq staleWals
    BY <1>6 DEF AppendFails, Reject, RollbackDone, RollbackFails, StaleAfterSync, saverVars,
                snapVars, counters
  <2>2. job[w].id \in Nat /\ wal \in WalFile
    BY DEF TypeOK, Job
  <2>3. Ids(wal'.frames) \subseteq Ids(wal.frames)
    BY <2>1, <2>2, FramesShrink
  <2>4. \A x \in Wals' : \E y \in Wals : Ids(x.frames) \subseteq Ids(y.frames)
    BY <2>1, <2>3 DEF Wals
  <2>5. \A v \in Writer : Active(v)' => Active(v) /\ job'[v] = job[v]
    BY <2>1, ReplyMoves DEF Active
  <2> QED
    BY <2>1, <2>4, <2>5, OrderFrames
<1>7. CASE ApplyFails(w) \/ Complete(w)
  <2>1. UNCHANGED <<nextId, mem, cap, wal, staleWals, snap, staleSnaps>> /\ Reply(w)
    BY <1>7 DEF ApplyFails, Complete, saverVars, walVars, snapVars, counters
  <2> QED
    BY <2>1, OrderIdle, ReplyMoves DEF Active
<1> QED
  BY <1>1, <1>2, <1>3, <1>4, <1>5, <1>6, <1>7, OrderApply DEF WriterStep

\* Every step of a save keeps the order: it copies memory into the capture, the
\* capture into the snapshot and frames into the rotated journal.
LEMMA OrderSaverStep ==
  ASSUME TypeOK, TypeOK', OrderInv, SaverStep
  PROVE  OrderInv' /\ mem' = mem
<1>1. UNCHANGED <<pc, job, nextId, mem>>
  <2>1. ASSUME NEW k \in Key, SaveLockGate(k) PROVE UNCHANGED <<pc, job, nextId, mem>>
    BY <2>1 DEF SaveLockGate, LockBarrier, writerVars, counters
  <2> QED
    BY <2>1 DEF SaverStep, Capture, Install, SyncSnapshotDir, CheckBeforeRotate, RotateAfter,
                SyncJournalDir, PoisonAfterRotate, writerVars, counters
<1>2. \A v \in Writer : Active(v)' => Active(v) /\ job'[v] = job[v]
  BY <1>1 DEF Active
<1>3. \A s \in Snaps' \cup {cap'} : s \in Snaps \cup {cap, NoSnapshot} \/ s.image = mem
  <2>1. ASSUME NEW k \in Key, SaveLockGate(k) PROVE UNCHANGED <<cap, snap, staleSnaps>>
    BY <2>1 DEF SaveLockGate, LockBarrier, saverVars, snapVars
  <2>2. CASE \E k \in Key : SaveLockGate(k)
    BY <2>1, <2>2 DEF Snaps
  <2>3. CASE Capture
    BY <2>3 DEF Capture, SaveEnds, snapVars, Snaps
  <2>4. CASE Install
    BY <2>4 DEF Install, SaveEnds, snapVars, Snaps
  <2>5. CASE SyncSnapshotDir
    BY <2>5 DEF SyncSnapshotDir, SnapshotDirSynced, SaveEnds, Snaps
  <2>6. CASE CheckBeforeRotate \/ RotateAfter \/ SyncJournalDir \/ PoisonAfterRotate
    BY <2>6 DEF CheckBeforeRotate, RotateAfter, SyncJournalDir, PoisonAfterRotate, SaveEnds,
                snapVars, Snaps
  <2> QED
    BY <2>2, <2>3, <2>4, <2>5, <2>6 DEF SaverStep
<1>4. \A x \in Wals' : \E w \in Wals : Ids(x.frames) \subseteq Ids(w.frames)
  <2>1. ASSUME NEW k \in Key, SaveLockGate(k) PROVE UNCHANGED walVars
    BY <2>1 DEF SaveLockGate, LockBarrier
  <2>2. CASE UNCHANGED walVars
    BY <2>2 DEF walVars, Wals
  <2>3. CASE Capture
    BY <2>2, <2>3, OrderSynced DEF Capture, CheckpointSync
  <2>4. CASE Install \/ SyncSnapshotDir \/ CheckBeforeRotate \/ PoisonAfterRotate
    BY <2>2, <2>4 DEF Install, SyncSnapshotDir, CheckBeforeRotate, PoisonAfterRotate
  <2>5. CASE RotateAfter
    <3>1. CASE wal' = [gen |-> cap.succ, frames |-> Retained, synced |-> wal.end, end |-> wal.end]
               /\ staleWals' = staleWals \cup {wal}
      <4>1. wal'.frames \subseteq wal.frames
        BY <3>1 DEF Retained
      <4>2. Ids(wal'.frames) \subseteq Ids(wal.frames)
        BY <4>1 DEF Ids
      <4> QED
        BY <3>1, <4>2 DEF Wals
    <3> QED
      BY <2>2, <2>5, <3>1 DEF RotateAfter
  <2>6. CASE SyncJournalDir
    BY <2>6 DEF SyncJournalDir, Wals
  <2> QED
    BY <2>1, <2>2, <2>3, <2>4, <2>5, <2>6 DEF SaverStep
<1>5. ASSUME NEW x \in Wals', NEW f \in x.frames PROVE f.id < nextId
  <2>1. PICK w \in Wals : Ids(x.frames) \subseteq Ids(w.frames)
    BY <1>4
  <2>2. f.id \in Ids(w.frames)
    BY <2>1 DEF Ids
  <2> QED
    BY <2>2 DEF OrderInv, IssuedInv, Ids
<1>6. ASSUME NEW s \in Snaps' \cup {cap'}, NEW k \in Key, NEW i \in s.image[k] PROVE i < nextId
  BY <1>3, <1>6 DEF OrderInv, IssuedInv, NoSnapshot, EmptyImage
<1> QED
  BY <1>1, <1>2, <1>5, <1>6, OrderKeeps DEF OrderInv, IssuedInv

\* A process that vanishes leaves the files, or after a power loss what the
\* names may denote of them; nothing new is in them.
LEMMA OrderVanish ==
  ASSUME TypeOK, TypeOK', OrderInv, Exit \/ ProcessCrash \/ PowerLoss
  PROVE  OrderInv'
<1>1. /\ UNCHANGED nextId /\ mem' = EmptyImage /\ cap' = NoSnapshot
      /\ pc' = [w \in Writer |-> "idle"]
  BY DEF Exit, ProcessCrash, PowerLoss, Vanish, counters
<1>2. Snaps' \subseteq Snaps
  BY DEF Exit, ProcessCrash, PowerLoss, snapVars, Snaps
<1>3. \A x \in Wals' : \E w \in Wals : Ids(x.frames) \subseteq Ids(w.frames)
  <2>1. CASE PowerLoss
    <3>1. PICK w \in Wals : wal' \in PowerCut(w)
      BY <2>1 DEF PowerLoss, Wals
    <3>2. w \in WalFile /\ Wals' = {wal'}
      BY <2>1 DEF PowerLoss, Wals, TypeOK
    <3> QED
      BY <3>1, <3>2, FramesShrink
  <2>2. CASE UNCHANGED walVars
    BY <2>2 DEF walVars, Wals
  <2> QED
    BY <2>1, <2>2 DEF Exit, ProcessCrash
<1>4. ASSUME NEW x \in Wals', NEW f \in x.frames PROVE f.id < nextId
  <2>1. PICK w \in Wals : Ids(x.frames) \subseteq Ids(w.frames)
    BY <1>3
  <2>2. f.id \in Ids(w.frames)
    BY <2>1 DEF Ids
  <2> QED
    BY <2>2 DEF OrderInv, IssuedInv, Ids
<1>5. \A k \in Key : mem'[k] = {} /\ cap'.image[k] = {}
  BY <1>1 DEF EmptyImage, NoSnapshot
<1>6. \A v \in Writer : ~Active(v)'
  BY <1>1 DEF Active
<1> QED
  BY <1>1, <1>2, <1>4, <1>5, <1>6, OrderKeeps DEF OrderInv, IssuedInv

\* Recovery brings back what the snapshot and the journal hold.
LEMMA OrderRecover ==
  ASSUME TypeOK, TypeOK', LockInv, OrderInv, Recover
  PROVE  OrderInv'
<1>1. /\ UNCHANGED <<nextId, cap, snap, staleSnaps, pc, job>> /\ phase = "down"
      /\ mem' = Recovered(snap, wal) /\ wal' = RecoveredWal(snap, wal)
      /\ staleWals' \subseteq staleWals
  BY DEF Recover, StaleAfterSync, saverVars, snapVars, counters, writerVars
<1>2. \A v \in Writer : ~Active(v)'
  BY <1>1 DEF LockInv, Active
<1>3. ASSUME NEW k \in Key, NEW i \in mem'[k] PROVE i < nextId
  <2>1. i \in snap.image[k] \/ \E f \in wal.frames : i = f.id
    BY <1>1, <1>3 DEF Recovered, ReplayFrames, Ids
  <2> QED
    BY <2>1 DEF OrderInv, IssuedInv, Snaps, Wals
<1>4. Ids(wal'.frames) \subseteq Ids(wal.frames)
  <2> DEFINE bad == {f \in wal.frames : ~f.whole} \cup RejectedTail(snap, wal)
             b == CHOOSE f \in bad : TRUE
  <2>1. bad = {} => wal' = wal
    BY <1>1 DEF RecoveredWal
  <2>2. bad # {} => wal' = RollbackTo(wal, b.id)
    BY <1>1 DEF RecoveredWal
  <2>3. bad # {} => b.id \in Nat
    <3>1. bad \subseteq wal.frames
      BY DEF RejectedTail, ReplayFrames
    <3>2. bad # {} => b \in bad
      OBVIOUS
    <3> QED
      BY <3>1, <3>2 DEF TypeOK, WalFile, Frame
  <2> HIDE DEF bad, b
  <2>4. bad # {} => Ids(RollbackTo(wal, b.id).frames) \subseteq Ids(wal.frames)
    BY <2>3, FramesShrink DEF TypeOK
  <2> QED
    BY <2>1, <2>2, <2>4
<1>5. ASSUME NEW x \in Wals', NEW f \in x.frames PROVE f.id < nextId
  <2>1. PICK w \in Wals : Ids(x.frames) \subseteq Ids(w.frames)
    BY <1>1, <1>4 DEF Wals
  <2>2. f.id \in Ids(w.frames)
    BY <2>1 DEF Ids
  <2> QED
    BY <2>2 DEF OrderInv, IssuedInv, Ids
<1>6. Snaps' = Snaps
  BY <1>1 DEF Snaps
<1> QED
  BY <1>1, <1>2, <1>3, <1>5, <1>6, OrderKeeps DEF OrderInv, IssuedInv

\* Every step keeps the order, and what it applies to a key while the process
\* is up is later than all that the key has.
LEMMA NextOrder ==
  ASSUME TypeOK, TypeOK', LockInv, OrderInv, [Next]_vars
  PROVE  /\ OrderInv'
         /\ phase = "up" /\ phase' = "up" =>
              \A k \in Key : \A i \in mem'[k] \ mem[k] : \A j \in mem[k] : j < i
<1>1. ASSUME NEW w \in Writer, NEW keys \in KeySets, NEW checked \in BOOLEAN,
             NEW doomed \in BOOLEAN, Begin(w, keys, checked, doomed)
      PROVE  OrderInv' /\ mem' = mem
  <2>1. /\ UNCHANGED <<nextId, mem, cap, wal, staleWals, snap, staleSnaps>>
        /\ pc' = [pc EXCEPT ![w] = "gates"]
        /\ \A v \in Writer : v # w => job'[v] = job[v]
    BY <1>1 DEF Begin, saverVars, walVars, snapVars, counters, TypeOK
  <2>2. \A v \in Writer : Active(v)' => Active(v) /\ job'[v] = job[v]
    BY <2>1 DEF Active, TypeOK
  <2> QED
    BY <2>1, <2>2, OrderIdle
<1>2. CASE FsyncWal
  <2>1. UNCHANGED <<pc, job, nextId, mem, cap, snap, staleSnaps>>
    BY <1>2 DEF FsyncWal, writerVars, saverVars, snapVars, counters
  <2>2. \A v \in Writer : Active(v)' => Active(v) /\ job'[v] = job[v]
    BY <2>1 DEF Active
  <2>3. CASE SyncWal
    BY <2>1, <2>2, <2>3, OrderSynced, OrderFrames
  <2>4. CASE UNCHANGED walVars
    BY <2>1, <2>2, <2>4, OrderIdle DEF walVars
  <2> QED
    BY <1>2, <2>1, <2>3, <2>4 DEF FsyncWal
<1>3. CASE SaveBegin \/ BeginShutdown \/ UNCHANGED vars
  <2>1. UNCHANGED <<pc, job, nextId, mem, cap, wal, staleWals, snap, staleSnaps>>
    BY <1>3 DEF SaveBegin, BeginShutdown, vars, writerVars, saverVars, walVars, snapVars, counters
  <2>2. \A v \in Writer : Active(v)' => Active(v) /\ job'[v] = job[v]
    BY <2>1 DEF Active
  <2> QED
    BY <2>1, <2>2, OrderIdle
<1>4. CASE CloserStep
  <2>1. CASE JoinSaver \/ FinalizeShutdown \/ \E k \in Key : CloseLockGate(k)
    <3>1. UNCHANGED <<pc, job, nextId, mem, cap, snap, staleSnaps>>
      BY <2>1 DEF JoinSaver, FinalizeShutdown, CloseLockGate, LockBarrier, writerVars, saverVars,
                  snapVars, counters
    <3>2. \A v \in Writer : Active(v)' => Active(v) /\ job'[v] = job[v]
      BY <3>1 DEF Active
    <3>3. SyncWal \/ UNCHANGED walVars
      BY <2>1 DEF JoinSaver, FinalizeShutdown, CloseLockGate, LockBarrier
    <3>4. CASE SyncWal
      BY <3>1, <3>2, <3>4, OrderSynced, OrderFrames
    <3>5. CASE UNCHANGED walVars
      BY <3>1, <3>2, <3>5, OrderIdle DEF walVars
    <3> QED
      BY <3>1, <3>3, <3>4, <3>5
  <2>2. CASE Exit
    BY <2>2, OrderVanish DEF Exit, Vanish
  <2> QED
    BY <1>4, <2>1, <2>2 DEF CloserStep
<1>5. CASE ProcessCrash \/ PowerLoss
  BY <1>5, OrderVanish DEF ProcessCrash, PowerLoss, Vanish
<1>6. CASE Recover
  BY <1>6, OrderRecover DEF Recover
<1> QED
  BY <1>1, <1>2, <1>3, <1>4, <1>5, <1>6, OrderWriterStep, OrderSaverStep DEF Next

\* Nothing has been issued in a fresh store.
LEMMA InitOrder == Init => OrderInv
<1> SUFFICES ASSUME Init PROVE OrderInv
  OBVIOUS
<1> QED
  BY DEF Init, OrderInv, IssuedInv, NewestInv, Snaps, Wals, Active, EmptyImage, NoSnapshot

\* The journal gates of a mutation, held from before its append until after its
\* apply, make every key see its mutations in journal order, whatever has
\* crashed or failed before: replay repeats what readers saw.
THEOREM JournalOrder == Spec => AppliedInJournalOrder
<1>1. TypeOK /\ TypeOK' /\ LockInv /\ OrderInv /\ [Next]_vars => LockInv' /\ OrderInv'
  BY NextLocks, NextOrder
<1>2. TypeOK /\ TypeOK' /\ LockInv /\ OrderInv /\ [Next]_vars
        => [phase = "up" /\ phase' = "up" =>
              \A k \in Key : \A i \in mem'[k] \ mem[k] : \A j \in mem[k] : j < i]_vars
  BY NextOrder
<1> QED
  BY <1>1, <1>2, InitShutdown, InitOrder, TypeCorrect, PTL DEF Spec, AppliedInJournalOrder
=============================================================================
