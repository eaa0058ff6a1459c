------------------------------ MODULE Journal ------------------------------
(***************************************************************************)
(* The mutation journal of Lux: how a write becomes durable, how a         *)
(* snapshot retires a journal prefix, and what a restart recovers.         *)
(*                                                                         *)
(*   src/store/mod.rs   prepare / append / apply / complete, the journal   *)
(*                      gates, the poison fence, replay, shutdown          *)
(*   src/disk.rs        Wal: frames, rollback, checkpoint, rotation        *)
(*   src/snapshot.rs    capture, install, rotate                           *)
(*                                                                         *)
(* A mutation is an issue number (id) and the set of keys it changes.  The *)
(* journal is appended to under one lock, so issue numbers grow along the  *)
(* file and stand for its byte offsets: the frame with id i starts at      *)
(* offset i, and a file that ends at offset e holds frames below e.  The   *)
(* state of a key is the set of mutations applied to it; that they are     *)
(* applied in journal order, and never twice, are properties.              *)
(*                                                                         *)
(* The disk keeps, next to the file a name denotes now, the older files    *)
(* the name may denote again after a power loss because no directory sync  *)
(* has made the rename durable.                                            *)
(*                                                                         *)
(* A definition marked "Variant" is a faulty form of the one after it; it  *)
(* is used only to show that a property notices the fault.                 *)
(***************************************************************************)
EXTENDS Integers, FiniteSets

CONSTANTS
  NumKeys,            \* keys, and journal gates: one mutation domain each
  Writer,             \* client threads that mutate
  AlwaysSync,         \* durability policy: TRUE always_sync, FALSE every_second
  FsyncPersistsName,  \* does fsync of a file also make its last rename durable?
  DirSyncMayFail,     \* may sync_directory return an error?
  MaxMutations,       \* bound: mutations issued
  MaxSaves,           \* bound: snapshots attempted
  MaxProcessCrashes,  \* bound: process crashes
  MaxPowerLosses,     \* bound: power losses
  MaxIoErrors         \* bound: failed file operations

ASSUME NumKeysAssumption == NumKeys \in Nat \ {0}

ASSUME FlagsAssumption ==
  /\ AlwaysSync \in BOOLEAN
  /\ FsyncPersistsName \in BOOLEAN
  /\ DirSyncMayFail \in BOOLEAN

ASSUME BoundsAssumption ==
  /\ MaxMutations \in Nat
  /\ MaxSaves \in Nat
  /\ MaxProcessCrashes \in Nat
  /\ MaxPowerLosses \in Nat
  /\ MaxIoErrors \in Nat

Key == 1..NumKeys

Saver  == "saver"    \* the thread that runs a SAVE or the background save
Closer == "closer"   \* the thread that runs the graceful shutdown
Nobody == "nobody"   \* no owner
Owner  == Writer \cup {Saver, Closer, Nobody}

ASSUME WriterAssumption == Writer \cap {Saver, Closer, Nobody} = {}

ASSUME FiniteWriters == IsFiniteSet(Writer)

VARIABLES
  phase,      \* "up": serving, "down": no process
  mem,        \* mem[k]: the mutations applied to key k in memory
  poisoned,   \* Store.journal_poisoned
  accepting,  \* Store.accepting_mutations
  gate,       \* gate[k]: who holds journal_gates[k]
  jlock,      \* who holds the mutex around the Wal
  pc,         \* pc[w]: where writer w is in its mutation
  job,        \* job[w]: the mutation writer w is committing
  spc,        \* where the saver is in save_and_truncate_wal_observed
  cap,        \* the image and checkpoint the saver captured
  cpc,        \* where the closer is in the shutdown
  wal,        \* the journal file: [gen, frames, synced, end]
  staleWals,  \* files that wal.lux may name again after a power loss
  snap,       \* the installed snapshot: [image, gen, offset, succ]
  staleSnaps, \* files that lux.dat may name again after a power loss
  nextId,     \* the next issue number
  nextGen,    \* the next unused journal generation
  acked,      \* acked[k]: mutations of k reported successful to a client
  hardened,   \* mutations whose frame a successful fsync has covered
  faults      \* faults and saves used so far

lifeVars   == <<phase, accepting, cpc>>
writerVars == <<pc, job>>
saverVars  == <<spc, cap>>
walVars    == <<wal, staleWals>>
snapVars   == <<snap, staleSnaps>>
counters   == <<nextId, nextGen>>
vars == <<phase, mem, poisoned, accepting, gate, jlock, pc, job, spc, cap, cpc, wal,
          staleWals, snap, staleSnaps, nextId, nextGen, acked, hardened, faults>>

-----------------------------------------------------------------------------
(* Mutations, frames, files                                                *)

\* journal_gate_indices: a single-key command takes the gate of its key, a
\* command over several keys takes every gate.
KeySets == {{k} : k \in Key} \cup {Key}

\* doomed: the apply phase will reject this command.  Only a checked command
\* may be rejected after it was journaled.
Job == [id : Nat, keys : SUBSET Key, checked : BOOLEAN, doomed : BOOLEAN]

NoJob == [id |-> 0, keys |-> {}, checked |-> FALSE, doomed |-> FALSE]

\* whole: FALSE while only some of the frame's bytes are in the file.
Frame == [id : Nat, keys : SUBSET Key, checked : BOOLEAN, doomed : BOOLEAN,
          whole : BOOLEAN]

FrameOf(j, isWhole) ==
  [id |-> j.id, keys |-> j.keys, checked |-> j.checked, doomed |-> j.doomed,
   whole |-> isWhole]

WalFile == [gen : Nat, frames : SUBSET Frame, synced : Nat, end : Nat]

NoGen == -1      \* the generation in a snapshot that records no checkpoint

SnapshotFile == [image : [Key -> SUBSET Nat], gen : Nat \cup {NoGen},
                 offset : Nat, succ : Nat \cup {NoGen}]

EmptyImage == [k \in Key |-> {}]

NoSnapshot == [image |-> EmptyImage, gen |-> NoGen, offset |-> 0, succ |-> NoGen]

\* File::set_len: the file ends at the given offset.
SetLen(w, offset) ==
  [w EXCEPT !.frames = {f \in @ : f.id < offset},
            !.synced = IF @ < offset THEN @ ELSE offset,
            !.end = offset]

\* Variant: the offset is taken before the previous frame's end.
RollbackTooFar(w, offset) == [SetLen(w, offset - 2) EXCEPT !.synced = offset - 2]

\* Wal::rollback_to: set_len, then sync_all.
RollbackTo(w, offset) == [SetLen(w, offset) EXCEPT !.synced = offset]

\* Wal::fsync.
Synced(w) == [w EXCEPT !.synced = w.end]

\* A successful sync of the journal makes its rename durable too, on a file
\* system that gives this guarantee.
StaleAfterSync == IF FsyncPersistsName THEN {} ELSE staleWals

Ids(frames) == {f.id : f \in frames}

\* What survives a power loss up to an offset is on the medium.
KeptUpTo(w, offset) == [SetLen(w, offset) EXCEPT !.synced = offset]

\* The same with the last frame f torn.
TornAt(w, f) ==
  [KeptUpTo(w, f.id + 1) EXCEPT !.frames = (@ \ {f}) \cup {[f EXCEPT !.whole = FALSE]}]

\* What a power loss leaves of a file: the synced prefix, any number of the
\* frames after it, and possibly a torn one at the end.
PowerCut(w) ==
  LET unsynced == {f \in w.frames : f.id >= w.synced}
  IN  {KeptUpTo(w, w.synced)} \cup {KeptUpTo(w, f.id + 1) : f \in unsynced}
        \cup {TornAt(w, f) : f \in unsynced}

-----------------------------------------------------------------------------
(* Recovery: snapshot::load_for_recovery, then Store::replay_wal           *)

\* Variant: the journal is always replayed from its header.
ReplayFromHeader(s, w) == 0

\* Wal::replay_from: skip the prefix the snapshot contains when the journal
\* still has the generation of the checkpoint.
ReplayOffset(s, w) == IF s.gen = w.gen THEN s.offset ELSE 0

IsLast(f, w) == \A g \in w.frames : g.id <= f.id

\* The frames recovery decodes: an incomplete final frame is dropped.
ReplayFrames(s, w) == {f \in w.frames : f.id >= ReplayOffset(s, w) /\ f.whole}

\* replay_wal: a rejected command is removed if it is the checked tail.
RejectedTail(s, w) ==
  {f \in ReplayFrames(s, w) : f.doomed /\ f.checked /\ IsLast(f, w)}

\* Startup refuses an unrelated generation, a journal shorter than the
\* checkpoint, bytes missing inside the journal, and a command that fails.
Refused(s, w) ==
  \/ s.gen # NoGen /\ w.gen \notin {s.gen, s.succ}
  \/ s.gen = w.gen /\ s.offset > w.end
  \/ \E f \in w.frames : ~f.whole /\ ~IsLast(f, w)
  \/ \E f \in ReplayFrames(s, w) \ RejectedTail(s, w) : f.doomed

\* The state recovery rebuilds: the snapshot image and the replayed frames.
Recovered(s, w) ==
  [k \in Key |-> s.image[k] \cup
     Ids({f \in ReplayFrames(s, w) \ RejectedTail(s, w) : k \in f.keys})]

\* The journal after recovery: a torn or rejected final frame is rolled back.
RecoveredWal(s, w) ==
  LET bad == {f \in w.frames : ~f.whole} \cup RejectedTail(s, w)
  IN  IF bad = {} THEN w ELSE RollbackTo(w, (CHOOSE f \in bad : TRUE).id)

-----------------------------------------------------------------------------
Init ==
  /\ phase = "up"
  /\ mem = EmptyImage
  /\ poisoned = FALSE
  /\ accepting = TRUE
  /\ gate = [k \in Key |-> Nobody]
  /\ jlock = Nobody
  /\ pc = [w \in Writer |-> "idle"]
  /\ job = [w \in Writer |-> NoJob]
  /\ spc = "idle"
  /\ cap = NoSnapshot
  /\ cpc = "idle"
  /\ wal = [gen |-> 1, frames |-> {}, synced |-> 1, end |-> 1]
  /\ staleWals = {}
  /\ snap = NoSnapshot
  /\ staleSnaps = {}
  /\ nextId = 1
  /\ nextGen = 2
  /\ acked = EmptyImage
  /\ hardened = {}
  /\ faults = [proc |-> 0, power |-> 0, io |-> 0, saves |-> 0]

IoError == faults.io < MaxIoErrors /\ faults' = [faults EXCEPT !.io = @ + 1]
NoError == UNCHANGED faults

\* sync_all on the journal: its outcome for the disk and for what is owed.
SyncWal ==
  /\ wal' = Synced(wal)
  /\ staleWals' = StaleAfterSync
  /\ hardened' = hardened \cup Ids(wal.frames)

-----------------------------------------------------------------------------
(* One mutation                                                            *)

\* Variant: only the first gate is released.
ReleaseFirstGate(a) ==
  gate' = [k \in Key |-> IF gate[k] = a /\ k = 1 THEN Nobody ELSE gate[k]]

ReleaseGates(a) == gate' = [k \in Key |-> IF gate[k] = a THEN Nobody ELSE gate[k]]

\* Every guard of the mutation is dropped and its reply is sent.
Reply(w) ==
  /\ ReleaseGates(w)
  /\ jlock' = IF jlock = w THEN Nobody ELSE jlock
  /\ pc' = [pc EXCEPT ![w] = "idle"]
  /\ job' = [job EXCEPT ![w] = NoJob]

\* prepare_journaled_batch: the checks before any lock is taken.
Begin(w, keys, checked, doomed) ==
  /\ phase = "up" /\ pc[w] = "idle"
  /\ nextId + Cardinality({v \in Writer : pc[v] \in {"gates", "prepared"}}) <= MaxMutations
  /\ accepting /\ ~poisoned
  /\ doomed => checked
  /\ pc' = [pc EXCEPT ![w] = "gates"]
  /\ job' = [job EXCEPT ![w] =
               [id |-> 0, keys |-> keys, checked |-> checked, doomed |-> doomed]]
  /\ UNCHANGED <<lifeVars, mem, poisoned, gate, jlock, saverVars, walVars, snapVars,
                 counters, acked, hardened, faults>>

\* Variant: a gate that somebody holds counts as free.
GateIgnored(k) == TRUE

GateFree(k) == gate[k] = Nobody

\* Variant: a mutation locks its gates from the last to the first.
LockedAfter(i, k) == i > k

\* The order in which a mutation locks its gates.
LockedBefore(i, k) == i < k

\* journal_gates[k].lock(); the indices are sorted.
LockGate(w, k) ==
  /\ phase = "up" /\ pc[w] = "gates"
  /\ k \in job[w].keys /\ gate[k] # w /\ GateFree(k)
  /\ \A i \in job[w].keys : LockedBefore(i, k) => gate[i] = w
  /\ gate' = [gate EXCEPT ![k] = w]
  /\ UNCHANGED <<lifeVars, mem, poisoned, jlock, writerVars, saverVars, walVars, snapVars,
                 counters, acked, hardened, faults>>

\* Variant: the shutdown fence is not checked again.
AdmittedIfHealthy == ~poisoned

\* The checks that follow the last gate.
Admitted == accepting /\ ~poisoned

\* prepare_journaled_batch: every gate is held.
PrepareJournaled(w) ==
  /\ phase = "up" /\ pc[w] = "gates"
  /\ \A k \in job[w].keys : gate[k] = w
  /\ \/ /\ Admitted
        /\ pc' = [pc EXCEPT ![w] = "prepared"]
        /\ UNCHANGED <<gate, jlock, job>>
     \/ /\ ~Admitted
        /\ Reply(w)
  /\ UNCHANGED <<lifeVars, mem, poisoned, saverVars, walVars, snapVars, counters,
                 acked, hardened, faults>>

\* append_journal_commands_locked: lock the journal, check its health, start
\* to write the frame.
AppendStart(w) ==
  /\ phase = "up" /\ pc[w] = "prepared" /\ jlock = Nobody
  /\ \/ /\ ~poisoned
        /\ jlock' = w
        /\ pc' = [pc EXCEPT ![w] = "appending"]
        /\ job' = [job EXCEPT ![w].id = nextId]
        /\ wal' = [wal EXCEPT !.frames = @ \cup {FrameOf(job'[w], FALSE)},
                              !.end = nextId + 1]
        /\ nextId' = nextId + 1
        /\ UNCHANGED gate
     \/ /\ poisoned
        /\ Reply(w)
        /\ UNCHANGED <<wal, nextId>>
  /\ UNCHANGED <<lifeVars, mem, poisoned, saverVars, staleWals, snapVars, nextGen,
                 acked, hardened, faults>>

\* Variant: a checked command lets go of the journal before it applies.
JournalNeverKept(w) == FALSE

\* commit_journaled_checked keeps the journal locked until the command's
\* outcome is known; any other mutation releases it before it applies.
KeepsJournal(w) == job[w].checked

\* Variant: always_sync applies before it syncs.
NextAfterAppendUnsynced == "applying"

NextAfterAppend == IF AlwaysSync THEN "syncing" ELSE "applying"

\* append_encoded_frames returns: the frame is complete.
AppendDone(w) ==
  /\ phase = "up" /\ pc[w] = "appending"
  /\ wal' = [wal EXCEPT !.frames =
               (@ \ {FrameOf(job[w], FALSE)}) \cup {FrameOf(job[w], TRUE)}]
  /\ pc' = [pc EXCEPT ![w] = NextAfterAppend]
  /\ jlock' = IF NextAfterAppend = "syncing" \/ KeepsJournal(w) THEN w ELSE Nobody
  /\ UNCHANGED <<lifeVars, mem, poisoned, gate, job, saverVars, staleWals, snapVars,
                 counters, acked, hardened, faults>>

\* syncs_each_append: the frame is durable before the mutation is applied.
SyncDone(w) ==
  /\ phase = "up" /\ pc[w] = "syncing"
  /\ SyncWal
  /\ pc' = [pc EXCEPT ![w] = "applying"]
  /\ jlock' = IF KeepsJournal(w) THEN w ELSE Nobody
  /\ UNCHANGED <<lifeVars, mem, poisoned, gate, job, saverVars, snapVars, counters,
                 acked, faults>>

\* rollback_to removes the writer's own frame, the last one of the file.
RollbackDone(w) ==
  /\ wal' = RollbackTo(wal, job[w].id)
  /\ staleWals' = StaleAfterSync
  /\ UNCHANGED poisoned

\* rollback_to fails, before or after set_len: the journal is poisoned.
RollbackFails(w) ==
  /\ wal' \in {wal, SetLen(wal, job[w].id)}
  /\ poisoned' = TRUE
  /\ UNCHANGED staleWals

\* The write or the sync of the frame fails: the frame is rolled back and the
\* mutation is not applied.
AppendFails(w) ==
  /\ phase = "up" /\ pc[w] \in {"appending", "syncing"}
  /\ IoError
  /\ RollbackDone(w) \/ RollbackFails(w)
  /\ Reply(w)
  /\ UNCHANGED <<lifeVars, mem, saverVars, snapVars, counters, acked, hardened>>

\* The apply closure changes the keys of the mutation one after the other.
Apply(w, k) ==
  /\ phase = "up" /\ pc[w] = "applying" /\ ~job[w].doomed
  /\ k \in job[w].keys /\ job[w].id \notin mem[k]
  /\ \A i \in job[w].keys : i < k => job[w].id \in mem[i]
  /\ mem' = [mem EXCEPT ![k] = @ \cup {job[w].id}]
  /\ UNCHANGED <<lifeVars, poisoned, gate, jlock, writerVars, saverVars, walVars, snapVars,
                 counters, acked, hardened, faults>>

\* commit_journaled_checked: a rejected command removes its own frame while
\* it still holds the journal.
Reject(w) ==
  /\ phase = "up" /\ pc[w] = "applying" /\ job[w].doomed
  /\ \/ RollbackDone(w) /\ NoError
     \/ RollbackFails(w) /\ IoError
  /\ Reply(w)
  /\ UNCHANGED <<lifeVars, mem, saverVars, snapVars, counters, acked, hardened>>

\* commit_prepared: the apply closure of an unchecked mutation fails part-way;
\* dropping the armed JournalCommitGuard poisons the journal.
ApplyFails(w) ==
  /\ phase = "up" /\ pc[w] = "applying" /\ ~job[w].checked
  /\ IoError
  /\ poisoned' = TRUE
  /\ Reply(w)
  /\ UNCHANGED <<lifeVars, mem, saverVars, walVars, snapVars, counters, acked, hardened>>

\* JournalCommitGuard::complete: a journal poisoned in the meantime turns the
\* successful reply into an error.
Complete(w) ==
  /\ phase = "up" /\ pc[w] = "applying" /\ ~job[w].doomed
  /\ \A k \in job[w].keys : job[w].id \in mem[k]
  /\ acked' = [k \in Key |-> IF k \in job[w].keys /\ ~poisoned
                             THEN acked[k] \cup {job[w].id} ELSE acked[k]]
  /\ Reply(w)
  /\ UNCHANGED <<lifeVars, mem, poisoned, saverVars, walVars, snapVars, counters,
                 hardened, faults>>

\* fsync_wal_checked on the every_second timer.
FsyncWal ==
  /\ phase = "up" /\ ~AlwaysSync /\ jlock = Nobody
  /\ \/ wal.synced < wal.end /\ SyncWal /\ UNCHANGED poisoned /\ NoError
     \/ poisoned' = TRUE /\ IoError /\ UNCHANGED <<walVars, hardened>>
  /\ UNCHANGED <<lifeVars, mem, gate, jlock, writerVars, saverVars, snapVars,
                 counters, acked>>

-----------------------------------------------------------------------------
(* with_write_barrier and save_and_truncate_wal_observed                   *)

\* with_write_barrier locks every journal gate in ascending order.
LockBarrier(a, k) ==
  /\ phase = "up" /\ gate[k] = Nobody
  /\ \A i \in Key : i < k => gate[i] = a
  /\ gate' = [gate EXCEPT ![k] = a]
  /\ UNCHANGED <<lifeVars, mem, poisoned, jlock, writerVars, saverVars, walVars, snapVars,
                 counters, acked, hardened, faults>>

\* Variant: the barrier does not wait for mutations that are applying.
BarrierIgnored(a) == TRUE

BarrierHeld(a) == \A k \in Key : gate[k] = a

\* snapshot_guard: one save runs at a time.
SaveBegin ==
  /\ phase = "up" /\ spc = "idle" /\ cpc = "idle" /\ faults.saves < MaxSaves
  /\ spc' = "barrier"
  /\ faults' = [faults EXCEPT !.saves = @ + 1]
  /\ UNCHANGED <<lifeVars, mem, poisoned, gate, jlock, writerVars, cap, walVars, snapVars,
                 counters, acked, hardened>>

SaveLockGate(k) == spc = "barrier" /\ LockBarrier(Saver, k)

\* The save returns, successfully or not.
SaveEnds == spc' = "idle" /\ cap' = NoSnapshot

\* Variant: the checkpoint names an offset that is not yet durable.
CheckpointUnsynced == UNCHANGED <<walVars, hardened>>

\* Wal::checkpoint syncs the journal before its end may be recorded.
CheckpointSync == SyncWal

\* Behind the barrier: checkpoint the journal, dump the shards, and give up
\* if the journal was poisoned.
Capture ==
  /\ phase = "up" /\ spc = "barrier" /\ jlock = Nobody /\ BarrierHeld(Saver)
  /\ ReleaseGates(Saver)
  /\ \/ /\ CheckpointSync /\ NoError
        /\ nextGen' = nextGen + 1
        /\ IF poisoned
           THEN SaveEnds
           ELSE spc' = "write" /\ cap' = [image |-> mem, gen |-> wal.gen,
                                          offset |-> wal.end, succ |-> nextGen]
     \/ IoError /\ SaveEnds /\ UNCHANGED <<walVars, hardened, nextGen>>
  /\ UNCHANGED <<lifeVars, mem, poisoned, jlock, writerVars, snapVars, nextId, acked>>

\* save_entries_observed: write and sync a temporary file, rename it over
\* lux.dat.
Install ==
  /\ phase = "up" /\ spc = "write"
  /\ \/ /\ snap' = cap /\ staleSnaps' = staleSnaps \cup {snap}
        /\ spc' = "installed" /\ UNCHANGED cap /\ NoError
     \/ IoError /\ SaveEnds /\ UNCHANGED snapVars
  /\ UNCHANGED <<lifeVars, mem, poisoned, gate, jlock, writerVars, walVars, counters,
                 acked, hardened>>

\* Variant: the rename of the snapshot is not made durable.
SnapshotDirUnsynced == UNCHANGED staleSnaps

SnapshotDirSynced == staleSnaps' = {}

\* save_entries_observed: sync the directory of lux.dat.
SyncSnapshotDir ==
  /\ phase = "up" /\ spc = "installed"
  /\ \/ SnapshotDirSynced /\ spc' = "durable" /\ UNCHANGED cap /\ NoError
     \/ DirSyncMayFail /\ IoError /\ SaveEnds /\ UNCHANGED staleSnaps
  /\ UNCHANGED <<lifeVars, mem, poisoned, gate, jlock, writerVars, walVars, snap, counters,
                 acked, hardened>>

\* A journal poisoned while the snapshot was written is left untouched.
CheckBeforeRotate ==
  /\ phase = "up" /\ spc = "durable"
  /\ IF poisoned THEN SaveEnds ELSE spc' = "rotate" /\ UNCHANGED cap
  /\ UNCHANGED <<lifeVars, mem, poisoned, gate, jlock, writerVars, walVars, snapVars,
                 counters, acked, hardened, faults>>

\* Variant: the rotated journal starts empty.
NothingRetained == {}

\* The frames a rotation carries over: those after the checkpoint.
Retained == {f \in wal.frames : f.id >= cap.offset}

\* Wal::rotate_after with the journal locked: copy the frames after the
\* checkpoint into a synced file of the authorized generation and rename it
\* over wal.lux; from then on the handle is the new file.
RotateAfter ==
  /\ phase = "up" /\ spc = "rotate" /\ jlock = Nobody
  /\ \/ /\ \A f \in Retained : f.whole
        /\ wal' = [gen |-> cap.succ, frames |-> Retained,
                   synced |-> wal.end, end |-> wal.end]
        /\ staleWals' = staleWals \cup {wal}
        /\ jlock' = Saver
        /\ spc' = "renamed"
        /\ NoError
     \/ /\ IoError \/ ((\E f \in Retained : ~f.whole) /\ NoError)
        /\ spc' = "failed"
        /\ UNCHANGED <<walVars, jlock>>
  /\ UNCHANGED <<lifeVars, mem, poisoned, gate, writerVars, cap, snapVars, counters,
                 acked, hardened>>

\* replace_with: sync the journal's directory, still under the journal lock.
SyncJournalDir ==
  /\ phase = "up" /\ spc = "renamed"
  /\ jlock' = Nobody
  /\ \/ /\ staleWals' = {} /\ hardened' = hardened \cup Ids(wal.frames)
        /\ SaveEnds /\ NoError
     \/ /\ DirSyncMayFail /\ IoError
        /\ spc' = "failed" /\ UNCHANGED <<staleWals, cap, hardened>>
  /\ UNCHANGED <<lifeVars, mem, poisoned, gate, writerVars, wal, snapVars, counters, acked>>

\* truncate_wal: the journal is poisoned after its lock was released.
PoisonAfterRotate ==
  /\ phase = "up" /\ spc = "failed"
  /\ poisoned' = TRUE
  /\ SaveEnds
  /\ UNCHANGED <<lifeVars, mem, gate, jlock, writerVars, walVars, snapVars, counters,
                 acked, hardened, faults>>

-----------------------------------------------------------------------------
(* Graceful shutdown                                                       *)

\* begin_shutdown: fence new mutations.
BeginShutdown ==
  /\ phase = "up" /\ cpc = "idle"
  /\ accepting' = FALSE
  /\ cpc' = "draining"
  /\ UNCHANGED <<phase, mem, poisoned, gate, jlock, writerVars, saverVars, walVars,
                 snapVars, counters, acked, hardened, faults>>

\* join_snapshot_worker: wait for a running save.
JoinSaver ==
  /\ phase = "up" /\ cpc = "draining" /\ spc = "idle"
  /\ cpc' = "barrier"
  /\ UNCHANGED <<phase, accepting, mem, poisoned, gate, jlock, writerVars, saverVars,
                 walVars, snapVars, counters, acked, hardened, faults>>

CloseLockGate(k) == cpc = "barrier" /\ LockBarrier(Closer, k)

\* finalize_shutdown: the final sync behind the barrier.
FinalizeShutdown ==
  /\ phase = "up" /\ cpc = "barrier" /\ jlock = Nobody /\ BarrierHeld(Closer)
  /\ ReleaseGates(Closer)
  /\ \/ SyncWal /\ cpc' = "synced" /\ UNCHANGED poisoned /\ NoError
     \/ poisoned' = TRUE /\ cpc' = "unsynced" /\ IoError /\ UNCHANGED <<walVars, hardened>>
  /\ UNCHANGED <<phase, accepting, mem, jlock, writerVars, saverVars, snapVars, counters,
                 acked>>

-----------------------------------------------------------------------------
(* Crashes and recovery                                                    *)

\* Everything a process keeps in memory is gone.
Vanish ==
  /\ phase' = "down"
  /\ mem' = EmptyImage
  /\ poisoned' = FALSE
  /\ accepting' = TRUE
  /\ gate' = [k \in Key |-> Nobody]
  /\ jlock' = Nobody
  /\ pc' = [w \in Writer |-> "idle"]
  /\ job' = [w \in Writer |-> NoJob]
  /\ spc' = "idle"
  /\ cap' = NoSnapshot
  /\ cpc' = "idle"

\* The process exits after a graceful shutdown.
Exit ==
  /\ phase = "up" /\ cpc \in {"synced", "unsynced"}
  /\ Vanish
  /\ UNCHANGED <<walVars, snapVars, counters, acked, hardened, faults>>

\* The process is killed or panics: the page cache survives.
ProcessCrash ==
  /\ phase = "up" /\ faults.proc < MaxProcessCrashes
  /\ Vanish
  /\ faults' = [faults EXCEPT !.proc = @ + 1]
  /\ UNCHANGED <<walVars, snapVars, counters, acked, hardened>>

\* The mutations of key k that the durability policy owes to its clients:
\* under always_sync all that were acknowledged, under every_second those a
\* successful fsync has covered.
Owed(k) == IF AlwaysSync THEN acked[k] ELSE acked[k] \cap hardened

\* Power loss: unsynced bytes and unsynced renames may be gone, and with them
\* the acknowledged mutations that are not owed.
PowerLoss ==
  /\ faults.power < MaxPowerLosses
  /\ Vanish
  /\ \E w \in {wal} \cup staleWals : wal' \in PowerCut(w)
  /\ snap' \in {snap} \cup staleSnaps
  /\ staleWals' = {} /\ staleSnaps' = {}
  /\ acked' = [k \in Key |-> Owed(k)]
  /\ faults' = [faults EXCEPT !.power = @ + 1]
  /\ UNCHANGED <<counters, hardened>>

\* Runtime::start: load the snapshot, replay the journal, serve.
Recover ==
  /\ phase = "down" /\ ~Refused(snap, wal)
  /\ phase' = "up"
  /\ mem' = Recovered(snap, wal)
  /\ wal' = RecoveredWal(snap, wal)
  /\ staleWals' = IF wal' = wal THEN staleWals ELSE StaleAfterSync
  /\ UNCHANGED <<accepting, cpc, poisoned, gate, jlock, writerVars, saverVars, snapVars,
                 counters, acked, hardened, faults>>

-----------------------------------------------------------------------------
WriterStep(w) ==
  \/ \E k \in Key : LockGate(w, k)
  \/ PrepareJournaled(w)
  \/ AppendStart(w)
  \/ AppendDone(w)
  \/ SyncDone(w)
  \/ AppendFails(w)
  \/ \E k \in Key : Apply(w, k)
  \/ Reject(w)
  \/ ApplyFails(w)
  \/ Complete(w)

SaverStep ==
  \/ \E k \in Key : SaveLockGate(k)
  \/ Capture
  \/ Install
  \/ SyncSnapshotDir
  \/ CheckBeforeRotate
  \/ RotateAfter
  \/ SyncJournalDir
  \/ PoisonAfterRotate

CloserStep ==
  \/ JoinSaver
  \/ \E k \in Key : CloseLockGate(k)
  \/ FinalizeShutdown
  \/ Exit

Next ==
  \/ \E w \in Writer : \E keys \in KeySets, checked, doomed \in BOOLEAN :
       Begin(w, keys, checked, doomed)
  \/ \E w \in Writer : WriterStep(w)
  \/ FsyncWal
  \/ SaveBegin
  \/ SaverStep
  \/ BeginShutdown
  \/ CloserStep
  \/ ProcessCrash
  \/ PowerLoss
  \/ Recover

Spec == Init /\ [][Next]_vars

(* Fairness: a thread that can take a step eventually takes one, and a     *)
(* process that is down is restarted.                                      *)
Fairness ==
  /\ \A w \in Writer : WF_vars(WriterStep(w))
  /\ WF_vars(SaverStep)
  /\ WF_vars(CloserStep)
  /\ WF_vars(Recover)

FairSpec == Spec /\ Fairness

=============================================================================
