------------------------- MODULE JournalProperties -------------------------
(***************************************************************************)
(* What the journal must guarantee: invariants, action properties,         *)
(* liveness, the refinement of DurableStore, and the inductive invariants  *)
(* that the proof modules use.  Writers are interchangeable.               *)
(***************************************************************************)
EXTENDS Journal, TLC

WriterSymmetry == Permutations(Writer)

\* The type invariant: the locks, program counters, files and bookkeeping of
\* the store, the saver and the closer stay within their declared ranges.
TypeOK ==
  /\ phase \in {"up", "down"}
  /\ mem \in [Key -> SUBSET Nat]
  /\ poisoned \in BOOLEAN
  /\ accepting \in BOOLEAN
  /\ gate \in [Key -> Owner]
  /\ jlock \in Owner
  /\ pc \in [Writer -> {"idle", "gates", "prepared", "appending", "syncing", "applying"}]
  /\ job \in [Writer -> Job]
  /\ spc \in {"idle", "barrier", "write", "installed", "durable", "rotate",
              "renamed", "failed"}
  /\ cap \in SnapshotFile
  /\ cpc \in {"idle", "draining", "barrier", "synced", "unsynced"}
  /\ wal \in WalFile
  /\ staleWals \in SUBSET WalFile
  /\ snap \in SnapshotFile
  /\ staleSnaps \in SUBSET SnapshotFile
  /\ nextId \in Nat
  /\ nextGen \in Nat
  /\ acked \in [Key -> SUBSET Nat]
  /\ hardened \in SUBSET Nat
  /\ faults \in [proc : Nat, power : Nat, io : Nat, saves : Nat]

\* A capture that may still be rotated to authorizes a real generation.
CaptureTyped ==
  spc \in {"write", "installed", "durable", "rotate"} => cap.succ \in Nat

\* The files that lux.dat and wal.lux may name after a power loss.
Snaps == {snap} \cup staleSnaps
Wals == {wal} \cup staleWals

\* What a power loss at this moment may leave for recovery.
AfterPowerLoss == Snaps \X UNION {PowerCut(w) : w \in Wals}

\* The mutations recovery would rebuild from the files as they are now, which
\* is what a process crash leaves.
Recoverable == Recovered(snap, wal)

\* Startup never refuses the files that a crash can leave behind: neither the
\* generation check and the checkpoint offset of replay_from nor the failed
\* command check of replay_wal can be hit by crashes alone.
NeverRefused ==
  /\ ~Refused(snap, wal)
  /\ \A o \in AfterPowerLoss : ~Refused(o[1], o[2])

\* A power loss recovers to a prefix of the journal order: no hole across
\* keys, no half of a multi-key mutation, nothing that was rejected.
RecoversPrefix ==
  \A o \in AfterPowerLoss :
    \E n \in 0..nextId : \A k \in Key :
      Recovered(o[1], o[2])[k] = {i \in Recoverable[k] : i < n}

\* Once a client receives a successful reply, the mutation recovers: after a
\* process crash always, after a power loss when the policy owes it
\* (DURABILITY.md, Acknowledgement Guarantee).
AckedRecovers ==
  \A k \in Key :
    /\ acked[k] \subseteq Recoverable[k]
    /\ \A o \in AfterPowerLoss : Owed(k) \subseteq Recovered(o[1], o[2])[k]

\* No crash makes recovery apply a mutation that the snapshot image already
\* contains: a relative command such as INCR is never applied twice.
ExactlyOnce ==
  \A o \in AfterPowerLoss \cup {<<snap, wal>>} : \A k \in Key :
    o[1].image[k] \cap Ids({f \in ReplayFrames(o[1], o[2]) : k \in f.keys}) = {}

\* The mutations of key k whose writers are between append and apply.
InFlight(k) ==
  {job[w].id : w \in {v \in Writer : pc[v] \in {"syncing", "applying"} /\ k \in job[v].keys}}

\* A client never reads a mutation that a process crash would undo; and while
\* the journal is healthy a restart would rebuild memory exactly, up to the
\* mutations whose writers are between append and apply.
LiveMatchesJournal ==
  phase = "up" =>
    \A k \in Key :
      /\ mem[k] \subseteq Recoverable[k]
      /\ ~poisoned => Recoverable[k] \subseteq mem[k] \cup InFlight(k)

\* always_sync appends and synchronizes before applying each mutation, so what
\* a client can read survives a power loss.
VisibleIsDurable ==
  AlwaysSync =>
    \A k \in Key : \A o \in AfterPowerLoss : mem[k] \subseteq Recovered(o[1], o[2])[k]

\* The mutations of a key are applied in journal order, so that replay
\* reproduces the state clients observed: the gate of the key is held from
\* before the append until after the apply.
AppliedInJournalOrder ==
  [][phase = "up" /\ phase' = "up" =>
       \A k \in Key : \A i \in mem'[k] \ mem[k] : \A j \in mem[k] : j < i]_vars

\* After the final sync of a graceful shutdown nothing reaches the journal and
\* no mutation is acknowledged: a mutation that waited for its gate fails the
\* second ensure_accepting_mutations.
NothingAfterFinalSync ==
  [][cpc = "synced" /\ phase' = "up" => wal' = wal /\ acked' = acked]_vars

-----------------------------------------------------------------------------
(* The inductive invariant behind CrashRecovers (JournalProofs).           *)

\* Writer w has a frame in the journal.
Active(w) == pc[w] \in {"appending", "syncing", "applying"}

\* Writer w is inside the journal lock.
Holding(w) ==
  \/ pc[w] \in {"appending", "syncing"}
  \/ pc[w] = "applying" /\ job[w].checked

\* Writer w has a frame whose mutation no reader may have seen.
Pending(w) ==
  \/ pc[w] \in {"appending", "syncing"}
  \/ pc[w] = "applying" /\ job[w].doomed

\* A frame recovery will drop: incomplete, or of a command that is rejected.
Bad(f) == ~f.whole \/ f.doomed

\* Gates and journal lock: who is past a lock holds it.
LockInv ==
  /\ \A w \in Writer :
       /\ pc[w] # "idle" => job[w].keys # {}
       /\ pc[w] = "prepared" \/ Active(w) => \A k \in job[w].keys : gate[k] = w
       /\ Holding(w) => jlock = w
       /\ job[w].doomed => job[w].checked
  /\ spc = "renamed" => jlock = Saver
  /\ phase = "down" => spc = "idle" /\ \A w \in Writer : pc[w] = "idle"

\* The journal file: frames lie below its end and are distinguished by their
\* offset, an active writer's frame is there, the frame of a writer inside the
\* journal lock is the last, and so is any bad frame, which in a healthy
\* process belongs to a writer inside the lock.
FrameInv ==
  /\ wal.end <= nextId
  /\ \A f \in wal.frames : f.id < wal.end
  /\ \A f, g \in wal.frames : f.id = g.id => f = g
  /\ \A w \in Writer :
       /\ pc[w] = "appending" => FrameOf(job[w], FALSE) \in wal.frames
       /\ pc[w] \in {"syncing", "applying"} => FrameOf(job[w], TRUE) \in wal.frames
       /\ Active(w) => job[w].id >= snap.offset
       /\ Holding(w) => \A f \in wal.frames : f.id <= job[w].id
  /\ \A f \in wal.frames : Bad(f) =>
       /\ f.id >= snap.offset
       /\ \A g \in wal.frames : g.id <= f.id
       /\ f.doomed => f.checked
       /\ phase = "up" /\ ~poisoned => \E w \in Writer : Holding(w) /\ job[w].id = f.id

\* Snapshot and journal belong together: the journal has the generation the
\* snapshot was taken in or the one it authorized, its image stops where the
\* replay starts, and a rotated journal holds nothing from before.
SnapInv ==
  /\ wal.gen < nextGen
  /\ snap.offset <= wal.end
  /\ snap.gen = NoGen \/ snap.gen = wal.gen \/ snap.succ = wal.gen
  /\ snap.gen # wal.gen => \A f \in wal.frames : f.id >= snap.offset
  /\ \A k \in Key : \A i \in snap.image[k] : i < snap.offset

\* What the saver captured describes the present journal until it rotates.
CaptureInv ==
  /\ spc \in {"write", "installed", "durable", "rotate"} =>
       /\ cap.gen = wal.gen /\ cap.offset <= wal.end
       /\ cap.succ \in Nat /\ wal.gen < cap.succ /\ cap.succ < nextGen
       /\ \A k \in Key : \A i \in cap.image[k] : i < cap.offset
       /\ \A w \in Writer : Active(w) => job[w].id >= cap.offset
       /\ \A f \in wal.frames : Bad(f) => f.id >= cap.offset
       /\ Recovered(cap, wal) = Recoverable
  /\ spc \in {"installed", "durable", "rotate"} => snap = cap

\* Memory and acknowledgements against the files.
LiveInv ==
  /\ \A k \in Key :
       /\ acked[k] \subseteq Recoverable[k]
       /\ mem[k] \subseteq Recoverable[k]
       /\ phase = "up" /\ ~poisoned => Recoverable[k] \subseteq mem[k] \cup InFlight(k)
       /\ \A i \in Recoverable[k] : i < nextId
  /\ \A w \in Writer :
       Pending(w) => \A k \in Key : job[w].id \notin mem[k] /\ job[w].id \notin acked[k]

JournalInv == TypeOK /\ LockInv /\ FrameInv /\ SnapInv /\ CaptureInv /\ LiveInv

-----------------------------------------------------------------------------
(* The inductive invariant behind power-loss safety (JournalPowerProofs).  *)

\* The rename of a rotated journal cannot be left behind: the file system
\* makes it durable with the next sync of the file, or neither a process
\* crash nor a failed directory sync has come between rename and sync.
SafeNames ==
  FsyncPersistsName \/ (faults.proc = 0 /\ (DirSyncMayFail => faults.io = 0))

\* The saver holds a capture that it has not rotated to yet.
Capturing == spc \in {"write", "installed", "durable", "rotate"}

\* The shutdown: its fence is up, it has waited for the save, and after its
\* final sync nothing is left to sync and nobody can append any more.
ShutdownInv ==
  /\ cpc # "idle" => ~accepting /\ phase = "up"
  /\ cpc \in {"barrier", "synced", "unsynced"} => spc = "idle"
  /\ cpc = "synced" =>
       wal.synced = wal.end /\ \A w \in Writer : pc[w] \in {"idle", "gates"}

\* Which of the two names may be stale, and when: never both.
NamesInv ==
  /\ staleSnaps = {} \/ staleWals = {}
  /\ staleWals # {} => FsyncPersistsName \/ spc = "renamed"
  /\ Capturing => staleWals = {} /\ snap.offset <= cap.offset /\ cap.offset <= wal.synced
  /\ spc \in {"durable", "rotate", "renamed"} => staleSnaps = {}
  /\ spc = "renamed" => wal.synced = wal.end

\* Journal file w by itself, as FrameInv and SnapInv describe the present one;
\* the synced part reaches at least to where the snapshot ends.
WalOK(w) ==
  /\ snap.offset <= w.synced /\ w.synced <= w.end /\ w.end <= nextId /\ w.gen < nextGen
  /\ \A f \in w.frames : f.id < w.end
  /\ \A f, g \in w.frames : f.id = g.id => f = g
  /\ \A f \in w.frames : Bad(f) =>
       f.id >= snap.offset /\ (\A g \in w.frames : g.id <= f.id) /\ (f.doomed => f.checked)

\* The mutations of an image that come before an offset.
UpTo(image, offset) == [k \in Key |-> {i \in image[k] : i < offset}]

\* Snapshot s and journal file w fit together, and a restart from them rebuilds
\* what a restart now would rebuild, up to the end of w.
PairOK(s, w) ==
  /\ s.gen = NoGen \/ s.gen = w.gen \/ s.succ = w.gen
  /\ s.gen # w.gen => \A f \in w.frames : f.id >= s.offset
  /\ Recovered(s, w) = UpTo(Recoverable, w.end)

\* Every snapshot and every journal file that the names may denote.
PairsInv ==
  /\ \A w \in Wals : WalOK(w)
  /\ \A s \in Snaps :
       s.offset <= snap.offset /\ \A k \in Key : \A i \in s.image[k] : i < s.offset
  /\ \A s \in Snaps, w \in Wals : PairOK(s, w)
  /\ \A w \in staleWals : \A v \in Writer : Holding(v) => job[v].id >= w.end

\* What a sync has covered is below the synced end of every journal file the
\* name may denote; under always_sync that is all a client was told of.
HardenedInv ==
  /\ \A i \in hardened : i < nextId
  /\ \A w \in Writer : pc[w] = "appending" => job[w].id \notin hardened
  /\ \A k \in Key : \A i \in hardened \cap Recoverable[k] : \A w \in Wals : i < w.synced
  /\ AlwaysSync =>
       /\ \A k \in Key : acked[k] \subseteq hardened
       /\ \A w \in Writer : pc[w] = "applying" => job[w].id \in hardened

\* Under always_sync, and as long as neither a crash nor a failed operation has
\* left an unsynced frame to be replayed, what is visible is synced.
VisibleInv ==
  AlwaysSync /\ faults.proc = 0 /\ faults.io = 0 =>
    /\ \A w \in Wals, k \in Key : \A i \in mem[k] : i < w.synced
    /\ staleWals # {} => spc = "renamed"
    /\ phase = "down" => wal.synced = wal.end
    /\ cpc # "unsynced"

PowerInv == ShutdownInv /\ NamesInv /\ PairsInv /\ HardenedInv /\ VisibleInv

\* Locks, frames, snapshot, capture and memory fit together until the power
\* fails, through process crashes and failed file operations in any order; and
\* as long as names are safe so do all the files a power loss may bring back.
Consistent ==
  /\ faults.power = 0 \/ SafeNames => JournalInv
  /\ SafeNames => PowerInv

\* The next start is not refused, rebuilds every mutation that was acknowledged
\* or visible to a reader, and applies none of them twice.
RestartSafe ==
  /\ ~Refused(snap, wal)
  /\ \A k \in Key :
       /\ acked[k] \subseteq Recoverable[k]
       /\ mem[k] \subseteq Recoverable[k]
       /\ snap.image[k] \cap Ids({f \in ReplayFrames(snap, wal) : k \in f.keys}) = {}

\* Whenever the process stops, a restart is safe, after power losses too as
\* long as names are safe: it repeats neither more nor less than prepare,
\* append, apply and the save's capture, install and rotate have promised.
CrashRecovers == faults.power = 0 \/ SafeNames => RestartSafe

-----------------------------------------------------------------------------
(* Refinement: the store of DurableStore is what recovery would rebuild.   *)
Durable == INSTANCE DurableStore WITH
             Id <- 0..(MaxMutations + 1), SyncEach <- AlwaysSync, store <- Recoverable

\* The journal implements the abstract durable store: appending a frame
\* commits, rollback withdraws, a power loss cuts the history, and every other
\* step (capture, snapshot install, rotation, recovery) leaves what a restart
\* would rebuild unchanged.
ImplementsDurableStore == Durable!Spec

\* Every mutation that started is answered or interrupted by a crash: neither
\* the gates nor the journal lock block it for ever.
MutationsEnd == \A w \in Writer : pc[w] # "idle" ~> pc[w] = "idle"

\* A save that started ends: it gets its barrier and the journal lock.
SavesEnd == spc # "idle" ~> spc = "idle"

\* A graceful shutdown reaches its final sync and exits.
ShutdownEnds == cpc # "idle" ~> cpc = "idle"
=============================================================================
