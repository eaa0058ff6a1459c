---------------------------- MODULE Transaction ----------------------------
(***************************************************************************)
(* MULTI / EXEC / WATCH and the execution gate that isolates them.         *)
(*                                                                         *)
(*   src/store/transactions.rs   the gate, buffered commands, commit       *)
(*   src/lib.rs                  handle_tx_cmd: WATCH, EXEC, DISCARD       *)
(*   src/store/mod.rs            journaled writes inside and outside EXEC  *)
(*                                                                         *)
(* An ordinary command and a snapshot enter the gate shared, EXEC enters   *)
(* it exclusively.  EXEC changes live memory command by command, buffers   *)
(* the recovery commands, and appends them as one journal frame at the     *)
(* end.  If that fails the live changes stay in memory, and the poisoned   *)
(* journal is what keeps every later command from seeing them.             *)
(*                                                                         *)
(* The state of a key is the set of mutations applied to it.  Every key    *)
(* has a shard, and so a version, of its own.  The byte-level journal and  *)
(* power loss are in Journal.                                              *)
(***************************************************************************)
EXTENDS Integers, FiniteSets

CONSTANTS
  Key,           \* keys
  Client,        \* connections
  MaxMutations,  \* bound: mutations issued
  MaxQueue,      \* bound: commands queued by one MULTI
  MaxSaves,      \* bound: snapshots
  MaxFaults      \* bound: failed file operations, failed applies, crashes

Nobody == "nobody"
Saver  == "saver"

ASSUME ClientAssumption == Nobody \notin Client /\ Saver \notin Client
ASSUME QueueAssumption == MaxQueue \in Nat

VARIABLES
  up,        \* is the process serving?
  mem,       \* mem[k]: mutations applied to key k in memory
  ver,       \* ver[k]: version of the shard of k
  journal,   \* the frames of the journal: [cmds, whole]
  poisoned,  \* Store.journal_poisoned
  readers,   \* who is inside the execution gate shared
  writer,    \* who holds, or drains readers for, the exclusive gate
  pc,        \* pc[c]: where the command of client c is
  arg,       \* arg[c]: the mutation of a single write
  got,       \* got[c]: what the current read has collected
  watched,   \* watched[c]: key |-> version seen by WATCH
  basis,     \* basis[c]: key |-> contents when WATCH ran (ghost)
  left,      \* left[c]: queued commands EXEC has still to run
  active,    \* ActiveExec: buffered commands and deferred key events
  spc,       \* where the saver is
  snap,      \* the last snapshot image
  batches,   \* the command sets that EXEC has tried to commit (ghost)
  events,    \* mutations whose deferred key event EXEC published
  nextId,    \* the next mutation
  budget     \* faults and saves used

NoCmd == [id |-> 0, key |-> Nobody]
NoExec == [cmds |-> {}, events |-> {}]
Nothing == [k \in {} |-> {}]
Empty == [k \in Key |-> {}]

gateVars    == <<readers, writer>>
clientVars  == <<pc, arg, got, left>>
watchVars   == <<watched, basis>>
saverVars   == <<spc, snap>>
vars == <<up, mem, ver, journal, poisoned, readers, writer, pc, arg, got, watched, basis,
          left, active, spc, snap, batches, events, nextId, budget>>

Fault   == budget.faults < MaxFaults /\ budget' = [budget EXCEPT !.faults = @ + 1]
NoFault == UNCHANGED budget

\* What replay rebuilds: the commands of the complete frames.
Committed == UNION {f.cmds : f \in {g \in journal : g.whole}}
CommittedOf(k) == {m.id : m \in {n \in Committed : n.key = k}}

Init ==
  /\ up = TRUE
  /\ mem = Empty
  /\ ver = [k \in Key |-> 0]
  /\ journal = {}
  /\ poisoned = FALSE
  /\ readers = {} /\ writer = Nobody
  /\ pc = [c \in Client |-> "idle"]
  /\ arg = [c \in Client |-> NoCmd]
  /\ got = [c \in Client |-> Nothing]
  /\ watched = [c \in Client |-> Nothing]
  /\ basis = [c \in Client |-> Nothing]
  /\ left = [c \in Client |-> 0]
  /\ active = NoExec
  /\ spc = "idle"
  /\ snap = Empty
  /\ batches = {}
  /\ events = {}
  /\ nextId = 1
  /\ budget = [faults |-> 0, saves |-> 0]

-----------------------------------------------------------------------------
(* Reads and single writes: execution_read_guard                           *)

\* The bound on mutations: a write that was let in keeps its number.
Room == nextId + Cardinality({c \in Client : pc[c] = "writing" /\ arg[c] = NoCmd})
          <= MaxMutations

\* The first health check of execution_read_guard, before the gate.
Begin(c, kind) ==
  /\ up /\ pc[c] = "idle" /\ ~poisoned
  /\ kind = "writing" => Room
  /\ pc' = [pc EXCEPT ![c] = kind]
  /\ UNCHANGED <<up, mem, ver, journal, poisoned, gateVars, arg, got, left, watchVars,
                 active, saverVars, batches, events, nextId, budget>>

\* execution_gate.read(): free of an EXEC and of one that drains readers.
SharedFree == writer = Nobody

\* Variant: the journal is only checked before the gate.
HealthyBeforeOnly == TRUE

\* The second health check, inside the gate.
HealthyInside == ~poisoned

\* execution_read_guard: enter the gate and look at the journal again.
EnterRead(c) ==
  /\ up /\ pc[c] \in {"reading", "writing"} /\ c \notin readers /\ SharedFree
  /\ \/ HealthyInside /\ readers' = readers \cup {c} /\ UNCHANGED pc
     \/ ~HealthyInside /\ pc' = [pc EXCEPT ![c] = "idle"] /\ UNCHANGED readers
  /\ UNCHANGED <<up, mem, ver, journal, poisoned, writer, arg, got, left, watchVars,
                 active, saverVars, batches, events, nextId, budget>>

\* A command over several keys reads them one shard lock at a time.
ReadKey(c, k) ==
  /\ up /\ pc[c] = "reading" /\ c \in readers /\ k \notin DOMAIN got[c]
  /\ got' = [got EXCEPT ![c] = [j \in DOMAIN @ \cup {k} |->
                                  IF j = k THEN mem[k] ELSE @[j]]]
  /\ UNCHANGED <<up, mem, ver, journal, poisoned, gateVars, pc, arg, left, watchVars,
                 active, saverVars, batches, events, nextId, budget>>

\* The command returns: its reply is sent and the guard is dropped.
Leave(c) ==
  /\ readers' = readers \ {c}
  /\ pc' = [pc EXCEPT ![c] = "idle"]
  /\ arg' = [arg EXCEPT ![c] = NoCmd]
  /\ got' = [got EXCEPT ![c] = Nothing]

ReadReply(c) ==
  /\ up /\ pc[c] = "reading" /\ DOMAIN got[c] = Key
  /\ Leave(c)
  /\ UNCHANGED <<up, mem, ver, journal, poisoned, writer, left, watchVars, active,
                 saverVars, batches, events, nextId, budget>>

\* A single-key write appends its frame, or fails to.
WriteAppend(c, k) ==
  /\ up /\ pc[c] = "writing" /\ c \in readers /\ arg[c] = NoCmd
  /\ nextId' = nextId + 1
  /\ \/ /\ ~poisoned /\ NoFault
        /\ arg' = [arg EXCEPT ![c] = [id |-> nextId, key |-> k]]
        /\ journal' = journal \cup {[cmds |-> {arg'[c]}, whole |-> TRUE]}
        /\ UNCHANGED <<poisoned, readers, pc, got>>
     \/ /\ \/ poisoned /\ NoFault /\ UNCHANGED poisoned
           \/ Fault /\ poisoned' \in {poisoned, TRUE}
        /\ Leave(c)
        /\ UNCHANGED journal
  /\ UNCHANGED <<up, mem, ver, writer, left, watchVars, active, saverVars, batches, events>>

\* Variant: a write leaves the version of its shard alone.
VersionKept(k) == ver

\* Every mutation path increments the version under the shard lock.
VersionBumped(k) == [ver EXCEPT ![k] = @ + 1]

\* The write is applied under its journal gate and completes.
WriteApply(c) ==
  /\ up /\ pc[c] = "writing" /\ arg[c] # NoCmd
  /\ mem' = [mem EXCEPT ![arg[c].key] = @ \cup {arg[c].id}]
  /\ ver' = VersionBumped(arg[c].key)
  /\ Leave(c)
  /\ UNCHANGED <<up, journal, poisoned, writer, left, watchVars, active, saverVars,
                 batches, events, nextId, budget>>

\* The fsync timer poisons the journal from outside the gate.
FsyncFails ==
  /\ up /\ ~poisoned /\ Fault
  /\ poisoned' = TRUE
  /\ UNCHANGED <<up, mem, ver, journal, gateVars, clientVars, watchVars, active,
                 saverVars, batches, events, nextId>>

-----------------------------------------------------------------------------
(* WATCH and EXEC                                                          *)

\* WATCH: under execution_read_guard, remember the version of the shard.
Watch(c, k) ==
  /\ up /\ pc[c] = "idle" /\ ~poisoned /\ writer = Nobody
  /\ k \notin DOMAIN watched[c]
  /\ watched' = [watched EXCEPT ![c] = [j \in DOMAIN @ \cup {k} |->
                                          IF j = k THEN ver[k] ELSE @[j]]]
  /\ basis' = [basis EXCEPT ![c] = [j \in DOMAIN @ \cup {k} |->
                                      IF j = k THEN mem[k] ELSE @[j]]]
  /\ UNCHANGED <<up, mem, ver, journal, poisoned, gateVars, clientVars, active,
                 saverVars, batches, events, nextId, budget>>

\* The end of every EXEC: queue and watched keys are cleared.
ClearTx(c) ==
  /\ watched' = [watched EXCEPT ![c] = Nothing]
  /\ basis' = [basis EXCEPT ![c] = Nothing]
  /\ left' = [left EXCEPT ![c] = 0]

\* DISCARD, UNWATCH, EXECABORT, and an EXEC that finds the journal poisoned.
Discard(c) ==
  /\ up /\ pc[c] = "idle" /\ DOMAIN watched[c] # {}
  /\ ClearTx(c)
  /\ UNCHANGED <<up, mem, ver, journal, poisoned, gateVars, pc, arg, got, active,
                 saverVars, batches, events, nextId, budget>>

\* begin_exec_transaction: the health check before the gate.
ExecBegin(c, n) ==
  /\ up /\ pc[c] = "idle" /\ ~poisoned
  /\ pc' = [pc EXCEPT ![c] = "waiting"]
  /\ left' = [left EXCEPT ![c] = n]
  /\ UNCHANGED <<up, mem, ver, journal, poisoned, gateVars, arg, got, watchVars, active,
                 saverVars, batches, events, nextId, budget>>

\* execution_gate.write() shuts out new readers, then waits for those inside.
ExecBid(c) ==
  /\ up /\ pc[c] = "waiting" /\ writer = Nobody
  /\ writer' = c
  /\ UNCHANGED <<up, mem, ver, journal, poisoned, readers, clientVars, watchVars, active,
                 saverVars, batches, events, nextId, budget>>

WatchedUnchanged(c) == \A k \in DOMAIN watched[c] : ver[k] = watched[c][k]

\* The exclusive gate is held: check the journal, then the watched versions.
ExecEnter(c) ==
  /\ up /\ pc[c] = "waiting" /\ writer = c /\ readers = {}
  /\ \/ /\ ~poisoned /\ WatchedUnchanged(c)
        /\ pc' = [pc EXCEPT ![c] = "running"]
        /\ active' = NoExec
        /\ UNCHANGED <<writer, left, watchVars>>
     \/ /\ poisoned \/ ~WatchedUnchanged(c)
        /\ pc' = [pc EXCEPT ![c] = "idle"]
        /\ writer' = Nobody
        /\ ClearTx(c)
        /\ UNCHANGED active
  /\ UNCHANGED <<up, mem, ver, journal, poisoned, readers, arg, got, saverVars, batches,
                 events, nextId, budget>>

\* Variant: the key event leaves at once.
EventNow(m) ==
  /\ events' = events \cup {m.id}
  /\ active' = [active EXCEPT !.cmds = @ \cup {m}]

\* The recovery command and the key event wait for the commit.
EventDeferred(m) ==
  /\ active' = [cmds |-> active.cmds \cup {m}, events |-> active.events \cup {m.id}]
  /\ UNCHANGED events

\* Variant: one command too many.
QueuedOrDone(c) == left[c] >= 0

Queued(c) == left[c] > 0

\* One queued write runs against live memory.
ExecWrite(c, k) ==
  LET m == [id |-> nextId, key |-> k]
  IN
  /\ up /\ pc[c] = "running" /\ Queued(c) /\ ~poisoned
  /\ Room /\ nextId' = nextId + 1
  /\ left' = [left EXCEPT ![c] = @ - 1]
  /\ mem' = [mem EXCEPT ![k] = @ \cup {nextId}]
  /\ ver' = VersionBumped(k)
  /\ EventDeferred(m)
  /\ UNCHANGED <<up, journal, poisoned, gateVars, pc, arg, got, watchVars, saverVars,
                 batches, budget>>

\* A queued command that is rejected: truncate_active_exec drops its buffered
\* command, the error is part of the reply, and the queue goes on.  So it
\* does when the journal was poisoned in the meantime.
ExecRejected(c) ==
  /\ up /\ pc[c] = "running" /\ Queued(c)
  /\ left' = [left EXCEPT ![c] = @ - 1]
  /\ UNCHANGED <<up, mem, ver, journal, poisoned, gateVars, pc, arg, got, watchVars,
                 active, saverVars, batches, events, nextId, budget>>

\* The apply phase of an unchecked command fails after it was buffered, having
\* changed memory or not: its JournalCommitGuard poisons the journal.
ExecApplyFails(c, k) ==
  LET m == [id |-> nextId, key |-> k]
  IN
  /\ up /\ pc[c] = "running" /\ Queued(c) /\ ~poisoned /\ Fault
  /\ Room /\ nextId' = nextId + 1
  /\ left' = [left EXCEPT ![c] = @ - 1]
  /\ mem' \in {mem, [mem EXCEPT ![k] = @ \cup {nextId}]}
  /\ active' = [active EXCEPT !.cmds = @ \cup {m}]
  /\ poisoned' = TRUE
  /\ UNCHANGED <<up, ver, journal, gateVars, pc, arg, got, watchVars, saverVars, batches,
                 events>>

\* Dropping the transaction guard opens the gate.
ReleaseExec(c) == writer' = Nobody

\* The thread unwinds inside EXEC: ExecTransactionGuard::drop poisons the
\* journal if anything was buffered or deferred.
ExecUnwinds(c) ==
  /\ up /\ pc[c] = "running" /\ Fault
  /\ poisoned' = (poisoned \/ active # NoExec)
  /\ active' = NoExec
  /\ pc' = [pc EXCEPT ![c] = "idle"]
  /\ ReleaseExec(c)
  /\ ClearTx(c)
  /\ UNCHANGED <<up, mem, ver, journal, readers, arg, got, saverVars, batches,
                 events, nextId>>

\* Variant: one frame per command; one of them is already complete.
FramePerCommand(cmds) ==
  {[cmds |-> {m}, whole |-> m = CHOOSE n \in cmds : TRUE] : m \in cmds}

\* append_commands encodes the whole batch as one frame; its bytes arrive.
OneFrame(cmds) == {[cmds |-> cmds, whole |-> FALSE]}

\* commit: append what was buffered, unless the journal is poisoned.
ExecAppend(c) ==
  /\ up /\ pc[c] = "running" /\ ~Queued(c) /\ active.cmds # {} /\ ~poisoned
  /\ pc' = [pc EXCEPT ![c] = "committing"]
  /\ journal' = journal \cup OneFrame(active.cmds)
  /\ batches' = batches \cup {active.cmds}
  /\ UNCHANGED <<up, mem, ver, poisoned, gateVars, arg, got, left, watchVars, active,
                 saverVars, events, nextId, budget>>

\* The guard is dropped before blocked clients are served.
ReleaseBeforeWake == writer' = Nobody

\* The frame is complete, or there was none to write: publish the deferred
\* events, reply, drop the guard, then wake blocked clients.
ExecCommitted(c) ==
  /\ up
  /\ \/ pc[c] = "committing"
     \/ pc[c] = "running" /\ ~Queued(c) /\ active.cmds = {}
  /\ journal' = {[f EXCEPT !.whole = TRUE] : f \in journal}
  /\ events' = events \cup active.events
  /\ active' = NoExec
  /\ pc' = [pc EXCEPT ![c] = "waking"]
  /\ ReleaseBeforeWake
  /\ ClearTx(c)
  /\ UNCHANGED <<up, mem, ver, poisoned, readers, arg, got, saverVars, batches,
                 nextId, budget>>

\* Variant: a failed commit is only reported.
CommitFailureReported == UNCHANGED poisoned

\* A failed commit fences the database before the gate opens.
CommitFailureFences == poisoned' = TRUE

\* The append fails and is rolled back, or the journal was already poisoned.
ExecCommitFails(c) ==
  /\ up
  /\ \/ pc[c] = "committing" /\ Fault
     \/ pc[c] = "running" /\ ~Queued(c) /\ active.cmds # {} /\ poisoned /\ NoFault
  /\ CommitFailureFences
  /\ journal' = {f \in journal : f.whole}
  /\ active' = NoExec
  /\ pc' = [pc EXCEPT ![c] = "idle"]
  /\ ReleaseExec(c)
  /\ ClearTx(c)
  /\ UNCHANGED <<up, mem, ver, readers, arg, got, saverVars, batches, events, nextId>>

\* drain_list_waiters pops through the journal and so enters the gate shared.
ExecWake(c) ==
  /\ up /\ pc[c] = "waking" /\ SharedFree
  /\ pc' = [pc EXCEPT ![c] = "idle"]
  /\ UNCHANGED <<up, mem, ver, journal, poisoned, gateVars, arg, got, left, watchVars,
                 active, saverVars, batches, events, nextId, budget>>

-----------------------------------------------------------------------------
(* Snapshots: with_write_barrier enters the gate without a health check    *)

SaveBegin ==
  /\ up /\ spc = "idle" /\ budget.saves < MaxSaves
  /\ spc' = "waiting"
  /\ budget' = [budget EXCEPT !.saves = @ + 1]
  /\ UNCHANGED <<up, mem, ver, journal, poisoned, gateVars, clientVars, watchVars, active,
                 snap, batches, events, nextId>>

SaveEnter ==
  /\ up /\ spc = "waiting" /\ SharedFree
  /\ readers' = readers \cup {Saver}
  /\ spc' = "inside"
  /\ UNCHANGED <<up, mem, ver, journal, poisoned, writer, clientVars, watchVars, active,
                 snap, batches, events, nextId, budget>>

\* Variant: the captured image is not checked against the journal's health.
CaptureUnchecked == TRUE

CaptureHealthy == ~poisoned

\* Behind every journal gate: no write is between append and apply.
Capture ==
  /\ up /\ spc = "inside"
  /\ \A c \in Client : arg[c] = NoCmd
  /\ snap' = IF CaptureHealthy THEN mem ELSE snap
  /\ readers' = readers \ {Saver}
  /\ spc' = "idle"
  /\ UNCHANGED <<up, mem, ver, journal, poisoned, writer, clientVars, watchVars, active,
                 batches, events, nextId, budget>>

-----------------------------------------------------------------------------
\* The process dies, or the operator restarts a poisoned one: an incomplete
\* frame will not be replayed.
Crash ==
  /\ up /\ (Fault \/ (poisoned /\ NoFault))
  /\ up' = FALSE
  /\ mem' = Empty
  /\ ver' = [k \in Key |-> 0]
  /\ journal' = {f \in journal : f.whole}
  /\ poisoned' = FALSE
  /\ readers' = {} /\ writer' = Nobody
  /\ pc' = [c \in Client |-> "idle"]
  /\ arg' = [c \in Client |-> NoCmd]
  /\ got' = [c \in Client |-> Nothing]
  /\ watched' = [c \in Client |-> Nothing]
  /\ basis' = [c \in Client |-> Nothing]
  /\ left' = [c \in Client |-> 0]
  /\ active' = NoExec
  /\ spc' = "idle"
  /\ UNCHANGED <<snap, batches, events, nextId>>

Recover ==
  /\ ~up
  /\ up' = TRUE
  /\ mem' = [k \in Key |-> CommittedOf(k)]
  /\ UNCHANGED <<ver, journal, poisoned, gateVars, clientVars, watchVars, active,
                 saverVars, batches, events, nextId, budget>>

ClientStep(c) ==
  \/ EnterRead(c)
  \/ \E k \in Key : ReadKey(c, k) \/ WriteAppend(c, k)
  \/ ReadReply(c)
  \/ WriteApply(c)
  \/ ExecBid(c)
  \/ ExecEnter(c)
  \/ \E k \in Key : ExecWrite(c, k) \/ ExecApplyFails(c, k)
  \/ ExecRejected(c)
  \/ ExecAppend(c)
  \/ ExecCommitted(c)
  \/ ExecCommitFails(c)
  \/ ExecUnwinds(c)
  \/ ExecWake(c)

SaverStep == SaveEnter \/ Capture

Next ==
  \/ \E c \in Client :
       \/ \E kind \in {"reading", "writing"} : Begin(c, kind)
       \/ \E k \in Key : Watch(c, k)
       \/ Discard(c)
       \/ \E n \in 1..MaxQueue : ExecBegin(c, n)
       \/ ClientStep(c)
  \/ FsyncFails
  \/ SaveBegin
  \/ SaverStep
  \/ Crash
  \/ Recover

Spec == Init /\ [][Next]_vars

-----------------------------------------------------------------------------
(* Properties                                                              *)

\* A recorded command, a frame, and a function from some of the keys to S.
Cmd == [id : Nat, key : Key]
Frame == [cmds : SUBSET Cmd, whole : BOOLEAN]
PartlyOn(f, S) == DOMAIN f \subseteq Key /\ \A k \in DOMAIN f : f[k] \in S

\* The type invariant: the gate, the commands in progress, the buffered
\* transaction and the journal stay within their declared ranges.
TypeOK ==
  /\ up \in BOOLEAN /\ poisoned \in BOOLEAN
  /\ mem \in [Key -> SUBSET Nat] /\ snap \in [Key -> SUBSET Nat]
  /\ ver \in [Key -> Nat]
  /\ journal \subseteq Frame
  /\ readers \subseteq Client \cup {Saver}
  /\ writer \in Client \cup {Nobody}
  /\ pc \in [Client -> {"idle", "reading", "writing", "waiting", "running", "committing",
                        "waking"}]
  /\ arg \in [Client -> Cmd \cup {NoCmd}]
  /\ DOMAIN got = Client /\ \A c \in Client : PartlyOn(got[c], SUBSET Nat)
  /\ DOMAIN watched = Client /\ \A c \in Client : PartlyOn(watched[c], Nat)
  /\ DOMAIN basis = Client /\ \A c \in Client : PartlyOn(basis[c], SUBSET Nat)
  /\ left \in [Client -> 0..MaxQueue]
  /\ active \in [cmds : SUBSET Cmd, events : SUBSET Nat]
  /\ spc \in {"idle", "waiting", "inside"}
  /\ batches \subseteq SUBSET Cmd /\ events \subseteq Nat
  /\ nextId \in Nat \ {0}
  /\ budget \in [faults : Nat, saves : Nat]

\* Client c gets the reply of its read in this step.
Replies(c) == up' /\ pc[c] = "reading" /\ c \in readers /\ pc'[c] = "idle"

\* A reply shows only committed mutations: a transaction whose journal append
\* failed stays in memory, but the health check inside the gate keeps every
\* command from reading it.
NoDirtyRead ==
  [][\A c \in Client : Replies(c) =>
       \A k \in Key : got[c][k] \subseteq CommittedOf(k)]_vars

\* The part of a command set that an image contains.
PartOf(cmds, image) == {m \in cmds : m.id \in image[m.key]}

\* Other clients observe the state before or after the transaction, never a
\* prefix (README.md, MULTI/EXEC), also when they read key by key.
ExecIsolated ==
  [][\A c \in Client : Replies(c) =>
       \A b \in batches : PartOf(b, got[c]) \in {{}, b}]_vars

\* A snapshot holds a transaction whole or not at all, and nothing that the
\* journal does not.
SnapshotIsCommitted ==
  /\ \A k \in Key : snap[k] \subseteq CommittedOf(k)
  /\ \A b \in batches : PartOf(b, snap) \in {{}, b}

\* At every moment a crash recovers all successful mutations of a transaction
\* or none.
RecoversWholeBatch == \A b \in batches : b \cap Committed \in {{}, b}

\* WATCH: a transaction that runs finds every watched key as WATCH left it.
WatchedKeysUnchanged ==
  [][\A c \in Client : pc[c] = "waiting" /\ pc'[c] = "running" =>
       \A k \in DOMAIN basis[c] : mem[k] = basis[c][k]]_vars

\* Key events of a transaction are published only after its frame is durable.
EventsFollowCommit == events \subseteq {m.id : m \in Committed}

\* A healthy, quiet database is what a restart would rebuild.
QuietMatchesJournal ==
  up /\ ~poisoned /\ readers = {} /\ (writer = Nobody \/ pc[writer] = "waiting") =>
    \A k \in Key : mem[k] = CommittedOf(k)
=============================================================================
