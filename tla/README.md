# Lux in TLA+

Lux (`src/`, Rust) is a database server: Redis-compatible data types, relational
tables, live queries, an HTTP interface, authentication and push delivery over one
in-memory key space, made durable by a journal and snapshots, and optionally spilled
to cold files. This directory holds TLA+ models of the server and of the parts of its
command-line tool that change its state, the TLC instances that check them, and TLAPS
proofs about the parts with the subtlest arguments: the journal, MULTI/EXEC, tiered
placement, memory-mode eviction, blocking lists, refresh tokens, project keys, accounts,
push delivery, the HTTP gateway and the budgets of RESP sessions.

`PROJECT.json` lists, for machines, what this file explains: components, runs, the
mutated definitions that show each property can fail, the source lines every
definition stands for, the hazards, the findings and the theorems.

## 1. Inventory of the system

| Component | State | Operations | Talks to | What makes it correct |
|---|---|---|---|---|
| Journal (`disk.rs`, `durability.rs`) | one append-only file with a generation and an end offset | append, fsync, roll back, checkpoint, rotate, replay | called by the commit path under one mutex | a torn tail is dropped, nothing else is; a rotation loses nothing |
| Commit path (`store/mod.rs`) | journal gates, poison and shutdown flags | prepare, append, sync, apply, complete, reject | journal, shards | what is acknowledged recovers; memory never runs against the journal |
| Snapshots, recovery (`snapshot.rs`, `lib.rs`) | snapshot file: image, checkpoint, authorised successor generation | barrier, capture, install, rotate; load, replay, refuse | commit path, journal | snapshot and journal always fit together; a file of any version loads as what was saved |
| Save worker (`snapshot.rs`) | phase, one-slot channel, two stop flags | BGSAVE, interval, stop | snapshots, shutdown | one save at a time; shutdown is never slept through |
| Shutdown (`lib.rs`) | shutdown flag | close the boundary, join, final sync | commit path, save worker | nothing is acknowledged after the final sync |
| Transactions (`store/transactions.rs`) | execution gate, active EXEC, watched versions | WATCH, MULTI, EXEC, DISCARD | journal, broker, snapshots | isolation, atomic recovery, no dirty reads after a failed commit |
| Tiered placement (`store/mod.rs`, `eviction.rs`) | hot map, cold index, counter, rebalancing flag | boundary, promote, evict to disk, fast read | execution gate, journal gates | a key is in one tier and not moved under a running command |
| Cold shards (`disk.rs`) | data file, index in memory | put, remove, compact, open, rebuild | placement | the index reaches whole, current records |
| Memory-mode eviction (`eviction.rs`) | key space, TTL flags | choose, journal a DEL, delete | commit path | replay repeats the live decisions; limit kept |
| Blocking lists (`pubsub.rs`, `lib.rs`, `cmd/lists.rs`) | waiter queues, one-slot channels | BLPOP, BLMOVE, drain, time out | commit path | elements neither duplicated nor lost |
| Data types (`cmd/`, `store/`) | entries with deadlines | the commands, expiry, the sweep | journal, snapshots | a replayed command computes what the live one did |
| Tables (`tables/mod.rs`) | rows, indexes, counters, deadlines | statements, cascades, expiry pass, schema changes | journal | constraints and indexes follow the rows, live and replayed |
| Queries (`tables/select.rs`) | — | TSELECT through indexes and fast paths | tables | every shortcut gives the plain answer |
| Broker and live queries (`pubsub.rs`, `http.rs`) | subscriber tables, bounded queues, sockets | publish, subscribe, deltas, refresh | all writers | a settled view is the query's answer |
| RESP (`lib.rs`, `resp.rs`) | sessions, budgets | read, execute, block, subscribe | all of the above | budgets exact, a reply per command |
| HTTP (`http.rs`, `limits.rs`) | connections, permits, budgets | head, body, gates, routes, sockets | auth, tables | role limits, budgets exact |
| Sessions, keys, accounts, grants (`auth.rs`, `auth/`, `grants.rs`) | auth.* tables, key cache | see section 2 | tables, HTTP | no credential outlives its revocation, no half-made account |
| Push (`push/`) | devices, credentials, outbox | register, enqueue, deliver, retry | tables | bounded, nothing dropped silently |
| Migrations (`migrations.rs`, `cli/`) | ledger | plan, apply, resume, repair | tables | the ledger tells how far each file got |
| Encryption (`encryption.rs`, `auth/secrets.rs`) | keyring, sealed state file, markers | INIT, ROTATE, REWRAP, RETIRE, migrate | store, journal, snapshots | no value loses its key, no plain secret stays |
| Restore (`restore.rs`) | staging, marker, backup | stage, commit at start, clean | journal, snapshots | old or new database, never a mixture |
| Local stack (`cli/src/`) | upgrade record, containers, volumes | start, stop, seed, upgrade, recover | Docker (external) | every acknowledged write is served |
| Embedded API (`embedded.rs`, `command.rs`) | pipeline, MULTI | push, run, close | commands | same effect and replies as the commands |

Paths are below `src/src/` (and `src/cli/` for the tool). Clients reach the store
through RESP, HTTP, Lua and the embedded API. All of them run commands on the calling
thread. Shared state is guarded by locks: the execution gate (shared by ordinary
commands, exclusive for EXEC), the tiered boundary (a counter and a flag), the
journal gates of the keys touched, the journal's mutex, and the shards' locks, taken
roughly in this order. Authentication, push, grants and migrations are layered on
tables: each *statement* is atomic, a *request* is several of them. The hard
behaviours are the places where the lock order has exceptions, where a request acts
on what an earlier statement read, where one of several durable steps fails, and
where the process or the machine stops between two of them.

## 2. Modules

A definition marked *Variant* is a deliberately faulty form of the one that
follows it, used only to show that a property notices the fault. Variables marked
*ghost* record history for properties and guard nothing.

### Durability: Journal, JournalProperties, DurableStore

`Journal` is the commit path, the save, the shutdown, crashes and recovery.

* A mutation is an issue number and the set of keys it changes. Appends happen
  under one mutex, so issue numbers grow along the file and stand for byte
  offsets; after a rotation the retained frames keep their numbers. A key's state
  is the set of mutations applied to it, which makes "lost", "twice" and "out of
  order" visible while the data types stay out of the model.
* The disk holds, beside the file a name denotes now, the older files it may
  denote again after a power loss (`staleWals`, `staleSnaps`), because a rename is
  durable only after the directory was synchronised. `FsyncPersistsName` says
  whether the file system also makes the rename durable when the file itself is
  synchronised (ext4 and XFS in practice do, POSIX does not promise it).
* A writer goes through `Begin`, `LockGate` (gates in ascending order),
  `PrepareJournaled` (second admission check), `AppendStart`/`AppendDone`,
  `SyncDone`, `Apply` key by key, `Complete`; and the error paths `AppendFails`,
  `RollbackDone`, `RollbackFails`, `ApplyFails`, `Reject`. A *checked* mutation is
  one that `commit_journaled_checked` can refuse after its append: it keeps the
  journal locked until it is applied or cut off again (`KeepsJournal`).
* The saver goes through `SaveBegin`, `SaveLockGate` (all gates), `Capture`
  (image and synchronised checkpoint), `Install`, `SyncSnapshotDir`,
  `CheckBeforeRotate`, `RotateAfter`, `SyncJournalDir`, `PoisonAfterRotate`.
* `BeginShutdown` … `Exit` cover both shutdown paths: the forced one closes the
  mutation boundary before it joins, the clean one after; in the model the
  boundary may close while writers are in flight.
* `ProcessCrash` keeps files as they are. `PowerLoss` picks a current or stale
  file for each name and cuts unsynchronised frames, the last one possibly torn.

`DurableStore` is what DURABILITY.md promises, in four actions: commit, withdraw
the newest, acknowledge, and fall back to an earlier moment that loses nothing
owed. `ImplementsDurableStore` states the refinement: the abstract store is what
recovery would rebuild from the files as they are.

### Around the execution gate: Transaction, Placement, Eviction, BlockingList

* `Transaction`: the gate with shared and exclusive holders, single writes, reads key
  by key, WATCH/EXEC/DISCARD, and a snapshot capture. EXEC changes memory command by
  command, buffers the recovery commands and appends them as one frame; when that
  fails the changes stay in memory and the poisoned journal must keep everybody
  from seeing them. Key events and list wakes are deferred past the commit.
* `Placement`: a key is hot, cold, or both while it moves. Commands count themselves
  in (`Spin`, `CountIn`, `Recheck`), promote, run, count out, and the one that leaves
  with memory above the ceiling becomes the rebalancer. RESP takes the execution gate
  before the boundary, HTTP after it, EXEC holds the gate over several boundaries.
* `Eviction`: the write prelude in memory mode. *Resolved* commands (SET, …) evict
  before they touch the journal; *generic* ones (INCR, SADD, …) run wholly inside
  `commit_journaled_checked`. Both occur alone and inside EXEC.
* `BlockingList`: clients look, register on every key, wait on a one-slot channel with
  a timeout, and deregister; pushers take waiters off the queue, reserve the channel,
  pop through the journal, send, and follow moves into the destination's queue.

### Data types: StoreEntry, StringCommands, CollectionCommands, StreamCommands, ShardReads, Keyspace

The command modules are operators: a command executed on a keyspace at an instant
gives the keyspace after it, the reply, and the commands that went to the journal
(`StoreEntry`). Most commands journal their own arguments; one whose effect depends
on the clock, on chance or on the state journals a resolved form. `ShardReads` is the
second implementation of the reads, for batched pipelines. `Keyspace` adds the clock,
the sweep, the save and the restart: `replayed` is computed by the same commands from
the snapshot and the journal. `KeyspaceInputs` holds the commands offered, in families
that can disturb one another.

### Tables: Tables, TableSelect

`Tables` has two tables with a primary key, a UNIQUE column, a row deadline and a foreign
key, which a table is created with or is given later (TALTER ADD), then perhaps to itself, and the structures derived from rows. A statement stages its effect against
the unchanged store and publishes it at once; `replica` is what the journaled row
images rebuild. `TableSelect` evaluates a plan through every index candidate set,
ordered scan, early limit, aggregate fast path and hash join the engine may choose,
against a reference evaluation by quantifiers. Where the engine iterates a hash set,
an operator yields the *set* of answers it may give.

### Access: AuthSessions, AuthKeys, AuthAccounts, Grants, HttpGateway, RespSession, RespParser, LiveQuery, Push

* `AuthSessions`: sign-in, refresh rotation, classification of reuse, revocation of a
  family, logout, ban; every table statement is a step.
* `AuthKeys`: look-up through cache and row, minting, revocation, and what a credential
  reaches over HTTP and RESP.
* `AuthAccounts`: sign-up, OAuth, flow tokens, administration. Any statement may fail, those
  that undo a half-made account too, and the process may restart between two of them.
* `Grants`: predicates resolved for a user, rendered to a filter or tested against a
  row, next to changes of grants and memberships.
* `HttpGateway`: connections through permit, head, body, gates, service and keep-alive,
  with live sockets that revalidate their credential.
* `RespSession`: pipelines on connections that share budgets, with transactions,
  subscriptions and blocking; `RespParser`: the incremental parser on a stream cut
  anywhere.
* `LiveQuery`: sockets kept up to date from bounded queues of row deltas and key events.
* `Push`: device registry, durable outbox, worker with crashes between any two writes.

### Files and operations: DiskShard, SnapshotFormat, SaveWorker, KeyRotation, SecretMigration, Restore, Migrations, LocalStack, Embedded

* `DiskShard`: cold files cell by cell, inodes and directory entries with what of them
  is durable, compaction through a hard link and a rename.
* `SnapshotFormat`: the token layout of every snapshot version, DUMP blobs and cold
  records; a reader out of step reads another value's token.
* `SaveWorker`: the worker thread, its channel and flags.
* `KeyRotation`: keyring, sealed state file, writers between fetching a key and storing
  the envelope, the shard-by-shard passes of REWRAP and RETIRE, two of which may run at
  once, failed file operations, restarts with another seal. `SecretMigration`: the start-up sequence that seals
  secrets of older releases and removes their history.
* `Restore`: staging beside a live server and the commit at start, which looks first at
  what an interrupted attempt has already done.
* `Migrations`: the ledger and the tools that drive it. `LocalStack`: start, stop,
  restore, seed and the engine upgrade, with every Docker command able to fail. Each CLI
  process holds a copy of the state file and writes the whole of it back; the lock is taken
  as the code takes it, by all but `lux seed run` and only when the file is there.
* `Embedded`: which argument lists become which typed command, and pipelines of raw and
  typed commands beside another client, a clock and a shutdown.

### Suites: MCLive, MCStore, MCAccess, MCData

A suite runs several modules in one TLC instance. `part`, chosen in Init, says which
of them runs; the others do not move, so the state space is the sum of theirs and not
their product. The suites also hold the input sets (requests, pipelines, byte streams,
plans, databases) and one property per part that gathers what the part promises.

## 3. Runs and what they show

Passing runs:

| Run | Instance | Shows |
|---|---|---|
| JournalAlways | `always_sync`; 2 keys, 2 writers, 2 mutations, 1 save, 1 crash, 1 power loss, 1 failed file operation | the journal implements `DurableStore`; memory and journal agree; the inductive invariants of the proofs hold (`Consistent`) |
| JournalPosix | only a directory sync makes renames durable; 1 key, 2 writers, 4 mutations, 2 saves, power loss anywhere | acknowledged and visible mutations survive; recovery is a prefix; nothing is replayed twice |
| JournalEverySecond | `every_second`, otherwise as JournalAlways | startup is never refused; a restart finds what clients saw; keys change in journal order; nothing passes the final sync |
| LiveSuite | journal without faults; 2 lists, 2 clients, 2 pushers | mutations, saves, shutdown and drains end |
| StoreSuite | Transaction, Placement, Eviction, BlockingList (about 1.6 million states) | isolation and atomic recovery; one tier per key; journaled evictions; conserved elements |
| AccessSuite | the nine access modules (about 2.5 million states) | the properties listed below |
| DataSuite | the twelve data and file modules (about 2.1 million states) | the properties listed below |

AccessSuite, by property:

* `SessionsSound` — a refresh token buys at most one successor, however many requests
  present it; after a reported revocation nothing of the family is current or handed
  out; a client that uses each token once is never logged out by reuse detection.
* `ApiKeysSound` — after an acknowledged revocation, once look-ups that had read the row
  are over, the key stays dead; an engine that ever had a key never serves anonymous
  callers again; a publishable key alone reaches no administration, RESP or data.
* `AccountsSound` — one account per address and identity, a mailed token accepted once,
  nothing left of a creation that failed half-way unless its clean-up failed as well.
* `GrantsSound` — filter and predicate select the same rows, and a statement touches and
  leaves only rows the grant gave at a moment of the request.
* `HttpSound` — permits, bytes and workers are what the connections hold; nobody is
  served beyond a role; a socket outlives its credential by at most a second.
* `RespSound` — budgets are what the sessions hold however they end, each command has its
  reply, and the cuts into packets lose, repeat or reorder no command.
* `LiveSound` — a socket with nothing left to receive shows what its query returns.
* `PushSound` — quota, capacity and attempts are bounded; a notification leaves the outbox
  accepted or as one of the oldest dead letters.

DataSuite, by property:

* `KeyspaceSound` — a restart rebuilds the keyspace while no deadline on record has
  passed; batched reads answer as single ones; pending lists of a stream group agree.
* `TablesSound`, `SelectSound` — derived structures, constraints and the replayed rows
  agree with the rows, through cascades along self references too; every evaluation path
  gives the reference answer.
* `DiskSound` — across failed appends, interrupted compactions, kills and power losses an
  open shard's index reaches whole records, at least as new as what was promised.
* `SnapshotSound` — a file of any version loads as what was saved, minus what expired;
  damage is refused where the format has a digest and loads a prefix where it has none.
* `SaverSound` — single flight; the worker wakes for a shutdown.
* `EmbeddedSound` — what a pipeline applies is what it journals; replies are those of the
  commands at their time, errors only for a reserved key or a closed gate; prepared commands
  route like the same arguments over RESP, and `is_write` and `is_read` say the same.
* `EncryptionSound` — no value in memory, journal or snapshot loses the key it needs; once
  marked migrated no secret is left in plain text.
* `RestoreSound` — the next start serves the old or the new database whole, the replaced
  one stays recoverable, nothing blocks for ever.
* `MigrationsSound` — the ledger tracks what ran, one file at a time and in order; what is
  settled neither changes nor runs again.
* `StackSound` — whatever engine runs serves every acknowledged write, after upgrades, restores
  and `--clear`; the automatic seed runs once.

Runs that TLC refutes, each a disagreement between the code and what the
repository says of it (quoted in `PROJECT.json`, "findings"):

| Run | What happens |
|---|---|
| JournalRotateWindow | a rotation's directory sync fails; between the release of the journal's mutex and the poison flag a waiting mutation is acknowledged on a file that a power loss removes |
| PlacementGateOrder | an HTTP request counted in waits for the gate that EXEC holds while EXEC waits for the count to reach zero |
| EvictionUnderLock | a generic write evicts under the journal's mutex and waits for it again |
| BlockingRegister | a push between the empty check and the registration wakes nobody |
| KeyspaceReplay | a key whose TTL was refreshed is deleted when the journal is replayed after its first deadline |

### Exceptions the properties name

Some windows are visible in the models and excepted by name in a property or a ghost,
so that the run shows there is no other. They have no run of their own:

* journal: after a crash between a rotation's rename and its directory sync,
  `Wal::open_in` (`disk.rs:272`) appends to a file whose name is not durable; a frame
  written but not synchronised is replayed, served, and lost to a power loss
  (`store/mod.rs:3439`); a failed sync in `Wal::checkpoint` does not poison
  (`disk.rs:480`);
* lists: an element popped for a waiter that has just given up goes to nobody (`lost`);
* eviction: in EXEC a generic command precedes in the journal the evictions that
  preceded it in memory; a key that lost its TTL after being chosen is still evicted;
* live queries: `ksubscribe` (`pubsub.rs:679`) counts a subscription after releasing the
  lock, so an event between is not published (`missed`);
* key rotation: an envelope made before ROTATE and stored after the scan of RETIRE
  (`store/mod.rs:2265`), a key id used twice, an INIT whose directory sync failed; and two
  RETIREs at once (`crossed`): neither `cmd_enc` nor `enc_retire_key` takes a lock, so each
  may scan while it counts on the key that the other drops, and a value wrapped by those
  two keys is left with none (`store/mod.rs:2265-2341`);
* cold shards: a power loss between a compaction's link and its durable rename makes the
  next open refuse (`disk.rs:1268`); a failed append whose truncation fails too (`spoilt`,
  `disk.rs:1378`) leaves bytes past `total_bytes`, so that what is put behind them is indexed
  where no record begins until the next open; what was there before stays reachable;
* snapshots: the header of four bytes is not part of the digest (`snapshot.rs:847`);
  versions 1 to 4 cut at an entry boundary load as a shorter database; a remaining TTL
  below one millisecond is written as "no expiry" (`snapshot.rs:604`);
* tables and queries: LIMIT may apply before GROUP BY (`select.rs:1334`), the COUNT fast
  path counts expired rows, `expire_due_rows` stops at the first restricted row,
  dropping a table leaves index keys, ALTER with a UNIQUE default makes duplicates; in a
  table with a reference to itself, a statement that claims the unique value of an expired
  row purges that row, and when the cascade reaches a row which the same statement writes or
  refers to (`entangled`), it writes that row back without its index entry or with a
  dangling reference (`tables/mod.rs:3769`, `3936`);
* data types: ZUNIONSTORE and its kin may compute a NaN score (an infinite one with weight 0)
  and journal it as a ZADD that replay refuses (`JournalsNaN`, `store/sorted_sets.rs:809`);
  HINCRBY of a text field ends the field's deadline, then fails and journals nothing
  (`slipped`, `store/hashes.rs:333`); a single ZCOUNT with a reversed range answers 0 on a key
  of another type where a batched one answers WRONGTYPE (`store/sorted_sets.rs:487`,
  `cmd/mod.rs:3429`), and over all scores counts a NaN which the batched one does not
  (`store/sorted_sets.rs:498`);
* grants: with OR grants an UPDATE may move a row out of the grant that admitted it
  (`auth.rs:5932`);
* API keys: a look-up that read the row before a revocation caches it after
  (`auth.rs:2872`), so `ApiKeysSound` does not exclude that race, it shows that there is no
  other; accounts: overlapping deletions leave identities or sessions, and so does a clean-up
  statement that fails, whose error the code drops (`ignored`; `auth.rs:1102`, `1111-1119`,
  `1135-1143`, `1187`, `1793`, `2784`). The failure that makes a creation fail may have poisoned
  the journal, and then the clean-up is refused for certain;
* RESP: an array of negative count ends a read (`resp.rs:391-393`); the commands behind it stay
  in the buffer until more bytes arrive, so there the cuts show in time;
* push: a late "gone" disables a token registered again; a crash repeats a delivery;
* migrations: a crash between a command and its count leaves the row for repair by hand;
* local stack: a first `lux start` finds no state file and takes no lock (`cli/src/lib.rs:3396`),
  so that a command beside it may seed twice or leave an engine on another volume (`raced`);
  `lux seed run` takes no lock and writes back the whole state file it read before
  (`cli/src/lib.rs:5304-5325`), the volume included, after an upgrade has changed it (`stale`);
* embedded: a read run uses the time its pipeline began; typed reads and PUBLISH bypass
  an open MULTI; a blocking command in `pipeline()` fails after earlier ones took effect; a
  raw batch of reads or PUBLISHes that finds the gate shut gets one error for all its
  commands (`lib.rs:4179`).

The exceptions `crossed`, `spoilt`, `entangled`, `JournalsNaN`, `slipped`, those of ZCOUNT,
`raced` and `stale` were each taken out once, and TLC then refuted the property; `raced` in
`ServesEveryWrite` needs a third command after the two that race, which the bounds of
DataSuite leave out.

### Bounds

Every bound is a named constant in a guard. Two writers and two keys give each lock a
competitor and multi-key mutations both a shared and a private gate; the save protocol
needs a mutation before, during and after a capture and a second save to meet the first
one's leftovers (JournalPosix). One crash, one power loss and one failed operation let
each pair meet. Placement needs one unspillable key, a limit of one value and three
commands so that a promotion, a rebalancing and a reader overlap; Eviction two keys
above the limit and one retry (`MaxTries` stands for the 128 rounds); `MemoryBounded` is
exercised within these three commands. BlockingList needs a waiter registered on two
keys and a move that feeds the second. Access modules have two concurrent requests where
the question is a race between requests, and a single request beside administrators and
a clock where it is staleness. RESP clients make two reads each of any of the listed
pipelines. The queues of live queries and the outbox have room for one, so that each
bound is met. Tables take three statements and have two values of the unique column, enough
for a parent, a child and what removes one of them, in two tables or in one with a reference
to itself. Cold shards see three versions, two crashes and one fault; key
rotation five ENC commands and restarts together, two of REWRAP and RETIRE at a time, with
one fault and one restart; restores two, with six file
operations; migrations two files of two commands, two faults, two repairs; the stack
three volumes, so two upgrades, two CLI processes, four commands of which one discards data,
two writes and two faults, and no command after two that raced. Symmetry is used for writers, clients, requests, sessions
and interchangeable keys, never in a liveness run; DataSuite uses none, its interchangeable
key ids, disk keys and CLI processes are numbered in order of use (`Nameable`, `FirstKey`,
`Issued`), an `UPDATE` sets one column, or none and the deadline (`OneColumn`), and a key
rotation is followed no further once its property sets it aside (`Awry`).

### Deadlock checking

The journal runs and the transactions of StoreSuite check deadlock (its other parts may
stop, which the suite's last disjunct allows). In LiveSuite a stuck state is a violated
property. AccessSuite, DataSuite and the violation runs end when their bounds are used
up, so their configurations switch the check off.

### Fairness

* LiveSuite: weak fairness per writer, for the saver, the closer and the restart, and
  per pusher: OS threads make progress, the locks have bounded critical sections and a
  bounded number of competitors. Nothing is assumed of clients, who may wait for ever.
* PlacementGateOrder, EvictionUnderLock: weak fairness per thread; every spin loop
  yields. The stuck threads are thus not due to a thread that is never scheduled.
* The other runs check safety and state no fairness.

## 4. Proofs

Eleven components are proved: `Journal` (`JournalProofs`, and `JournalPowerProofs` which
extends it), `Transaction` (`TransactionProofs`), `BlockingList` (`BlockingProofs`),
`Placement` and `Eviction` (`PlacementProofs`), `AuthSessions` and `AuthKeys`
(`AccessProofs`), `AuthAccounts` and `Push` (`AccountProofs`), `HttpGateway` and
`RespSession` (`GatewayProofs`).

### The journal

The proofs hold for every number of keys, writers, mutations, saves, process crashes,
power losses and failed file operations, for both policies and both kinds of file system.

| Theorem | Says |
|---|---|
| `TypeCorrect` | `Spec => []TypeOK` |
| `FinalSyncIsFinal`, `JournalOrder` | the action properties `NothingAfterFinalSync` and `AppliedInJournalOrder`, without any hypothesis |
| `InvariantHolds` | `Spec => []Consistent`, the inductive invariant |
| `CrashSafety` | a restart at any moment is not refused, rebuilds every acknowledged and every visible mutation, repeats none |
| `LiveMatches` | memory is what the files rebuild, up to the mutation in flight |
| `NoRefusal`, `AppliedOnce`, `PrefixRecovers`, `AcknowledgedRecovers` | the same questions about every pair of files a power loss may leave |
| `VisibleSurvives` | under `always_sync` what a reader sees survives a power loss |
| `Refinement` | the journal implements `DurableStore` |

**Hypotheses.** `CrashSafety` and `LiveMatches` hold up to the first power loss
unconditionally. Whatever speaks of a power loss is proved while `SafeNames` holds:
the file system makes a rename durable with the next sync of the file, or no process has
crashed and, where a directory sync can fail, no file operation has failed, so that nothing
has come between the rename of a rotated journal and its directory sync. Without it the properties are false: run
JournalRotateWindow shows the failed directory sync, and the exception named in
section 3 (`disk.rs:272`) is the crash. `VisibleSurvives` supposes that there was neither
a crash nor a failed operation, since recovery serves a frame that was written but
never synchronised (`store/mod.rs:3439`). The assumptions on constants
(`NumKeysAssumption`, `FlagsAssumption`, `BoundsAssumption`, `WriterAssumption`,
`FiniteWriters`) say that they are numbers, flags and finite sets of the right kind.

**The argument.** `TypeOK` alone is not inductive: `RotateAfter` gives the journal the
generation the capture chose, so `TypeCorrect` carries `CaptureTyped`. A restart's safety
says nothing of locks, yet fails without them: a capture is right only because nobody is
between append and apply while all gates are held, and cutting off a refused command is
right only because its frame is last. `JournalInv` therefore has five parts beside the
type:

* `LockInv`: whoever is past a lock holds it;
* `FrameInv`: an active writer's frame is in the file; the frame of whoever holds
  the journal is last; a frame that recovery would drop is last, and in a healthy
  process its writer still holds the journal;
* `SnapInv`: the journal's generation is the snapshot's or the one it authorised,
  and a rotated journal has nothing from before the checkpoint;
* `CaptureInv`: until it rotates, what the saver captured describes the present
  journal: recovering from it gives the same result as from the installed snapshot;
* `LiveInv`: acknowledged and visible mutations are recoverable, and while healthy
  everything recoverable is visible or in flight.

`JournalProofs` shows that every step but `PowerLoss` preserves it: a lemma per
action that touches the files, `QuietStep` for those that do not, lemmas about
`Recovered` that say when a change of frames does not change what recovery rebuilds.

A power loss needs to know the files it may bring back, `PowerInv`:

* `NamesInv`: at most one of the two names is stale; the journal's only where its next
  sync makes the name durable or its directory is about to be synchronised, never
  while a capture is under way; the snapshot's no longer once its directory was;
* `PairsInv`: every present or stale snapshot fits every present or stale journal, and
  below any offset that both have all pairs rebuild the same mutations;
* `HardenedInv`: what a completed sync covered is below the synchronised length of
  every journal file a name may denote;
* `VisibleInv`: under `always_sync`, and before the first fault, what is visible is
  synchronised;
* `ShutdownInv`: behind the final sync no writer is past admission.

`CutIs` says what a power cut does to one file, and `CutFits` that a cut of fitting files
fits and recovers the part of the history below the cut. `CalmStep`, `SyncStep` and
`ChangeStep` are the three ways in which a step can touch the pairs (not at all, by a
sync, by adding or removing the last frame); the save's steps have lemmas of their own.
`NextPower` puts them together, and `PowerLossPower` gives the invariant back after the
loss, so `Consistent` is inductive through any number of them.

`JournalOrder` rests on `OrderInv`: every number in memory or in a file was handed out
before (`IssuedInv`), and while a mutation is between append and apply its keys have no
later one (`NewestInv`), which rests on their gates.

`Refinement` maps the store of `DurableStore` to what recovery would rebuild:
`AppendDone` is `Commit`, a rollback (`AppendFails`, `Reject`) is `Withdraw`, `Complete`
is `Acknowledge`, `PowerLoss` is `Lose`, and every other step stutters, captures,
installs, rotations, crashes and recoveries among them. `BoundInv` (at most
`MaxMutations` numbers are given out, counting the writers that were let in) keeps the
numbers within the abstract `Id`.

TLC checks `Consistent` in JournalAlways before it is used.

### MULTI/EXEC

For every set of keys and clients and every bound; the assumptions are that a client is
neither `Nobody` nor the saver (`ClientAssumption`) and that `MaxQueue` is a number
(`QueueAssumption`).

| Theorem | Says |
|---|---|
| `TransactionInvariant` | `Spec => []TransactionInv`, the inductive invariant |
| `TransactionsRecoverAlways` | `StoreSpec => []TransactionsRecover`: crash, snapshot and key events see a transaction whole or not at all; a healthy quiet database is what a restart rebuilds |
| `TransactionsIsolatedAlways` | `StoreSpec => TransactionsIsolated`: no reply shows an uncommitted mutation or a part of a transaction; EXEC runs only if the watched keys are as WATCH left them |

**The argument.** Memory is not always what the journal rebuilds: a running EXEC has
applied what it has not journaled, a single write has journaled what it has not applied,
and an EXEC whose append failed leaves its changes in memory for good. `MemInv` says
exactly how far memory and journal are apart (`Exact`) and when that can be relied upon
(`Trusted`): while the journal is healthy, and after it was poisoned as long as a client
that entered the gate before is still inside. The second case is what makes the single
health check inside the gate enough: whoever poisons the journal and leaves memory dirty
is an EXEC, and it had the gate alone. The other parts:

* `GateInv`: EXEC is alone inside, a command under way is inside, nothing is buffered
  unless EXEC runs;
* `NumbersInv`: every recorded command was numbered before;
* `FramesInv`: a frame is incomplete only while EXEC appends it; a single write between
  append and apply has its frame; what EXEC has buffered is in no frame yet; a frame
  holds a batch whole or nothing of it;
* `ReadInv`: what a read has collected is committed, and it has of every transaction
  what the journal has, because no batch can commit while a reader is inside;
* `WatchInv`: a watched key with an unchanged version has the contents WATCH saw, unless
  the journal is poisoned (an apply that fails half way changes memory without a new
  version, `ExecApplyFails`).

TLC checked the invariant on two keys, two clients, two mutations and two faults.

### Tiered placement

For every set of threads, every finite set of keys, every memory limit and every bound.
The assumptions: no thread is `Nobody` (`ThreadAssumption`), the keys are finitely many
and the limit is a number (`LimitAssumption`), the surfaces are those of the code
(`SurfaceAssumption`).

| Theorem | Says |
|---|---|
| `TierInvariant` | `StoreSpec => []TierInv`, the inductive invariant |
| `TiersAlwaysSound` | `StoreSpec => TiersSound`: one place per value, promoted keys stay, memory is back under the limit when nobody is inside, the fast read path answers the last value |

**The argument.** `OnePlace` speaks of keys whose gate is free; it needs to know what is
true while somebody holds it. The parts of `TierInv` beside the type:

* `KeyGateInv`, `CommandKeyInv`: the gate of a key is held by the thread that is loading
  or removing it, and by nobody else;
* `PlaceInv`: half way through a promotion the value is in the thread's hands, half way
  through a spill it is in both places and they agree; a promoted key is not on disk;
* `BoundaryInv`: whoever is past the boundary is counted, the rebalance flag is its
  owner's, and nobody is past the boundary while keys are spilled. The rebalancer saw
  the count at zero with the flag up, and whoever counts in afterwards reads the flag
  again (`Recheck`) before it goes on; either half alone is not enough;
* `CeilingInv`: memory over the limit is somebody's duty, a rebalancer's or that of a
  thread still to pass `Leave` and `Claim`, or the last spill has given up.

The proof found one slip in the model: in `EvictGivesUp` the counter of errors was
constrained only inside the quantifier over the keys that may be spilled, so not at all
when there are none. TLC checked the invariant on 951,598 states first.

### Blocking lists

For every set of lists, clients, pushers and waits and every bound. `ListAssumption`: a
client that blocks is not a thread that pushes, a wait names one list or more and a
destination or none.

| Theorem | Says |
|---|---|
| `BlockingInvariant` | `StoreSpec => [](part = "lists" => ListInv)`, the inductive invariant |
| `ListsAlwaysConserve` | `StoreSpec => []ListsConserve`: every element pushed is in exactly one place |
| `PermitsKept` | `StoreSpec => [](part = "lists" => ReservedInv /\ Lists!TypeOK)`: a channel is reserved only while a drain works for it |

**The argument.** The places (a list, the hands of a drain, a channel, the answers, the
losses) hold disjoint sets whose union is what was pushed (`Partition`), and a list has no
element twice (`DistinctInv`). Every step moves one element between two places
(`MoveKeeps`), adds a new one (`NewKeeps`) or none (`CalmKeeps`). The step at risk is
`Send`, which would overwrite an element if the channel were full. `PermitInv` excludes
it: whoever is between the reservation and the send, for a channel that is still the one
the waiter registered with, has it reserved, and nobody else has. That a channel opened
later is not mistaken for it rests on `next_waiter_id` alone. A waiter that is put
back is one that has no element yet (`PusherOK`), and what `retain` leaves of a queue
is a queue of waiters (`RetainTyped`, by a least counterexample). TLC checked the invariant
on 849,218 states first.

`ReservedInv` is the other direction of `PermitInv`: a reserved channel has a drain at
work for it, so no waiter is left with a permit that nobody will use.

### Memory-mode eviction

For every finite set of keys and of threads, every set of protected keys, every policy,
limit and bound, and for the kinds of commands whose journal order is their order in
memory (`SafeKinds`; section 3 names the other). The assumptions: no thread is `Nobody`
(`ThreadAssumption`), keys and threads are finitely many, the limit is a number and the
protected keys are keys (`EvictionAssumption`), an EXEC queues a number of commands
(`QueueAssumption`).

| Theorem | Says |
|---|---|
| `EvictionInvariant` | `StoreSpec => [](part = "eviction" => EvInv)`, the inductive invariant |
| `EvictionAlwaysSound` | `StoreSpec => EvictionSound`: replay rebuilds memory, evictions included; memory passes the limit by at most a key per thread; no key of a table is taken away |
| `StoreTypes` | `StoreSpec => []StoreTypeOK`: the types of the four modules around the execution gate, with what they say of the boundary, the permits and the journal's lock |

**The argument.** `ReplayMatchesMemory` speaks of keys whose gate is free, outside EXEC.
The parts of `EvInv` beside the type:

* `KeyOK`: a key nobody owns is in memory what the journal, with the frames EXEC has
  buffered, rebuilds;
* `MatchOK`: between append and apply the owner's key differs from it by exactly the
  owner's frame, and between the DEL and the removal the victim by exactly the DEL;
* `LastOK`: a generic command may take its frame back (`Reject`). It may because it keeps
  the journal locked from its append on, so that its frame is still the last and the
  journal without it rebuilds what is in memory;
* `LocksOK`, `CommandOK`: who holds which gate and the journal. A generic command holds
  the journal itself while it evicts, so it never gets to append a DEL; a victim is no
  key of a table;
* `BoundInv`: the keys in memory and the threads that have passed the check of the limit
  and not written yet are together at most the limit and one per thread; a write trades
  such a thread for a key.

What replay does with one more frame (`ReplayAppend`) is proved of the recursive function
that the model uses, by a least counterexample over the length of the journal. TLC checked
the invariant on 293,726 states first.

`StoreTypes` corrected a type: `BlockingList` bounded the length of a queue by the number
of waits, but one wait may name a list twice. `ListWait` of the runs has no such wait.

### Refresh tokens

For every set of sessions and of concurrent requests, every lifetime and every bound.
The assumptions: a session identifier is not empty (`SessionAssumption`), lifetimes and
bounds are numbers and leave room for the two tokens of the older release
(`TimesAssumption`).

| Theorem | Says |
|---|---|
| `SessionInvariant` | `AccessSpec => [](part = "sessions" => SessInv)`, the inductive invariant |
| `SessionsAlwaysSound` | `AccessSpec => SessionsSound`: one successor per token, revocation is final, no false alarm |

**The argument.** A request signs the successor before it knows whether the UPDATE will
be its own, so two requests with one token hold two successors and only one may reach a
client. The parts of `SessInv` beside the type:

* `RequestInv`: a request knows its session, its token and, once signed, the successor;
* `NumberInv`: until the UPDATE the number of a successor is in no row, in no client's
  hands, and no other request has it;
* `CurrentInv`: a hash is current in one row only; an exchanged token was exchanged once
  and is current nowhere; a signed token is the current one of its session, with its
  generation, or its generation is past and it was exchanged. The second disjunct is what
  lets `classify` read an old generation as reuse;
* `UniqueInv`: no two tokens share a number;
* `RevokedInv`: a reported revocation is in the row, a row that exists has a family;
* `ShownInv`, `AlarmInv`: what was exchanged had been presented; a refresh whose token
  was meanwhile exchanged, or is being refreshed by another request, makes the second
  presentation. Hence whoever is about to revoke for reuse (`reuse_detected`, also after
  `rotation_lost`) has seen a token twice, or one of the older release.

Each action has a lemma that says what it does to rows, requests and tokens
(`RotateEffect`, `PresentEffect`...); `StepKinds` reduces the steps to signing, issuing,
rotating, presenting, and those that touch no token (`Calm`). TLC checked the invariant
on 3.8 million states first.

### Project keys

For every set of keys, callers and secret keys and every lifetime of the cache; the
assumption is that keys differ from the other things a request may present and that
times are numbers (`KeyAssumption`).

| Theorem | Says |
|---|---|
| `KeyInvariant` | `AccessSpec => [](part = "keys" => KeysInv)`, the inductive invariant |
| `ApiKeysAlwaysSound` | `AccessSpec => ApiKeysSound`: a revoked key is not granted again, an engine with keys does not reopen, a publishable key is contained |

**The argument.** A look-up may read a row before a revocation and fill the cache after
`invalidate_api_key_cache`, so "revoked, therefore not cached" is not an invariant.
`RevocationStep` says that the stale look-ups are all there is: `RowsInv` (a
key that was ever created keeps its row, an acknowledged revocation is in it) makes
every later look-up fill in a miss, and time only lets entries expire. `FoundInv` (an
entry, and what a look-up under way has seen, is the kind of the key or a miss) contains
publishable keys; `LookInv` says that only keys are looked up.

### Accounts

For every set of users, addresses, provider accounts, tokens and concurrent requests;
the assumption is that an address and a provider account are not empty and that no
address is the placeholder of an anonymous user (`AccountAssumption`).

| Theorem | Says |
|---|---|
| `AccountInvariant` | `AccessSpec => [](part = "accounts" => AcctInv)`, the inductive invariant |
| `AccountsAlwaysSound` | `AccessSpec => []AccountsSound`: one account per address and identity, a mailed token accepted once, no half-made account |

**The argument.** A request is several statements and none of them sees what the others
saw. `OneAccountPerEmail` is inductive by itself: it rests on the UNIQUE columns, the
checks that sign-up makes first add nothing to it. `FlowTokenOnce` rests on the one
statement that marks a token and reports whether it did (`UsedInv`). `NoOrphans` rests on
order, `InOrder`: an identity is inserted after its account, and whoever is about to
delete an account has deleted its identities before. The second half is only true if
nobody inserts an identity between the two statements, so it is stated for requests that
ran alone, and `AloneInv` says that such a request is the only one; `overlap` records that
a deletion was not. A statement of the clean-up may fail like any other and the code goes on:
`ignored` records the accounts for which it did, and `InOrder` holds for the others. A
request that would have to delete its account if its next statement failed (`MayUndo`) has
not given it an identity yet. A restart (`Restart`) forgets the requests and keeps the rows;
it leaves no orphan because identities are inserted after their account and deleted before. `ActOK` says that a request knows the id, address or subject that its
next statement writes.

### Push delivery

For every set of subjects, device tokens and concurrent senders, every quota, outbox
capacity, number of attempts and number of dead letters kept, and every bound on sends and
faults. `PushAssumption`: the limits are numbers and a notification is tried at least once
(the constants of `push/mod.rs` and `push/worker.rs`), tokens are finitely many, and a
sender is not the worker.

| Theorem | Says |
|---|---|
| `PushInvariant` | `AccessSpec => [](part = "push" => PushInv)`, the inductive invariant |
| `PushAlwaysSound` | `AccessSpec => PushSound`: quota, capacity and attempts are bounded, and a row leaves the outbox accepted or as one of the oldest dead letters |

**The argument.** Two checks are made in one statement and acted on in the next. The quota
survives because a registration past its decision holds the registry, so the devices it
writes to are the devices it counted (`RegisterOK`); the capacity because a send past the
count holds the enqueue guard and the worker, which does not take it, only removes rows
(`SendOK`). The worker delivers without a lock: what it may do to a row rests on the rows of
its batch staying pending until their outcome is applied, and on an "ok" outcome having
been accepted by the service (`WorkerInv`). The bound on attempts counts what a crash makes
the worker forget (`AttemptInv`): a pending row was tried as often as it says, once more if
its outcome is known and not applied, and once more for each fault. That pruning takes the
oldest is a counting argument on the set of dead rows. TLC checked `PushInv` on 885,956
states before it was proved.

### The HTTP gateway

For every finite set of connections, every set of requests each may send (`Requests`; the
run gives it `HttpRequests`), every limit and every bound. `HttpAssumption`: a request has
a size and a Studio token a number, limits are numbers, at least one Studio session is kept.

| Theorem | Says |
|---|---|
| `HttpInvariant` | `AccessSpec => [](part = "http" => HttpInv)`, the inductive invariant |
| `HttpAlwaysSound` | `AccessSpec => []HttpSound`: permits, request bytes and workers are what the connections hold; nobody is served beyond his role; a socket outlives its credential by at most one tick |

**The argument.** The budget of bytes is the library's sum over the connections. That such a
sum exists, is a number, and changes by the difference when one summand does (`SumExists`,
`SumIsNat`, `SumChanges`) is proved from the definition of the fold, by least
counterexamples over the size of the set; then `Balanced` says of each action that the
counters follow the one connection that moves. The parts of `HttpInv` beside the type:

* `HeldOK`: what a connection is charged follows from how far its request has come;
* `ContextOK`: a user was recognised while authentication was configured, a key while there
  were keys, a Studio session by a number that was issued, from a trusted origin;
* `RoleOK`: who is past the gate was let in for his role, or while the engine had no gate.
  A gate may come up between the check and the service but never goes down, so an engine
  without one now had none then;
* `StaleOK`: a socket that a tick found void has not been looked at since, and the look
  will find it void still. `VoidStays` rests on what cannot come back: a revoked key, a
  past deadline, the number of a Studio session;
* `StudioInv`: one Studio session for each origin, at most `MaxStudio`, with numbers that
  were issued.

TLC checked the invariant on 183,996 states, the whole of the suite's instance, first.

### RESP sessions

For every finite set of clients, every set of pipelines each may send (`Pipelines`; the run
gives it `RespPipelines`), every limit and every bound (`RespAssumption`).

| Theorem | Says |
|---|---|
| `RespInvariant` | `AccessSpec => [](part = "resp" => RespInv)`, the inductive invariant |
| `RespBudgetsExact` | `AccessSpec => [](part = "resp" => Resp!SessionsExact /\ Resp!RepliesInStep)`: the first conjunct of `RespSound` |

**The argument.** The sums are those of the gateway; `Settles` says that bytes, subscriptions,
permits and the broker's topics follow the session that takes the step. `SessionOK` is what
makes them exact: a session holds the bytes of its queue, its watched keys and its name; a
read still under way is charged for every command of it; and the commands it asked for are
those answered, those still to do and the one that waits. The last is stronger than
`RepliesInStep`, which looks only at the end of a pipeline. Each command is a lemma about
the session it leaves behind (`Follows`, `AnswerOK`), the end of a connection one about what
goes back (`EndStep`), whether it left, was aborted or lost its key while it waited. A topic
leaves the broker with its last listener (`TopicsRemove`, `TopicsLeave`). The proof found
that `Dispatch` chose between overlapping arms of a CASE, which TLA+ leaves open and TLC
resolves by their order; the closed gate is now decided first. TLC checked the
invariant on 138,264 states, the whole of the suite's instance, first.

### Only model-checked

Liveness (fairness and ENABLED are outside the prover); every module other than
`Journal`, `Transaction`, `Placement`, `BlockingList`, `Eviction`, `AuthSessions`,
`AuthKeys`, `AuthAccounts`, `Push`, `HttpGateway` and `RespSession`. The properties of `MCData` stay with TLC because its modules
reach RECURSIVE operators, for which the prover has no arithmetic. `AccessTypeOK` joins the
type invariants of all modules of its suite; the invariants above carry the types of the
proved ones. The second conjunct of `RespSound`, the parser, is about what a fold computes
for given streams. What a recursive function computes for every input (parsers, folds over
journals, replays) stays with TLC, but for the queue of `Retain` and the replay of an
eviction's journal.

## 5. What is left out

* Bytes: frame encoding, checksums, ciphers, JSON and HTTP payloads. A frame is whole or
  torn; a damaged frame in the middle of a journal is not a crash outcome.
* The version with which table readers outside the gate detect a publication
  (`store/mod.rs:2771`): statements are atomic in `Tables`.
* The reservation of request bytes for each message of a live socket (`http.rs:2260`), and
  the limits on the rows of the device table and on the deliveries of one send
  (`MAX_DEVICE_ROWS`, `MAX_DELIVERIES_PER_SEND`).
* The auth-degraded early return of a save and a panic inside a checked apply.
* BLMPOP, the blocking sorted-set pops and XREAD BLOCK; SCAN cursors, SORT, bit and
  geographic operations, HyperLogLog, vectors and time series; Lua's interpreter.
* JSON, vector and full-text columns of tables; NEAR and JSON paths in queries.
* An `accept` that fails ends a listener (`lib.rs`, `http.rs`): no model of it; EXEC may wait
  for readers for ever if the lock let newcomers pass (`store/transactions.rs:170`), which
  depends on parking_lot; a key event is sent for a direct command whose write failed
  (`lib.rs:4229`).
* The commands of the tool that are plain requests to the server, the SDK, the
  maintenance binaries, file permissions and logging.

Components with status `partly` or `not_modelled` in `PROJECT.json` say what is missing.

## 6. Plan

Modelled, in this order: journal, snapshots, recovery and shutdown; transactions,
placement, eviction, blocking lists; the data types and their
replay; tables and queries; access; files and operations; the proofs of section 4.

Proofs to add, by importance: `GrantsSound`, the registry of `LiveQuery`.

Models to add: the remaining blocking commands with the stream waiters, table
publication against readers outside the gate, Lua scripts as atomic batches.
