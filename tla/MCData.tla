------------------------------- MODULE MCData -------------------------------
(***************************************************************************)
(* The modules that keep, convert and move data, checked one at a time:    *)
(* part says which of them runs, the variables of the others are 0.        *)
(***************************************************************************)
EXTENDS Tables

CONSTANTS Key, Step, MaxCommands, MaxTicks, MaxSaves, MaxString, Pks, StrVals,
  IntVals, MaxCandidates, DiskKey, MaxVer, MaxIno, MaxDiskFaults, MaxDiskCrashes,
  MaxSnapClock, MaxItems, Altered, MaxBgSaves, MaxTimeouts, Reserved, EmbExpiring,
  MaxEmbClock, MaxOthers, EncKey, VectorKey, EncShards, KeyId, EncWriter, EncTasks,
  MaxEncWrites, MaxEncOps, MaxEncFaults, MaxEncRestarts, Field, MaxSecretStarts,
  MaxJournal, MaxRestores, MaxRestoreOps, Runner, Files, Steps, Unfit, MaxEdits,
  MaxMigFaults, MaxRepairs, Cli, MaxVol, MaxWrites, MaxDockerFaults, MaxStarts,
  MaxFresh

VARIABLES
  part,        \* the module that runs
  db, now, journal, dump, lapsed, slipped, family, room,
  table, lapsedRows,
  ino, dir, dirs, shard, compacting, ver, safe, floor, diskFaults, diskCrashes,
  refusedOpen, blackout,
  snapDb, snapFmt, snapAt, image, harm, snapClock, loaded,
  savePhase, slot, worker, scheduled, noSaves, halt, shutter, accepted, done, asked,
  fired,
  embDb, embClock, pipe, pipeMode, collect, at, began, outs, ended, embJournal,
  multi, queued, published, embUp, accepting, others, offered,
  ring, ringFile, ringSafe, sealFile, seal, vals, encLog, encSnap, pen, task, epoch,
  firstLost, named, reused, crossed, encDown, left,
  secretSnap, log, secretRows, stage, keyed, required, startsLeft,
  phase, mem, snapFile, jrn, staged, marker, kept, stager, guard, bound, truth,
  before, ops, nextId, gen,
  migLock, ledger, content, run, ran, volatile, manual, budget,
  cliLock, state, mine, pending, con, probe, vols, imports, data, snap, acked,
  seeded, raced, stale, cli, stackLeft

Inputs == INSTANCE KeyspaceInputs

\* The foreign key of c points to p.
TableRefs == [c |-> "p", p |-> "none"]

(* Plans of table queries: filters on an indexed string column s, an       *)
(* indexed number n and the primary key, with orders, pages, aggregates,   *)
(* groups and joins.                                                       *)
Is(c, o, v) == [col |-> c, op |-> o, val |-> v, vals |-> {v}]
Plan(w, o, a, l, f, g, gr, h, j) ==
  [where |-> w, order |-> o, asc |-> a, limit |-> l, offset |-> f, agg |-> g, group |-> gr,
   having |-> h, join |-> j]
Wheres ==
  {<<>>, <<{Is("s", "=", 1)}>>, <<{Is("n", ">", 1)}>>, <<{Is("n", "<=", 1)}>>, <<{Is("s", "!=", 1)}>>,
   <<{Is("n", "isnull", 0)}>>, <<{Is("s", "notin", 1)}>>, <<{Is("id", "=", 2)}>>,
   <<{Is("s", "=", 1)}, {Is("n", ">=", 1)}>>, <<{Is("n", ">=", 1)}, {Is("n", "<", 2)}>>,
   <<{Is("s", "=", 1), Is("n", "=", 2)}>>, <<{Is("id", ">", 1)}, {Is("s", "=", 1)}>>,
   <<{Is("n", "!=", 2)}, {Is("s", "=", 1)}>>}
SomeWheres ==
  {<<>>, <<{Is("s", "=", 1)}>>, <<{Is("n", ">", 1)}>>, <<{Is("s", "!=", 1)}>>,
   <<{Is("s", "=", 1)}, {Is("n", ">=", 1)}>>, <<{Is("s", "=", 1), Is("n", "=", 2)}>>}
NoLimit == -2
Pages == {<<NoLimit, 0>>, <<1, 1>>}
SelectQueries ==
  {Plan(w, "n", FALSE, p[1], p[2], <<>>, "", {}, "") : w \in Wheres, p \in Pages}
  \cup {Plan(w, "", TRUE, 1, 1, <<>>, "", {}, "") : w \in Wheres}
  \cup {Plan(w, "s", TRUE, 2, 0, <<>>, "", {}, "") : w \in SomeWheres}
  \cup {Plan(w, "", TRUE, NoLimit, 0, [func |-> f, col |-> "n"], g, {}, "") :
          w \in SomeWheres, f \in {"count", "sum"}, g \in {"", "s"}}
  \cup {Plan(<<>>, "", TRUE, NoLimit, 0, [func |-> f, col |-> "n"], "", {}, "") : f \in {"avg", "min", "max"}}
  \cup {Plan(<<>>, "", TRUE, NoLimit, 0, [func |-> "count", col |-> "n"], "s", {Is("count", ">", 1)}, "")}
  \cup {Plan(w, o, FALSE, p[1], p[2], <<>>, "", {}, j) :
          w \in {<<>>, <<{Is("s", "=", 1)}>>}, o \in {"", "n"}, p \in Pages, j \in {"inner", "left"}}

(* Databases to save, every type of value among them.                      *)
Saved(k, t, v, d) == [key |-> k, type |-> t, val |-> v, deadline |-> d]
Group == <<3, 4, << <<5, <<<<1>>>>>>, <<6, <<>>>> >>, << <<1, 5, 2>> >> >>
SnapshotDatabases ==
  {<<>>,
   <<Saved(1, "S", <<7>>, 2)>>,
   <<Saved(1, "L", << <<<<7>>, <<8>>>> >>, 0), Saved(2, "S", <<3>>, 1)>>,
   <<Saved(1, "H", << << <<1, 2>> >> >>, 1), Saved(2, "Z", << << <<1, 2>> >> >>, 0)>>,
   <<Saved(1, "h", << << <<1, 2>>, <<3, 4>> >>, << <<1, 9>> >> >>, 2)>>,
   <<Saved(1, "X", <<2, << <<1, << <<7, 8>> >> >> >>, <<Group>> >>, 0), Saved(2, "T", << << <<4>> >> >>, 2)>>,
   <<Saved(1, "V", << << <<1>>, <<2>> >>, <<3>> >>, 0), Saved(2, "W", <<4, <<>> >>, 1)>>,
   <<Saved(1, "P", << << <<1>> >> >>, 0), Saved(2, "I", << << <<1, 2>> >>, 5, << <<3, 4>> >> >>, 1)>>}

(* Pipelines of the embedded client, and argument lists of every form.     *)
PipeCommands ==
  {<<"GET", "a">>, <<"GET", "b">>, <<"HGET", "a", "f">>, <<"TTL", "b">>, <<"INCR", "a">>,
   <<"HINCRBY", "a", "f", "one">>, <<"HINCRBY", "c", "f", "one">>, <<"PUBLISH", "ch", "x">>,
   <<"MULTI">>, <<"EXEC">>, <<"BLMPOP", "zero", "a">>, <<"BLPOP", "a", "zero">>, <<"GET", "r">>}
EmbeddedPipelines ==
  {<<a, b>> : a, b \in PipeCommands} \cup
  {<<<<"MULTI">>, <<"INCR", "a">>, <<"EXEC">>>>, <<<<"TTL", "b">>, <<"GET", "b">>, <<"INCR", "a">>>>,
   <<<<"GET", "b">>, <<"HINCRBY", "a", "f", "one">>, <<"GET", "a">>>>,
   <<<<"HINCRBY", "c", "f", "one">>, <<"HINCRBY", "a", "f", "one">>, <<"HINCRBY", "c", "f", "one">>>>}
Words(n) == UNION {[1..k -> {"a", "junk", "one", "minus", "NX", "EX"}] : k \in 0..n}
EmbeddedArgvs ==
  {<<m>> \o l : m \in {"SET", "GET", "MSET", "EXPIRE", "HSET", "ZADD", "GEOADD", "GEODIST", "XADD",
                       "SADD", "LRANGE", "SUBSCRIBE", "INCRBY", "HMGET"}, l \in Words(3)}
  \cup {<<"SET", "a", "one">> \o l : l \in Words(3)}
  \cup {<<m, "a">> \o l : m \in {"GEOADD", "XADD"}, l \in Words(3)}

Keyspaces == INSTANCE Keyspace WITH Commands <- Inputs!KeyspaceCommands,
  Setups <- Inputs!KeyspaceSetups
Selects == INSTANCE TableSelect WITH Queries <- SelectQueries, lapsed <- lapsedRows
Disk == INSTANCE DiskShard
Snapshots == INSTANCE SnapshotFormat WITH Databases <- SnapshotDatabases
Saver == INSTANCE SaveWorker WITH MaxSaves <- MaxBgSaves
EmbeddedApi == INSTANCE Embedded WITH Pipelines <- EmbeddedPipelines,
  Argvs <- EmbeddedArgvs, EmbShard <- [a |-> 1, b |-> 1, c |-> 2, r |-> 1],
  mode <- pipeMode
Rotation == INSTANCE KeyRotation WITH EncShard <- [a |-> 1, v |-> 1]
Secrets == INSTANCE SecretMigration WITH MaxStarts <- MaxSecretStarts,
  mem <- secretRows, snap <- secretSnap

Restoring == INSTANCE Restore
Migrating == INSTANCE Migrations
Stack == INSTANCE LocalStack WITH left <- stackLeft

keyspaceVars == <<db, now, journal, dump, lapsed, slipped, family, room>>
tablesVars == <<tdb, replica, made, refs, mode, bare, backfilled, severed, entangled,
                sweep, rowClock, stmts>>
selectVars == <<table, lapsedRows>>
diskVars == <<ino, dir, dirs, shard, compacting, ver, safe, floor, diskFaults,
              diskCrashes, refusedOpen, blackout>>
snapshotVars == <<snapDb, snapFmt, snapAt, image, harm, snapClock, loaded>>
saverVars == <<savePhase, slot, worker, scheduled, noSaves, halt, shutter, accepted,
               done, asked, fired>>
embeddedVars == <<embDb, embClock, pipe, pipeMode, collect, at, began, outs, ended,
                  embJournal, multi, queued, published, embUp, accepting, others,
                  offered>>
rotationVars == <<ring, ringFile, ringSafe, sealFile, seal, vals, encLog, encSnap,
                  pen, task, epoch, firstLost, named, reused, crossed, encDown,
                  left>>
secretsVars == <<secretSnap, log, secretRows, stage, keyed, required, startsLeft>>
restoreVars == <<phase, mem, snapFile, jrn, staged, marker, kept, stager, guard,
                 bound, truth, before, ops, nextId, gen>>
migrationsVars == <<migLock, ledger, content, run, ran, volatile, manual, budget>>
stackVars == <<cliLock, state, mine, pending, con, probe, vols, imports, data, snap,
               acked, seeded, raced, stale, cli, stackLeft>>
dataVars == <<part, keyspaceVars, tablesVars, selectVars, diskVars, snapshotVars,
              saverVars, embeddedVars, rotationVars, secretsVars, restoreVars,
              migrationsVars, stackVars>>

\* The variables of a module that does not run.
KeyspacesIdle == db = 0 /\ now = 0 /\ journal = 0 /\ dump = 0 /\ lapsed = 0 /\ slipped = 0 /\
                 family = 0 /\ room = 0
TableRowsIdle == tdb = 0 /\ replica = 0 /\ made = 0 /\ refs = 0 /\ mode = 0 /\ bare = 0 /\
                 backfilled = 0 /\ severed = 0 /\ entangled = 0 /\ sweep = 0 /\
                 rowClock = 0 /\ stmts = 0
SelectsIdle == table = 0 /\ lapsedRows = 0
DiskIdle == ino = 0 /\ dir = 0 /\ dirs = 0 /\ shard = 0 /\ compacting = 0 /\
            ver = 0 /\ safe = 0 /\ floor = 0 /\ diskFaults = 0 /\ diskCrashes = 0 /\
            refusedOpen = 0 /\ blackout = 0
SnapshotsIdle == snapDb = 0 /\ snapFmt = 0 /\ snapAt = 0 /\ image = 0 /\ harm = 0 /\
                 snapClock = 0 /\ loaded = 0
SaverIdle == savePhase = 0 /\ slot = 0 /\ worker = 0 /\ scheduled = 0 /\
             noSaves = 0 /\ halt = 0 /\ shutter = 0 /\ accepted = 0 /\ done = 0 /\
             asked = 0 /\ fired = 0
EmbeddedApiIdle == embDb = 0 /\ embClock = 0 /\ pipe = 0 /\ pipeMode = 0 /\
                   collect = 0 /\ at = 0 /\ began = 0 /\ outs = 0 /\ ended = 0 /\
                   embJournal = 0 /\ multi = 0 /\ queued = 0 /\ published = 0 /\
                   embUp = 0 /\ accepting = 0 /\ others = 0 /\ offered = 0
RotationIdle == ring = 0 /\ ringFile = 0 /\ ringSafe = 0 /\ sealFile = 0 /\
                seal = 0 /\ vals = 0 /\ encLog = 0 /\ encSnap = 0 /\ pen = 0 /\
                task = 0 /\ epoch = 0 /\ firstLost = 0 /\
                named = 0 /\ reused = 0 /\ crossed = 0 /\ encDown = 0 /\ left = 0
SecretsIdle == secretSnap = 0 /\ log = 0 /\ secretRows = 0 /\ stage = 0 /\
               keyed = 0 /\ required = 0 /\ startsLeft = 0
RestoringIdle == phase = 0 /\ mem = 0 /\ snapFile = 0 /\ jrn = 0 /\ staged = 0 /\
                 marker = 0 /\ kept = 0 /\ stager = 0 /\ guard = 0 /\ bound = 0 /\
                 truth = 0 /\ before = 0 /\ ops = 0 /\ nextId = 0 /\ gen = 0
MigratingIdle == migLock = 0 /\ ledger = 0 /\ content = 0 /\ run = 0 /\ ran = 0 /\
                 volatile = 0 /\ manual = 0 /\ budget = 0
StackIdle == cliLock = 0 /\ state = 0 /\ mine = 0 /\ pending = 0 /\ con = 0 /\
             probe = 0 /\ vols = 0 /\ imports = 0 /\ data = 0 /\ snap = 0 /\
             acked = 0 /\ seeded = 0 /\ raced = 0 /\ stale = 0 /\ cli = 0 /\
             stackLeft = 0

DataInit ==
  /\ part \in {"keyspace", "tables", "select", "disk", "snapshot", "saver",
               "embedded", "rotation", "secrets", "restore", "migrations", "stack"}
  /\ IF part = "keyspace" THEN Keyspaces!KeyInit ELSE KeyspacesIdle
  /\ IF part = "tables" THEN TableInit ELSE TableRowsIdle
  /\ IF part = "select" THEN Selects!SelectInit ELSE SelectsIdle
  /\ IF part = "disk" THEN Disk!DiskInit ELSE DiskIdle
  /\ IF part = "snapshot" THEN Snapshots!SnapInit ELSE SnapshotsIdle
  /\ IF part = "saver" THEN Saver!SaveInit ELSE SaverIdle
  /\ IF part = "embedded" THEN EmbeddedApi!EmbInit ELSE EmbeddedApiIdle
  /\ IF part = "rotation" THEN Rotation!RotInit ELSE RotationIdle
  /\ IF part = "secrets" THEN Secrets!SecretInit ELSE SecretsIdle
  /\ IF part = "restore" THEN Restoring!RestoreInit ELSE RestoringIdle
  /\ IF part = "migrations" THEN Migrating!MigInit ELSE MigratingIdle
  /\ IF part = "stack" THEN Stack!StackInit ELSE StackIdle

(* A rotation ends where its property sets it aside for good.              *)
DataNext ==
  \/ part = "keyspace" /\ Keyspaces!KeyNext /\ UNCHANGED <<part, tablesVars,
       selectVars, diskVars, snapshotVars, saverVars, embeddedVars, rotationVars,
       secretsVars, restoreVars, migrationsVars, stackVars>>
  \/ part = "tables" /\ TableNext /\ UNCHANGED <<part, keyspaceVars, selectVars,
       diskVars, snapshotVars, saverVars, embeddedVars, rotationVars, secretsVars,
       restoreVars, migrationsVars, stackVars>>
  \/ part = "select" /\ Selects!SelectNext /\ UNCHANGED <<part, keyspaceVars,
       tablesVars, diskVars, snapshotVars, saverVars, embeddedVars, rotationVars,
       secretsVars, restoreVars, migrationsVars, stackVars>>
  \/ part = "disk" /\ Disk!DiskNext /\ UNCHANGED <<part, keyspaceVars, tablesVars,
       selectVars, snapshotVars, saverVars, embeddedVars, rotationVars, secretsVars,
       restoreVars, migrationsVars, stackVars>>
  \/ part = "snapshot" /\ Snapshots!SnapNext /\ UNCHANGED <<part, keyspaceVars,
       tablesVars, selectVars, diskVars, saverVars, embeddedVars, rotationVars,
       secretsVars, restoreVars, migrationsVars, stackVars>>
  \/ part = "saver" /\ Saver!SaveNext /\ UNCHANGED <<part, keyspaceVars, tablesVars,
       selectVars, diskVars, snapshotVars, embeddedVars, rotationVars, secretsVars,
       restoreVars, migrationsVars, stackVars>>
  \/ part = "embedded" /\ EmbeddedApi!EmbNext /\ UNCHANGED <<part, keyspaceVars,
       tablesVars, selectVars, diskVars, snapshotVars, saverVars, rotationVars,
       secretsVars, restoreVars, migrationsVars, stackVars>>
  \/ part = "rotation" /\ ~Rotation!Awry /\ Rotation!RotNext /\ UNCHANGED <<part, keyspaceVars,
       tablesVars, selectVars, diskVars, snapshotVars, saverVars, embeddedVars,
       secretsVars, restoreVars, migrationsVars, stackVars>>
  \/ part = "secrets" /\ Secrets!SecretNext /\ UNCHANGED <<part, keyspaceVars,
       tablesVars, selectVars, diskVars, snapshotVars, saverVars, embeddedVars,
       rotationVars, restoreVars, migrationsVars, stackVars>>
  \/ part = "restore" /\ Restoring!RestoreNext /\ UNCHANGED <<part, keyspaceVars,
       tablesVars, selectVars, diskVars, snapshotVars, saverVars, embeddedVars,
       rotationVars, secretsVars, migrationsVars, stackVars>>
  \/ part = "migrations" /\ Migrating!MigNext /\ UNCHANGED <<part, keyspaceVars,
       tablesVars, selectVars, diskVars, snapshotVars, saverVars, embeddedVars,
       rotationVars, secretsVars, restoreVars, stackVars>>
  \/ part = "stack" /\ Stack!StackNext /\ UNCHANGED <<part, keyspaceVars,
       tablesVars, selectVars, diskVars, snapshotVars, saverVars, embeddedVars,
       rotationVars, secretsVars, restoreVars, migrationsVars>>

DataSpec == DataInit /\ [][DataNext]_dataVars

-----------------------------------------------------------------------------
(* Properties                                                              *)

\* Keys (store/, cmd/): at every moment a restart rebuilds the keyspace from the
\* snapshot and the journaled frames, for as long as no deadline on record has
\* passed; a batched read answers what the single commands would; and a group's
\* pending list agrees with its consumers'.  Set aside: a NaN score or a refused
\* HINCRBY that the journal cannot repeat, and two counts of ZCOUNT.
KeyspaceSound ==
  part = "keyspace" =>
    Keyspaces!KeyspaceReplays /\ Keyspaces!BatchAnswersAlike /\ Keyspaces!PendingAgrees

\* Tables (tables/mod.rs): after every statement, cascade and expiry pass the
\* indexes, deadlines and counters are those of the rows, unique and foreign keys
\* hold, and replaying the row images rebuilds all of it.  Set aside: a statement that
\* purges an expired row of a table with a reference to itself, and whose cascade
\* meets a row that the statement writes or refers to (tables/mod.rs:3769, 3936).
TablesSound ==
  part = "tables" =>
    entangled \/ (DerivedAgree /\ ConstraintsHold /\ ReplicaAgrees)

\* Queries (tables/select.rs): whatever index, early limit or fast path the plan
\* takes, the answer is the one of the reference evaluation, and the candidates
\* are exactly the rows the index may not exclude.
SelectSound == part = "select" => Selects!SelectTypeOK /\ Selects!SelectAnswers /\ Selects!ScansExactly

\* Cold shards (disk.rs): across failed appends, compactions that stop at any step,
\* kills and power losses, the index of an open shard reaches whole records at
\* least as new as what was promised, except behind a failed append that could not
\* be truncated away, and only a fault makes an open refuse.
DiskSound == part = "disk" => Disk!IndexFaithful /\ Disk!OpensAgain

\* Snapshot files (snapshot.rs): a file of any version loads as the database that
\* was saved, minus what expired; a damaged one is refused where the format has a
\* checksum, and loads a prefix where it has none; the restore check says the same.
SnapshotSound ==
  part = "snapshot" =>
    /\ Snapshots!RoundTrip /\ Snapshots!DamageRefused
    /\ Snapshots!CutLoadsPrefix /\ Snapshots!RestoreCheckAgrees

\* The save worker (lib.rs, snapshot.rs): one save at a time, and the worker never
\* sleeps through a shutdown.
SaverSound == part = "saver" => Saver!SingleFlight /\ Saver!WorkerWakes

\* The embedded client (embedded/): what a pipeline applies is what it journals,
\* its replies are those the commands gave at their time, an error only for a
\* reserved key or a closed gate, and a prepared command is accepted and routed like
\* the same arguments over RESP.
EmbeddedSound ==
  part = "embedded" =>
    EmbeddedApi!AppliedAsJournaled /\ EmbeddedApi!RepliesHonest /\ EmbeddedApi!FormsAgree

\* Encryption (encryption.rs, auth/secrets.rs): no value loses the key it
\* needs, in memory, journal or snapshot, through rotation, retirement, crashes and
\* changed seals, two RETIREs at once set aside; and once secrets are marked migrated
\* none is left in plain text.
EncryptionSound ==
  /\ part = "rotation" => Rotation!NoValueOrphaned
  /\ part = "secrets" => /\ Secrets!SecretTypeOK
                         /\ Secrets!NoPlaintextHistory /\ Secrets!StartsUnlessLocked

\* Restore (restore.rs): wherever the process dies while a restore is staged or
\* committed, the next start serves the old or the new database whole, the
\* replaced one stays recoverable, and nothing blocks for ever.
RestoreSound ==
  part = "restore" =>
    /\ Restoring!RestoreTypeOK /\ Restoring!ServesWhole
    /\ Restoring!RollbackKept /\ Restoring!NeverStuck

\* Migrations (migrations.rs): the ledger says how far each file got, files apply
\* one at a time and in order, and what is settled never changes or runs again.
MigrationsSound ==
  /\ [](part = "migrations" => Migrating!MigTypeOK /\ Migrating!LedgerTracks /\ Migrating!OneAtATime)
  /\ [][part = "migrations" => Migrating!LedgerStep]_dataVars

\* The local stack (cli/): however an engine upgrade is interrupted, a running
\* engine serves every acknowledged write, and seeds run once; a first start beside
\* another command and a seed by hand beside an upgrade, which no lock keeps apart,
\* are set aside.
StackSound == part = "stack" => Stack!StackTypeOK /\ Stack!ServesEveryWrite /\ Stack!SeedsOnce
=============================================================================
