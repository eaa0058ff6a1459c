-------------------------- MODULE SecretMigration --------------------------
(***************************************************************************)
(* Starting a persistent server with authentication (src/src/lib.rs,       *)
(* auth::bootstrap, auth/secrets.rs): the tables are brought up to date,   *)
(* snapshot and journal are recovered, secrets that an older release left  *)
(* in plain text are sealed, and the history that still holds the plain    *)
(* text is replaced by a checkpoint before the listener opens.  The server *)
(* may crash between any two steps.                                        *)
(***************************************************************************)
EXTENDS Integers, Sequences, SequencesExt

CONSTANTS
  Field,       \* columns that hold a secret
  MaxStarts,   \* bound: crashes and restarts
  MaxJournal   \* bound: journal records

VARIABLES
  snap,        \* the installed snapshot: a value per field, marker, schema
  log,         \* the journal: records [k, v]
  mem,         \* the tables in memory
  stage,       \* the step the start-up has reached
  keyed,       \* the keyring has an active key
  required,    \* MigrationOutcome::checkpoint_required
  startsLeft

secretVars == <<snap, log, mem, stage, keyed, required, startsLeft>>

\* The storage version row: absent, pending_v1 or 1.
Marker == {"none", "pending", "current"}
Value == {"none", "plain", "sealed"}
Tables(values, marker, schema) == [val |-> values, marker |-> marker, schema |-> schema]
Empty == Tables([f \in Field |-> "none"], "none", "old")

\* What an older release left: plain values in the snapshot, in the journal or
\* both, and perhaps a journal of this release that uses columns the schema of
\* the snapshot lacks.
SecretInit ==
  /\ snap \in {Tables(v, "none", "old") : v \in [Field -> {"none", "plain"}]}
  /\ log \in {<<>>} \cup {<<[k |-> f, v |-> "plain"]>> : f \in Field}
             \cup {<<[k |-> f, v |-> "plain"], [k |-> "column", v |-> "new"]>> : f \in Field}
  /\ mem = Empty /\ stage = "down" /\ keyed = TRUE /\ required = FALSE /\ startsLeft = MaxStarts

Plain(values) == \E f \in Field : values[f] = "plain"
HistoryPlain == Plain(snap.val) \/ \E i \in DOMAIN log : log[i].v = "plain"

\* Applying one record; a record that names a column the table lacks is refused.
Apply(t, r) ==
  CASE r.k = "marker" -> [t EXCEPT !.marker = r.v]
    [] r.k = "column" -> t
    [] OTHER -> [t EXCEPT !.val[r.k] = r.v]
Replays(t) == t.schema = "new" \/ \A i \in DOMAIN log : log[i].k # "column"
Replayed(t) == FoldLeft(Apply, t, log)

\* A journaled table statement.
Write(k, v) ==
  /\ Len(log) < MaxJournal
  /\ log' = Append(log, [k |-> k, v |-> v])
  /\ mem' = Apply(mem, [k |-> k, v |-> v])

At(s) == stage = s
GoTo(s) == stage' = s

-----------------------------------------------------------------------------
(* Recovery                                                                *)

StartUp ==
  /\ At("down") /\ startsLeft > 0
  /\ startsLeft' = startsLeft - 1
  /\ keyed' \in BOOLEAN
  /\ mem' = [Empty EXCEPT !.schema = "new"]      \* auth::bootstrap, not journaled
  /\ required' = FALSE /\ GoTo("load")
  /\ UNCHANGED <<snap, log>>

LoadSnapshot ==
  /\ At("load") /\ mem' = snap /\ GoTo("upgrade")
  /\ UNCHANGED <<snap, log, keyed, required, startsLeft>>

\* Variant: the tables are upgraded after the replay only.
UpgradesLater == mem' = mem

\* auth::bootstrap again: create_table_if_missing, add_column_if_missing.
UpgradesTables == mem' = [mem EXCEPT !.schema = "new"]

UpgradeTables ==
  /\ At("upgrade") /\ UpgradesTables /\ GoTo("replay")
  /\ UNCHANGED <<snap, log, keyed, required, startsLeft>>

\* replay_wal; a record that cannot be applied refuses the start.
ReplayJournal ==
  /\ At("replay")
  /\ IF Replays(mem) THEN mem' = Replayed(mem) /\ GoTo("migrate")
     ELSE UNCHANGED mem /\ GoTo("refused")
  /\ UNCHANGED <<snap, log, keyed, required, startsLeft>>

-----------------------------------------------------------------------------
(* migrate_storage                                                         *)

\* Pending from an earlier start, plain rows, or rows of unknown history.
Requires ==
  \/ mem.marker = "pending" \/ Plain(mem.val)
  \/ mem.marker = "none" /\ \E f \in Field : mem.val[f] # "none"

\* The pending marker is written before the first value is replaced.
BeginMigration ==
  /\ At("migrate")
  /\ required' = Requires
  /\ IF Requires /\ mem.marker # "pending" THEN Write("marker", "pending") ELSE UNCHANGED <<log, mem>>
  /\ GoTo("seal")
  /\ UNCHANGED <<snap, keyed, startsLeft>>

\* migrate_row_field: without an active key a plain value refuses the start, and
\* a sealed one cannot be opened.
MigrateField(f) ==
  /\ At("seal") /\ mem.val[f] = "plain" /\ keyed
  /\ Write(f, "sealed")
  /\ UNCHANGED <<snap, stage, keyed, required, startsLeft>>

LacksKey ==
  /\ At("seal") /\ ~keyed
  /\ GoTo("refused")   \* also when the signing key cannot be sealed or opened
  /\ UNCHANGED <<snap, log, mem, keyed, required, startsLeft>>

\* ensure_signing_key and the rest of bootstrap_runtime; with nothing to
\* checkpoint the rows are marked current.
EndBootstrap ==
  /\ At("seal") /\ keyed /\ ~Plain(mem.val)
  /\ IF required THEN GoTo("checkpoint") /\ UNCHANGED <<log, mem>>
     ELSE GoTo("ready") /\ Write("marker", "current")
  /\ UNCHANGED <<snap, keyed, required, startsLeft>>

\* save_and_truncate_wal_consistent: install the snapshot, then rotate the journal.
InstallSnapshot ==
  /\ At("checkpoint") /\ snap' = mem /\ GoTo("rotate")
  /\ UNCHANGED <<log, mem, keyed, required, startsLeft>>

\* Variant: the marker is written before the journal is rotated.
RotatesLast ==
  \/ At("rotate") /\ GoTo("mark") /\ Write("marker", "current")
  \/ At("mark") /\ GoTo("ready") /\ log' = <<>> /\ UNCHANGED mem

\* The journal is rotated, then mark_secret_storage_checkpoint_complete.
RotateThenMark ==
  \/ At("rotate") /\ GoTo("mark") /\ log' = <<>> /\ UNCHANGED mem
  \/ At("mark") /\ GoTo("ready") /\ Write("marker", "current")

FinishCheckpoint ==
  /\ RotateThenMark
  /\ UNCHANGED <<snap, keyed, required, startsLeft>>

-----------------------------------------------------------------------------
(* Serving, and crashing                                                   *)

\* seal: a persistent server stores no secret it cannot encrypt.
SealedValue == "sealed"

\* admin_upsert_provider or admin_update_settings stores a secret.
StoreSecret(f) ==
  /\ At("ready") /\ keyed
  /\ Write(f, SealedValue)
  /\ UNCHANGED <<snap, stage, keyed, required, startsLeft>>

Crash ==
  /\ ~At("down")
  /\ GoTo("down") /\ mem' = Empty
  /\ UNCHANGED <<snap, log, keyed, required, startsLeft>>

SecretNext ==
  \/ StartUp \/ LoadSnapshot \/ UpgradeTables \/ ReplayJournal \/ BeginMigration \/ LacksKey
  \/ EndBootstrap \/ InstallSnapshot \/ FinishCheckpoint \/ Crash
  \/ \E f \in Field : MigrateField(f) \/ StoreSecret(f)

SecretSpec == SecretInit /\ [][SecretNext]_secretVars

-----------------------------------------------------------------------------
(* Properties                                                              *)

\* The variables have their types.
SecretTypeOK ==
  /\ \A f \in Field : snap.val[f] \in Value /\ mem.val[f] \in Value
  /\ mem.marker \in Marker /\ snap.marker \in Marker /\ startsLeft \in 0..MaxStarts

\* When the listener opens, and whenever the rows on disk are marked current, no
\* secret is left in plain text in a row, the snapshot or the journal, wherever
\* earlier starts crashed (migrate_storage, save_and_truncate_wal_consistent).
NoPlaintextHistory ==
  (At("ready") \/ Replayed(snap).marker = "current") => ~HistoryPlain

\* The journal of this release is never refused for a column that the older
\* schema of the snapshot lacks: only a missing key stops the start.
StartsUnlessLocked == At("refused") => ~keyed
=============================================================================
