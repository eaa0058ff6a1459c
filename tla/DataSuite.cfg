SPECIFICATION DataSpec
CONSTANTS
  Key = {"k1", "k2"}
  Step = 2
  MaxCommands = 2
  MaxTicks = 2
  MaxSaves = 1
  MaxString = 6
  MaxPk = 2
  Refs <- TableRefs
  Val = {1, 2}
  RowTtl = 1
  MaxRowClock = 2
  MaxTableOps = 3
  Pks = {1, 2, 3}
  StrVals = {1}
  IntVals = {1, 2}
  MaxCandidates = 2
  DiskKey = {d1, d2}
  MaxVer = 3
  MaxIno = 3
  MaxDiskFaults = 1
  MaxDiskCrashes = 2
  MaxSnapClock = 3
  MaxItems = 4
  Altered = {0, 2, 84}
  MaxBgSaves = 3
  MaxTimeouts = 2
  Reserved = {"r"}
  EmbExpiring = {"b"}
  MaxEmbClock = 1
  MaxOthers = 1
  EncKey = {"a", "v"}
  VectorKey = {"v"}
  EncShards = 1
  KeyId = {1, 2, 3}
  EncWriter = {"w1"}
  EncTasks = 2
  MaxEncWrites = 1
  MaxEncOps = 5
  MaxEncFaults = 1
  MaxEncRestarts = 1
  Field = {f1, f2}
  MaxSecretStarts = 3
  MaxJournal = 6
  MaxRestores = 2
  MaxRestoreOps = 6
  Runner = {r1, r2}
  Files = 2
  Steps = 2
  Unfit = {3}
  MaxEdits = 2
  MaxMigFaults = 2
  MaxRepairs = 2
  Cli = {1, 2}
  MaxVol = 3
  MaxWrites = 2
  MaxDockerFaults = 2
  MaxStarts = 4
  MaxFresh = 1
INVARIANTS
  KeyspaceSound
  TablesSound
  SelectSound
  DiskSound
  SnapshotSound
  SaverSound
  EmbeddedSound
  EncryptionSound
  RestoreSound
  StackSound
PROPERTIES
  MigrationsSound
CHECK_DEADLOCK FALSE
