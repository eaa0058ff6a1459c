SPECIFICATION Spec
CONSTANTS
  NumKeys = 2
  Writer = {w1, w2}
  AlwaysSync = TRUE
  FsyncPersistsName = TRUE
  DirSyncMayFail = TRUE
  MaxMutations = 2
  MaxSaves = 1
  MaxProcessCrashes = 1
  MaxPowerLosses = 1
  MaxIoErrors = 1
SYMMETRY WriterSymmetry
INVARIANTS
  TypeOK
  LiveMatchesJournal
  Consistent
PROPERTIES
  ImplementsDurableStore
