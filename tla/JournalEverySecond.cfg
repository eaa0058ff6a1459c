SPECIFICATION Spec
CONSTANTS
  NumKeys = 2
  Writer = {w1, w2}
  AlwaysSync = FALSE
  FsyncPersistsName = TRUE
  DirSyncMayFail = TRUE
  MaxMutations = 2
  MaxSaves = 1
  MaxProcessCrashes = 1
  MaxPowerLosses = 1
  MaxIoErrors = 1
SYMMETRY WriterSymmetry
INVARIANTS
  NeverRefused
  CrashRecovers
PROPERTIES
  AppliedInJournalOrder
  NothingAfterFinalSync
