SPECIFICATION Spec
CONSTANTS
  NumKeys = 1
  Writer = {w1}
  AlwaysSync = TRUE
  FsyncPersistsName = FALSE
  DirSyncMayFail = TRUE
  MaxMutations = 2
  MaxSaves = 1
  MaxProcessCrashes = 0
  MaxPowerLosses = 1
  MaxIoErrors = 1
SYMMETRY WriterSymmetry
INVARIANTS
  AckedRecovers
