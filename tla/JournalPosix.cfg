SPECIFICATION Spec
CONSTANTS
  NumKeys = 1
  Writer = {w1, w2}
  AlwaysSync = TRUE
  FsyncPersistsName = FALSE
  DirSyncMayFail = FALSE
  MaxMutations = 4
  MaxSaves = 2
  MaxProcessCrashes = 0
  MaxPowerLosses = 1
  MaxIoErrors = 0
SYMMETRY WriterSymmetry
INVARIANTS
  ExactlyOnce
  VisibleIsDurable
  RecoversPrefix
  AckedRecovers
