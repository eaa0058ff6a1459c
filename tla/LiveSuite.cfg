SPECIFICATION LiveSpec
CONSTANTS
  NumKeys = 2
  Writer = {w1, w2}
  AlwaysSync = TRUE
  FsyncPersistsName = TRUE
  DirSyncMayFail = FALSE
  MaxMutations = 2
  MaxSaves = 1
  MaxProcessCrashes = 0
  MaxPowerLosses = 0
  MaxIoErrors = 0
  l1 = l1
  l2 = l2
  None = None
  List = {l1, l2}
  Client = {c1, c2}
  Pusher = {p1, p2}
  Op = {"push", "pop", "move"}
  MaxPushes = 1
  MaxWaits = 2
  MaxOthers = 1
PROPERTIES
  OperationsEnd
  DrainsEnd
CHECK_DEADLOCK FALSE
