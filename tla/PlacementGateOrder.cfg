SPECIFICATION FairSpec
CONSTANTS
  Key = {k1, k2}
  Pinned = {}
  Thread = {t1, t2}
  Surface = {"http", "exec"}
  MaxHot = 1
  MaxQueue = 2
  MaxOps = 3
  MaxErrors = 1
PROPERTIES
  CommandsEnd
CHECK_DEADLOCK FALSE
