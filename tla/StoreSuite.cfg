SPECIFICATION StoreSpec
CONSTANTS
  Key = {k1, k2}
  Client = {c1, c2}
  MaxMutations = 2
  MaxQueue = 2
  MaxSaves = 1
  MaxFaults = 1
  TierKey = {d1, v1}
  Thread = {c1, c2}
  Surface = {"resp", "http", "exec"}
  Pinned = {v1}
  MaxHot = 1
  MaxOps = 3
  MaxTierErrors = 1
  MemKey = {k1, k2, t1}
  Protected = {t1}
  Policy = "volatile"
  MaxMem = 1
  MaxTries = 2
  l1 = l1
  l2 = l2
  None = None
  List = {l1, l2}
  Pusher = {k1, k2}   \* any two values that may be exchanged
  ListWait <- TwoKeyWaits
  Op = {"push", "pop", "move"}
  MaxPushes = 2
  MaxWaits = 2
  MaxOthers = 1
SYMMETRY StoreSymmetry
INVARIANTS
  StoreTypeOK
  TransactionsRecover
  ListsConserve
PROPERTIES
  TransactionsIsolated
  TiersSound
  EvictionSound
