SPECIFICATION FairSpec
CONSTANTS
  Key = {k1, k2, k3}
  Protected = {}
  Thread = {t1, t2}
  Kind <- GenericKinds
  Policy = "allkeys"
  MaxMem = 1
  MaxTries = 2
  MaxQueue = 2
  MaxOps = 3
PROPERTIES
  WritesEnd
CHECK_DEADLOCK FALSE
