SPECIFICATION Spec
CONSTANTS
  None = None
  Key = {k1}
  Client = {c1, c2}
  Pusher = {p1, p2}
  Wait <- OneKeyWaits
  Op = {"push"}
  MaxPushes = 1
  MaxWaits = 1
  MaxOthers = 0
INVARIANTS
  WaitersServed
CHECK_DEADLOCK FALSE
