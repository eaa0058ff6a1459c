SPECIFICATION KeySpec
CONSTANTS
  Key = {"k1", "k2"}
  Commands <- RefreshCommands
  Setups <- NoSetups
  Step = 2
  MaxCommands = 3
  MaxTicks = 1
  MaxSaves = 0
  MaxString = 6
INVARIANTS
  ReproducesObserved
CHECK_DEADLOCK FALSE
