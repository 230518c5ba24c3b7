SPECIFICATION Spec
CONSTANTS
  MaxDisk = 2
  MaxEarly = 0
  MaxCommands = 1
  MaxLoads = 1
  MaxPrompts = 0
  MaxWatchErrors = 1
  UnmergedDeletes = {}
INVARIANTS
  RefreshNotLost
  GenerationsIncrease
  ChangesAndQueriesKept
PROPERTIES
  SeenNeverGoesBack
