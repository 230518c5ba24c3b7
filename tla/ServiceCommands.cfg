SPECIFICATION FairSpec
CONSTANTS
  MaxDisk = 1
  MaxEarly = 0
  MaxCommands = 2
  MaxLoads = 0
  MaxPrompts = 1
  MaxWatchErrors = 0
  UnmergedDeletes = {}
INVARIANTS
  ExecuteNeverRefused
  PromptsAnswerable
PROPERTIES
  ImplementsLane
  CancelAndQuitEnd
  WorkReachesScreen
