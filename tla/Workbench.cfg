SPECIFICATION FairSpec
CONSTANTS
  MaxCommands = 3
  MaxPrompts = 1
  RefusesDeletes = TRUE
  BatchedClicks = FALSE
INVARIANTS
  RunnerServesActive
  NothingLeftOver
PROPERTIES
  QueueFollowsOutcome
  FailuresKept
  QueueAndErrorsMove
