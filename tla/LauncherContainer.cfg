SPECIFICATION FairSpec
CONSTANTS
  Jobs = {j1}
  MaxAttempt = 1
  Capacity = 1
  Single = FALSE
  Driver = "container"
  KeepFailed = TRUE
  MaxBoots = 2
  MaxLosses = 1
  None = None
INVARIANTS
  EndedIsReported
  RunningIsWatched
PROPERTIES
  FailureIsKept
  WorkSettles
  DrainEnds
  SlotIsFreed
  OverStops
CHECK_DEADLOCK FALSE
