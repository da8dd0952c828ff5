SPECIFICATION Spec
CONSTANTS
  Jobs = {j1}
  MaxAttempt = 2
  Capacity = 2
  Single = FALSE
  Driver = "kubernetes"
  KeepFailed = TRUE
  MaxBoots = 1
  MaxLosses = 1
  None = None
PROPERTIES
  TimeoutIsFailure
  CancelIsNotKept
CHECK_DEADLOCK FALSE
