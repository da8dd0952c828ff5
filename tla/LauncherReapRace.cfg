SPECIFICATION Spec
CONSTANTS
  Jobs = {j1}
  MaxAttempt = 1
  Capacity = 1
  Single = FALSE
  Driver = "kubernetes"
  KeepFailed = FALSE
  MaxBoots = 1
  MaxLosses = 0
  None = None
INVARIANTS
  EndedIsReported
CHECK_DEADLOCK FALSE
