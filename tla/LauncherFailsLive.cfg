SPECIFICATION Spec
CONSTANTS
  Jobs = {j1}
  MaxAttempt = 2
  Capacity = 1
  Single = FALSE
  Driver = "container"
  KeepFailed = TRUE
  MaxBoots = 2
  MaxLosses = 0
  None = None
PROPERTIES
  FailsOnlyTheDead
CHECK_DEADLOCK FALSE
