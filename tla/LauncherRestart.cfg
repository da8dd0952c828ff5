SPECIFICATION Spec
CONSTANTS
  Jobs = {j1, j2}
  MaxAttempt = 1
  Capacity = 1
  Single = FALSE
  Driver = "container"
  KeepFailed = FALSE
  MaxBoots = 2
  MaxLosses = 0
  None = None
SYMMETRY JobSymmetry
INVARIANTS
  TypeOK
  PlacesWithinCapacity
  ExecutorsWithinCapacity
PROPERTIES
  FailsOnlyTheDead
  StopsOnlyTheSettled
CHECK_DEADLOCK FALSE
