SPECIFICATION FairSpec
CONSTANTS
  Kinds = {"plan", "plan-only", "apply", "ansible", "snapshot", "inventory"}
  Guarded = TRUE
INVARIANTS
  ExitIsReported
  OutcomeIsTrue
  OutcomeIsBacked
PROPERTIES
  KeepsContract
  StopEnds
CHECK_DEADLOCK FALSE
