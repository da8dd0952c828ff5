SPECIFICATION FairSpec
CONSTANTS
  k1 = k1
  k2 = k2
  j1 = j1
  j2 = j2
  Keys <- MCKeys
  Jobs <- MCJobs
  Wants <- MCWants
  Limit = 1
  QueueCap = 1
  Crashes = 1
  Faults = 2
  None = None
INVARIANTS
  TypeOK
  NodeIsBounded
  PromotedOnce
PROPERTIES
  KeepsItsOwn
  PromotionsSettle
CHECK_DEADLOCK FALSE
