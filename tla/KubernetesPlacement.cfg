SPECIFICATION FairSpec
CONSTANTS
  Attempts = {a1}
  Asked = {{}, {"sa", "pull"}}
  Losses = 1
  Cuts = 1
  None = None
INVARIANTS
  TypeOK
PROPERTIES
  ReleasedIsComplete
  SweepsOnlyTheOver
  NothingLeaks
CHECK_DEADLOCK FALSE
