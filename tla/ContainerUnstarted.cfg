SPECIFICATION Spec
CONSTANTS
  Subnets = {s1}
  Hidden = {}
  Engines <- MCEngines
  Policies <- MCPolicies
  MaxMoves = 0
  MaxBoots = 2
  None = None
  Attempts = {a1}
  Kept = {}
  Asked <- MCAsked
  MaxLosses = 0
INVARIANTS
  EndedIsSettled
CHECK_DEADLOCK FALSE
