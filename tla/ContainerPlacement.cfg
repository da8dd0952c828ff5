SPECIFICATION Spec
CONSTANTS
  Subnets = {s1, s2}
  Hidden = {s2}
  Engines <- MCEngines
  Policies <- MCPolicies
  MaxMoves = 2
  MaxBoots = 2
  None = None
  Attempts = {a1}
  Kept = {a1}
  Asked <- MCAsked
  MaxLosses = 1
INVARIANTS
  TypeOK
  PlacedIsThePolicy
  RulesStand
  StartedIsReady
PROPERTIES
  KeptUntilOld
CHECK_DEADLOCK FALSE
