SPECIFICATION Spec
CONSTANTS
  site = site
  extra = extra
  web = web
  common = common
  col = col
  src = src
  Playbooks = {site, extra}
  Roles = {web, common}
  Dirs = {"root", "sub"}
  Root = "root"
  None = None
  Givens <- MCUnscoped
  Top = site
  Collections = {col}
  GitSources = {src}
  GalaxyRoles = {common}
  Stage = "stage"
  MaxMoves = 2
INVARIANTS
  PlayFindsWhatTheRepoHas
CHECK_DEADLOCK FALSE
