\* One call; it can read the user's plugin file neither to look at it nor to copy it.
SPECIFICATION Spec
CONSTANTS
  claude = claude
  opencode = opencode
  aider = aider
  p1 = p1
  p2 = p2
  m1 = m1
  m2 = m2
  e1 = e1
  e2 = e2
  Procs <- MCProcs
  HookAgents = {claude}
  PluginAgents = {opencode}
  OtherAgents = {aider}
  AgentLists <- MCAgentLists
  Markers <- MCMarkers
  Endpoints <- MCEndpoints
  Events <- MCEvents
  InstalledEvents <- MCInstalledEvents
  UserHooks <- MCUserHooks
  UserCommand = user
  user = user
  Within = {}
  NoProc = NoProc
  Unknown = Unknown
  Nothing = Nothing
  MaxCalls = 1
  MaxUpsets = 2
PROPERTIES
  UserPluginKept
CHECK_DEADLOCK FALSE
