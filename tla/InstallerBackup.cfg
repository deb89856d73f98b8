\* Two calls, one after the other, and nothing goes wrong.
SPECIFICATION Spec
CONSTANTS
  claude = claude
  opencode = opencode
  aider = aider
  p1 = p1
  p2 = p2
  m1 = m1
  m2 = m2
  e1 = e1
  e2 = e2
  Procs <- MCProcs
  HookAgents = {claude}
  PluginAgents = {opencode}
  OtherAgents = {aider}
  AgentLists <- MCAgentLists
  Markers <- MCMarkers
  Endpoints <- MCEndpoints
  Events <- MCEvents
  InstalledEvents <- MCInstalledEvents
  UserHooks <- MCUserHooks
  UserCommand = user
  user = user
  Within = {}
  NoProc = NoProc
  Unknown = Unknown
  Nothing = Nothing
  MaxCalls = 2
  MaxUpsets = 0
PROPERTIES
  BackupsKept
CHECK_DEADLOCK FALSE
