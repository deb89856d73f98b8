\* Three calls by two processes for two consumers, and one upset.
SPECIFICATION Spec
CONSTANTS
  claude = claude
  opencode = opencode
  aider = aider
  p1 = p1
  p2 = p2
  m1 = m1
  m2 = m2
  e1 = e1
  e2 = e2
  Procs <- MCProcs
  HookAgents = {claude}
  PluginAgents = {opencode}
  OtherAgents = {aider}
  AgentLists <- MCAgentLists
  Markers <- MCMarkers
  Endpoints <- MCEndpoints
  Events <- MCEvents
  InstalledEvents <- MCInstalledEvents
  UserHooks <- MCUserHooks
  UserCommand = user
  user = user
  Within = {}
  NoProc = NoProc
  Unknown = Unknown
  Nothing = Nothing
  MaxCalls = 3
  MaxUpsets = 1
SYMMETRY MCSymmetry
INVARIANTS
  TypeOK
  PromiseKept
  LockOwned
PROPERTIES
  AtomicEdits
  OthersKept
  BackedUp
  ImplementsRegistry
CHECK_DEADLOCK FALSE
