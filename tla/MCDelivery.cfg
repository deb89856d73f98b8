\* Three hooks, any of them late, lost or refused, a restart, and one stray request.
SPECIFICATION Spec
CONSTANTS
  Claude = Claude
  Codex = Codex
  OpenCode = OpenCode
  Custom = Custom
  Unnamed = Unnamed
  c1 = c1
  a1 = a1
  o1 = o1
  o2 = o2
  x1 = x1
  k1 = k1
  Ids <- MCIds
  Tools <- MCTools
  Capitalised <- MCCapitalised
  Programs <- MCPrograms
  Places <- MCPlaces
  Hooks <- MCHooks
  CustomSignals <- MCCustomSignals
  NoEvent = NoEvent
  MaxRequests = 3
  MaxFired = 3
  MaxRestarts = 1
INVARIANTS
  TypeOK
  Mirror
  ToolShown
  ParentLink
PROPERTIES
  ChangeIsTold
  NoFlicker
CHECK_DEADLOCK FALSE
