CONSTANTS
  main = main
  goal = goal
  c1 = c1
  c2 = c2
  None = None
  Refs <- OneRef
  Calls <- TwoCalls
  MaxRuns = 2
  MaxSessions = 3
  MaxPushes = 1
  MaxBoots = 1
  DesktopEarly = TRUE
  PushesLate = TRUE
SPECIFICATION Spec
INVARIANTS
  LiveRunIsKept
PROPERTIES
  EndedIsFinal
