CONSTANTS
  main = main
  goal = goal
  c1 = c1
  c2 = c2
  None = None
  Refs <- TwoRefs
  Calls <- OneCall
  MaxRuns = 2
  MaxSessions = 3
  MaxPushes = 1
  MaxBoots = 1
  DesktopEarly = FALSE
  PushesLate = FALSE
SPECIFICATION Spec
INVARIANTS RunIsAccounted
PROPERTIES CallsEnd
