SPECIFICATION Spec
CONSTANTS
    g1 = g1
    b1 = b1
    Goals = {g1}
    BranchOf <- BranchOfCode
    Branches = {b1}
    BriefsOn = {b1, NoBranch}
    NoBranch = NoBranch
    NoOrigin = NoOrigin
    NJobs = 2
    NSeats = 3
    Caps = {1, 2}
    BootCap = 2
    StartPaused = FALSE
INVARIANTS TypeOK WorkIsApart CountIsSafe GoalHasOneWorker
PROPERTIES OneKeeper
CHECK_DEADLOCK FALSE
