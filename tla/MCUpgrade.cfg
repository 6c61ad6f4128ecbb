SPECIFICATION UpgradeSpec
CONSTANTS
    g1 = g1
    g2 = g2
    b1 = b1
    Goals = {g1, g2}
    BranchOf <- BranchOfTwo
    Branches = {b1}
    BriefsOn = {}
    NoBranch = NoBranch
    NoOrigin = NoOrigin
    NJobs = 0
    NSeats = 2
    Caps = {2}
    BootCap = 2
    StartPaused = FALSE
    AutoUpdate = TRUE
    DrainDeadline = TRUE
    AllRestorable = TRUE
INVARIANTS UpgradeTypeOK PauseSurvives
PROPERTIES UpgradeEnds
CHECK_DEADLOCK FALSE
