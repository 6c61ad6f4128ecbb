CONSTANTS
    a = a
    b = b
    k = k
    l = l
    m = m
    c = c
    None = None
    Detached = Detached
    Absent = Absent
    Branches = {a}
    Keys = {}
    Of <- MCOf
    Elsewhere = {}
    Cap = 1
    Slack = 0
    MaxEjections = 0
    MaxQueue = 2
    HeadMoves = FALSE
    Restores = FALSE
    Overlaps = TRUE
SPECIFICATION Spec
PROPERTIES
    ReleaseSparesSuccessor
