CONSTANTS
    a = a
    b = b
    k = k
    l = l
    m = m
    c = c
    None = None
    Detached = Detached
    Absent = Absent
    Branches = {a, b, c}
    Keys = {}
    Of <- MCOf
    Elsewhere = {c}
    Cap = 1
    Slack = 0
    MaxEjections = 0
    MaxQueue = 2
    HeadMoves = TRUE
    Restores = TRUE
    Overlaps = TRUE
SPECIFICATION Spec
INVARIANTS PoolIsAccounted
PROPERTIES HandOversAreSafe
