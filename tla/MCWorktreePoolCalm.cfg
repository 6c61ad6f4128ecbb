CONSTANTS
    a = a
    b = b
    k = k
    l = l
    m = m
    c = c
    None = None
    Detached = Detached
    Absent = Absent
    Branches = {a}
    Keys = {k, l}
    Of <- MCOf
    Elsewhere = {}
    Cap = 1
    Slack = 0
    MaxEjections = 1
    MaxQueue = 1
    HeadMoves = FALSE
    Restores = FALSE
    Overlaps = FALSE
SPECIFICATION Spec
INVARIANTS TreesAreTold
PROPERTIES OccupantsKeepTheirTree DispatchIsAnswered
