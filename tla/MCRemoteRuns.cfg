SPECIFICATION Spec
CONSTANTS
    Goals = {g1, g2}
    Envs = {e1}
    Owing = {g1}
    Builds = {b1, b2}
    Holding = {b1}
    NoBuild = none
    MaxRuns = 2
    Routes = {route}
    Pulse = pulse
    Oks = 1
    Moves = 1
    Boots = 0
INVARIANTS ReadingsAreTold
PROPERTIES LockIsExclusive
