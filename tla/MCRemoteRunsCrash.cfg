SPECIFICATION Spec
CONSTANTS
    Goals = {g1}
    Envs = {e1}
    Owing = {g1}
    Builds = {b1, b2}
    Holding = {b1}
    NoBuild = none
    MaxRuns = 2
    Routes = {}
    Pulse = pulse
    Oks = 1
    Moves = 0
    Boots = 1
INVARIANTS RunsAreAccounted OkOpensOneRun
PROPERTIES BlockStands RunsComeToAnEnd
