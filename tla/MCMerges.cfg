SPECIFICATION Spec
CONSTANTS
    Height = 2
    Boots = 1
INVARIANTS TypeOK OneCallAtATime
PROPERTIES RefusalHolds CardsFollowAsks MergesEnd
CHECK_DEADLOCK FALSE
