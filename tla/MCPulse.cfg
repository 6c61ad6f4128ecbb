CONSTANTS
    MaxRetries = 10
    MaxOrphans = 2
SPECIFICATION Spec
INVARIANTS TypeOK HoldStopsPulse ClockNeverLost AsksAreKept
PROPERTIES NoCycleAfterStop NothingForgotten
