CONSTANTS
    ResumeAttempts = 2
    StallNudges = 1
SPECIFICATION Spec
INVARIANTS TypeOK  RowsAreReachable ParksKeepWork
  
