SPECIFICATION FairSpec
CONSTANTS
    Capacity = 2
    MaxLines = 4
INVARIANTS TypeOK CompletedIsWhole KilledIsReported FailuresAreErrors
PROPERTY Returns
CHECK_DEADLOCK FALSE
