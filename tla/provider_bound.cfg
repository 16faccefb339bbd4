SPECIFICATION FairSpec
CONSTANTS
    Capacity = 2
    MaxLines = 4
PROPERTY HardBound
CHECK_DEADLOCK FALSE
