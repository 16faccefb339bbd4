SPECIFICATION Spec
CONSTANTS
    Runes = {"a", "b", " ", "nl"}
    White = {" ", "nl"}
    MaxRunes = 3
    Texts <- MCTexts
    Rows = 25
    Overscan = 20
    Limits = {0, 5}
    Neighbors <- MCNeighbors
    Matches <- MCMatches
INVARIANTS NothingLost ChunksBounded FusionSound
CHECK_DEADLOCK FALSE
