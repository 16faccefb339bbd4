SPECIFICATION Spec
CONSTANTS
    Paths = {p1}
    Contents <- TwoContents
    Absent = Absent
    Note = Note
    Syncers = {s1, s2}
    NChunks <- TwoNChunks
    Removes = FALSE
    MaxEdits = 2
    MaxCommands = 0
    MaxFaults = 1
INVARIANTS IInv UnchangedIsIndexed
PROPERTIES NeverDropsCurrent
SYMMETRY SyncerSymmetry
CHECK_DEADLOCK FALSE
