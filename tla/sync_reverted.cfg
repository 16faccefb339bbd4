SPECIFICATION Spec
CONSTANTS
    Paths = {p1}
    Contents <- MCContents
    Absent = Absent
    Note = Note
    Syncers = {s1}
    NChunks <- MCNChunks
    Removes = FALSE
    MaxEdits = 2
    MaxCommands = 0
    MaxFaults = 1
INVARIANT SyncReconciles
CHECK_DEADLOCK FALSE
