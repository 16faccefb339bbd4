SPECIFICATION FairSpec
CONSTANTS
    Paths = {p1, p2}
    Contents <- MCContents
    Absent = Absent
    Note = Note
    Syncers = {s1}
    NChunks <- MCNChunks
    Removes = TRUE
    MaxEdits = 2
    MaxCommands = 1
    MaxFaults = 1
INVARIANTS TypeOK EntriesTrue UnchangedIsIndexed NoOrphans CleanSyncMirrors
PROPERTIES NotesUntouched NeverDropsCurrent Converges
CHECK_DEADLOCK FALSE
