SPECIFICATION Spec
CONSTANTS
    Chats = {c1, c2}
    Sessions = {a}
    Providers = {claude, dryrun}
    Executors = {claude}
    NoOne = NoOne
    Window = 2
    SaveChat = TRUE
    MaxAsked = 3
    MaxStarts = 2
    MaxCommands = 1
    MaxFaults = 1
INVARIANTS TypeOK TranscriptsFaithful SavedIsCurrent HistoryIsRecord
PROPERTY SessionsOnlyGrow
SYMMETRY ChatSymmetry
CHECK_DEADLOCK FALSE
