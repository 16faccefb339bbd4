SPECIFICATION Spec
CONSTANTS
    Docs = {d1}
    Texts = {t1, t2}
    Absent = Absent
    Note = Note
    Embedders <- MCEmbedders
    IdOf <- MCIdOf
    DimOf <- MCDimOf
    Natural <- MCNatural
    Procs = {"syncer", "reader"}
    Commands <- MCCommands
    Queries = {t1}
    MaxEvents = 2
INVARIANT Refilled
