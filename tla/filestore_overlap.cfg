SPECIFICATION Spec
CONSTANTS
    Rows = {r1, r2}
    Procs = {w, v}
    Writers = {w, v}
    Inodes = {i1, i2, i3, i4}
    None = None
    MaxOps = 3
    MaxFaults = 0
INVARIANT SavesPersist
CHECK_DEADLOCK FALSE
