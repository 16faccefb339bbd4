SPECIFICATION Spec
CONSTANTS
    Rows = {r1, r2}
    Procs = {w, v, reader}
    Writers = {w, v}
    Inodes = {i1, i2, i3, i4}
    None = None
    MaxOps = 3
    MaxFaults = 1
INVARIANTS IInv FileWhole AckedOnDisk
PROPERTY StepsAreDurable
CHECK_DEADLOCK FALSE
