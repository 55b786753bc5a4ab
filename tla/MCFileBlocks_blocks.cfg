SPECIFICATION Spec
CONSTANTS
    Procs = {p1, p2}
    Inodes = {i1, i2}
    Files = {f1, f2}
    NBLOCKS = 5
    BPB = 3
    BSIZE = 2
    NDIRECT = 1
    MAXOPBLOCKS = 6
    Vals = {x, y}
    x = x
    y = y
    Stale = Stale
    Writes <- MCWrites
    Reads = {1, 6}
    MaxCalls = 8
    None = None
SYMMETRY Symmetry
CHECK_DEADLOCK FALSE
INVARIANTS
    Consistent
    WithinReservation
PROPERTIES
    ImplementsFiles
