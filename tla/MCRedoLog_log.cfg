SPECIFICATION LiveSpec
CONSTANTS
    Ops = {o1, o2}
    Blocks = {b1, b2, b3}
    Vals = {v0, v1}
    Zero = v0
    MAXOPBLOCKS = 2
    OPBLOCKS = 1
    LOGSIZE = 4
    NLOG = 4
    MayCrash = TRUE
    None = None
CHECK_DEADLOCK FALSE
INVARIANTS
    Consistent
PROPERTIES
    ImplementsStore
    LogServes
