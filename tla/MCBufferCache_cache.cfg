SPECIFICATION Spec
CONSTANTS
    Procs = {p1, p2, p3}
    Bufs = {b1, b2}
    Vals = {v0, v1}
    Zero = v0
    NBLOCKS = 3
    MaxHeld = 2
    None = None
SYMMETRY BufSymmetry
CHECK_DEADLOCK FALSE
INVARIANTS
    Consistent
    NoLostWakeup
    NotAllAsleep
PROPERTIES
    ImplementsBlocks
