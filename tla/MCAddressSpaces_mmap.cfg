SPECIFICATION Spec
CONSTANTS
    Procs = {p1, p2}
    USERBASE = 1
    MMAPBASE = 2
    KERNBASE = 5
    ADDRESSES = 8
    NFRAMES = 5
    MaxLen = 2
    ImageSize = 1
    None = None
SYMMETRY ProcSymmetry
CHECK_DEADLOCK FALSE
INVARIANTS
    PagesBelowSize
    FramesExact
    FirstFit
    TlbExact
