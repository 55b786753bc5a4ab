SPECIFICATION Spec
CONSTANTS
    Procs = {p1, p2, p3}
    Bytes = {b1, b2}
    PIPESIZE = 2
    BITS = 2
    Reads = {1, 2}
    Writes = {1, 2}
    MaxRef = 2
    Calls = {"fork", "clone", "kill"}
    None = None
SYMMETRY ByteSymmetry
CHECK_DEADLOCK FALSE
INVARIANTS
    EndsExact
    NoLostWakeup
    ReaderHasWriter
PROPERTIES
    ImplementsFifo
