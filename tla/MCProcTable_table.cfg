SPECIFICATION Spec
CONSTANTS
    NPROC = 4
    NCPU = 2
    PageDirs = {d1, d2, d3, d4}
    Calls = {"fork", "clone", "wait", "join", "exec", "exit"}
    JoinFirst = TRUE
    MayRunOut = TRUE
    None = None
SYMMETRY PageDirSymmetry
CHECK_DEADLOCK FALSE
INVARIANTS
    Consistent
    WaiterHasChild
    VmExact
    ThreadVmLive
PROPERTIES
    ImplementsTree
