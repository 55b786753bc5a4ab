SPECIFICATION LiveSpec
CONSTANTS
    NPROC = 3
    NCPU = 2
    PageDirs = {d1, d2}
    Calls = {"clone", "join", "io", "kill", "exit"}
    JoinFirst = FALSE
    MayRunOut = FALSE
    None = None
CHECK_DEADLOCK FALSE
PROPERTIES
    WaiterReturns
    KilledExits
