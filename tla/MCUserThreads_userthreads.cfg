SPECIFICATION Spec
CONSTANTS
    Workers = {t1, t2, t3}
    Main = main
    Init_ = init
    TableSize = 2
    MaxUnits = 3
    MayRunOut = FALSE
    Callers = {main, t1}
    None = None
SYMMETRY WorkerSymmetry
CHECK_DEADLOCK FALSE
INVARIANTS
    SizesAgree
    ForkedWhole
    StackIsOwn
    NoNullFree
