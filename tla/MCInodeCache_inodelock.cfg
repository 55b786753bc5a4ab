SPECIFICATION Spec
CONSTANTS
    Procs = {p1, p2}
    Inums = {root, i1}
    Root = root
    a = a
    b = b
    Names <- MCNames
    Requests <- FlatRequests
    NINODE = 2
    None = None
SYMMETRY Symmetry
CHECK_DEADLOCK FALSE
INVARIANTS
    NoDeadlock
