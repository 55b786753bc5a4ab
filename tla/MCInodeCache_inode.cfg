SPECIFICATION Spec
CONSTANTS
    Procs = {p1, p2}
    Inums = {root, i1, i2}
    Root = root
    a = a
    b = b
    Names <- MCNames
    Requests <- MCRequests
    NINODE = 3
    None = None
SYMMETRY Symmetry
CHECK_DEADLOCK FALSE
INVARIANTS
    RefsExact
    LinksExact
    NothingDangles
    NoInconsistency
