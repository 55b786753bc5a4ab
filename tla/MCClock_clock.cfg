SPECIFICATION ClockLiveSpec
CONSTANTS
    Procs = {p1, p2}
    Starts <- MCStarts
    Stimes <- MCStimes
    MaxSeconds = 2
    HZ = 3
    TICK_BITS = 2
    NoTime = NoTime
CHECK_DEADLOCK FALSE
INVARIANTS
    ClockConsistent
PROPERTIES
    DateExact
    SleeperReturns
