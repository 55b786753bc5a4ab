SPECIFICATION SchedLiveSpec
CONSTANTS
    NPROC = 3
    c1 = c1
    c2 = c2
    Cpus <- MCCpus
    Machines <- MCMachines
    Calls = {"fork", "exit", "sleep", "setpriority", "schedlatency"}
    MIN_TICKETS = 1
    MAX_TICKETS = 2
    PENALTY = 1
    MAX_TS = 1
    MAX_LATENCY = 2
    BITS = 3
    NoProc = NoProc
CHECK_DEADLOCK FALSE
INVARIANTS
    SchedConsistent
    FairShare
PROPERTIES
    RrServes
