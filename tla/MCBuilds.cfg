SPECIFICATION BuildFairSpec
CONSTANTS
    j1 = j1
    j2 = j2
    p1 = p1
    p2 = p2
    Jobs = {j1, j2}
    Procs = {p1, p2}
    Capacity = 1
    MaxBuildFaults = 1
INVARIANTS StartedOnce
PROPERTIES EndedIsReal BuildsEnd
CHECK_DEADLOCK FALSE
