SPECIFICATION FairSpec
CONSTANTS
    b1 = b1
    s1 = s1
    w1 = w1
    w2 = w2
    c1 = c1
    c2 = c2
    NoOne = NoOne
    Batches = {b1}
    Singles = {s1}
    Workers = {w1, w2}
    Clients = {c1, c2}
    MaxAsks = 3
    MaxFaults = 1
INVARIANTS QueueAgrees
PROPERTIES LeaseIsRespected QueueDrains
CHECK_DEADLOCK FALSE
