SPECIFICATION Spec
SYMMETRY Symmetric
CONSTANTS
    d1 = d1
    d2 = d2
    j1 = j1
    j2 = j2
    r1 = r1
    o1 = o1
    w1 = w1
    alice = alice
    bob = bob
    NoResv = NoResv
    Jobs = {j1, j2}
    Resvs = {}
    Ops = {}
    Devices = {d1}
    Keys <- MCKeys
    Owners <- MCOwners
    Sources <- MCSources
    Workers <- MCWorkers
    WorkerOf <- MCWorkerOf
    AliasKeys <- AllAliases
    OwnerOf <- MCOwnerOf
    DevicesOf <- MCDevicesOf
    ResvOf <- MCResvOf
    Outcomes = {"completed"}
    Cancels = {}
    MaxJobs = 1
    PollLimit = 1
    Crashes = TRUE
    SlowHandlers = FALSE
    MaxRows = 3
INVARIANTS LeaseExclusive ActiveLeaseOutranks CompensatedNeverDelivered
CHECK_DEADLOCK FALSE
