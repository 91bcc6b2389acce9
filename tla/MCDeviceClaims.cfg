SPECIFICATION Spec
CONSTANTS
    k1 = k1
    k2 = k2
    alice = alice
    bob = bob
    job = job
    op = op
    w1 = w1
    Keys <- MCKeys
    Owners <- MCOwners
    Sources <- MCSources
    Workers <- MCWorkers
    WorkerOf <- MCWorkerOf
    Floors <- MCFloors
    Nobody = Nobody
    MaxRows = 2
SYMMETRY Symmetric
INVARIANTS OneActiveClaim FencesIncrease ActiveIsNewest TokensOfOneOwner
PROPERTIES EndedIsFinal LiveClaimNotDisplaced ImplementsOwnership
