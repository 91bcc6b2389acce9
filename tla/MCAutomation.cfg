SPECIFICATION FairSpec
CONSTANTS
    r1 = r1
    a1 = a1
    a2 = a2
    c1 = c1
    NoOne = NoOne
    Dead = Dead
    Runs = {r1}
    Shape <- FullShape
    Advancers = {a1, a2}
    Cancellers = {c1}
    MaxFaults = 1
INVARIANTS BusyHoldsDevice  EndIsClean
PROPERTIES EndIsFinal 
CHECK_DEADLOCK FALSE
