SPECIFICATION FairSpec
CONSTANTS
    f1 = f1
    f2 = f2
    q1 = q1
    q2 = q2
    NoFile = NoFile
    Unnamed = Unnamed
    Files = {f1, f2}
    Total = 2
    Requests = {q1, q2}
    Sent <- MCSent
    MaxFaults = 1
INVARIANTS StagedIsWhole BurnIsProtected
PROPERTIES UploadsComplete
