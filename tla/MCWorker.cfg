SPECIFICATION FairSpec
CONSTANTS
    d1 = d1
    j1 = j1
    j2 = j2
    NoJob = NoJob
    Jobs = {j1}
    Devices = {d1}
    DevicesOf <- MCDevicesOf
    Generation <- MCGeneration
    Stops = {j1}
    Revocable = {j1}
    MaxSpawns = 2
    LooseSpawns = 1
    MaxCrashes = 2
    UploadsFail = TRUE
INVARIANTS FreedIsIdle
PROPERTIES OutcomeStays RunningEnds
