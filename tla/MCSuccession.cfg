SPECIFICATION Spec
CONSTANTS
    d1 = d1
    j1 = j1
    j2 = j2
    NoJob = NoJob
    Jobs = {j1, j2}
    Devices = {d1}
    DevicesOf <- MCDevicesOf
    Generation <- MCGeneration
    Stops = {}
    Revocable = {j1}
    MaxSpawns = 2
    LooseSpawns = 1
    MaxCrashes = 1
    UploadsFail = TRUE
INVARIANTS OneProcessPerDevice
