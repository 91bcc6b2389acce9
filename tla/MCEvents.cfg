SPECIFICATION FairSpec
CONSTANTS
    Events = 4
    BatchSize = 2
    QueueSize = 2
    PageSize = 2
    UploadsFail = TRUE
INVARIANTS NothingBehindCursor LossIsCounted
PROPERTIES StoppedEnds
CHECK_DEADLOCK FALSE
