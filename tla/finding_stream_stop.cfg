SPECIFICATION Spec
CONSTANTS
    empty = empty
    bad = bad
    Configs <- FewConfigs
    Valid <- FewValid
    PersistIds <- NoPersistIds
    Empty = empty
    NULL = NULL
    NoFile = NoFile
    ZeroFile = ZeroFile
    NoId = NoId
    Absent = Absent
    InitMode = FALSE
    StartupFile = NoFile
    FailsafeFile = empty
    ScratchFile = NoFile
    MaxSession = 2
    MaxTimers = 2
    Autolock = FALSE
    StartupStore = FALSE
    StopTimes = TRUE
    Disciplined = FALSE
INVARIANT
    LockOwnersAlive
CHECK_DEADLOCK FALSE
