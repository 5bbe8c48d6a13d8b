SPECIFICATION Spec
CONSTANTS
    empty = empty
    bad = bad
    Configs <- FewConfigs
    Valid <- FewValid
    PersistIds <- NoPersistIds
    Empty = empty
    NULL = NULL
    NoFile = NoFile
    ZeroFile = ZeroFile
    NoId = NoId
    Absent = Absent
    InitMode = FALSE
    StartupFile = NoFile
    FailsafeFile = empty
    ScratchFile = NoFile
    MaxSession = 2
    MaxTimers = 0
    Autolock = TRUE
    StartupStore = TRUE
    StopTimes = TRUE
    Disciplined = TRUE
PROPERTIES
    LockKeptWhileDirty
    StartupLockExclusion
CHECK_DEADLOCK FALSE
