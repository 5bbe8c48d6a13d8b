SPECIFICATION HSpec
CONSTANTS
    empty = empty
    conf1 = conf1
    bad = bad
    Configs <- TwoConfigs
    Valid <- TwoConfigs
    PersistIds <- NoPersistIds
    Empty = empty
    NULL = NULL
    NoFile = NoFile
    ZeroFile = ZeroFile
    NoId = NoId
    Absent = Absent
    InitMode = FALSE
    StartupFile = NoFile
    FailsafeFile = empty
    ScratchFile = NoFile
    MaxSession = 2
    MaxTimers = 2
    Autolock = FALSE
    StartupStore = FALSE
    StopTimes = FALSE
    Disciplined = FALSE
PROPERTY
    RollbackRestores
CHECK_DEADLOCK FALSE
