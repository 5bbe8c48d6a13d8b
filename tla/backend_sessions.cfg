SPECIFICATION FairSpec
CONSTANTS
    empty = empty
    bad = bad
    Configs <- FewConfigs
    Valid <- FewValid
    PersistIds <- NoPersistIds
    Empty = empty
    NULL = NULL
    NoFile = NoFile
    ZeroFile = ZeroFile
    NoId = NoId
    Absent = Absent
    InitMode = TRUE
    StartupFile = NoFile
    FailsafeFile = empty
    ScratchFile = NoFile
    MaxSession = 2
    MaxTimers = 2
    Autolock = FALSE
    StartupStore = FALSE
    StopTimes = FALSE
    Disciplined = FALSE
INVARIANTS
    TypeOK
    LockOwnersAlive
    EphemeralOwnerAlive
    TimerArmed
    RunningValid
    PluginsKnowCandidateLock
PROPERTIES
    CandidateLockExclusion
    
CHECK_DEADLOCK FALSE
