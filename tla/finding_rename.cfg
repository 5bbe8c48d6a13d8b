SPECIFICATION Spec
CONSTANTS
    empty = empty
    conf1 = conf1
    bad = bad
    Configs <- MCConfigs
    Valid <- MCValid
    PersistIds <- NoPersistIds
    Empty = empty
    NULL = NULL
    NoFile = NoFile
    ZeroFile = ZeroFile
    NoId = NoId
    Absent = Absent
    Modes <- RunningOnly
    StartupFiles <- EmptyFile
    FailsafeFiles <- EmptyFile
PROPERTIES
    RollbackNotRetried
