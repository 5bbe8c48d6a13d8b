SPECIFICATION Spec
CONSTANTS
    Fds = {f1, f2, f3}
    Fns = {t1}
    Delays = {1, 4}
    IntMax = 1
    MaxTimers = 1
    MaxRegs = 2
    NProc = 2
    Pids = {11, 12, 13}
    MaxSched = 2
INVARIANTS
    WalkSafe
    
PROPERTIES
    ServedInTurn
    ExitHonoured
    
CHECK_DEADLOCK FALSE
