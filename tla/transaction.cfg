SPECIFICATION Spec
CONSTANTS
    N = 3
    Configs = {c1, c2, bad}
    Valid = {c1, c2}
INVARIANTS
    PluginsAgree
    TransactionsClosed
    RevertsCommitted
PROPERTIES
    RunningCommitted
    TransactionEnds
