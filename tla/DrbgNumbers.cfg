CONSTANTS
    Threads = {t1, t2}
    Memories = {m1, m2}
    NULL = NULL
    Error = Error
    Encrypted = Encrypted
    SeedBlocks = 2
    CtrMod = 4
    kMaxReseedCount = 2
    HasCtr = TRUE
    MaxCalls = 3
SPECIFICATION Spec
INVARIANTS TypeOK AloneIsFresh NeverUnseeded RefusedLate
CHECK_DEADLOCK FALSE
SYMMETRY Symmetry
