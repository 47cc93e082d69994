SPECIFICATION Spec
CONSTANTS
    Threads = {t1, t2, t3}
    NoThread = NoThread
    UINT64_MAX = 3
    InitVals = {0, 2}
    Values = {0, 1}
INVARIANT NoSpuriousReadiness
