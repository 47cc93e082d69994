SPECIFICATION FairSpec
CONSTANTS
    Threads = {t1, t2, t3}
    NoThread = NoThread
    UINT64_MAX = 3
    InitVals = {0, 2}
    Values = {1, 2, 3}
INVARIANTS NoLostWakeup NoSpuriousReadiness
PROPERTIES AbstractSpec BlockedReaderWoken
