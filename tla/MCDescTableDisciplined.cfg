SPECIFICATION FairSpec
CONSTANTS
    Threads = {t1, t2}
    NFds = 2
    Descs = {d1, d2, d3}
    NoThread = NoThread
    NULL = NULL
    MaxCalls = 2
    Calls = {"create", "close", "use", "ctl", "walk"}
    RawCloses = FALSE
    Disciplined = TRUE
INVARIANTS NodeDescCurrent NoCircularWait
PROPERTIES EveryCallReturns
