SPECIFICATION Spec
CONSTANTS
    Threads = {t1, t2, t3}
    NFds = 2
    Descs = {d1, d2, d3}
    NoThread = NoThread
    NULL = NULL
    MaxCalls = 1
    Calls = {"create", "close", "use", "ctl", "walk"}
    RawCloses = TRUE
    Disciplined = FALSE
SYMMETRY Symmetry
INVARIANTS RefCountExact NoUseAfterFree MutexesPaired ClosedFdsLeaveEpoll
