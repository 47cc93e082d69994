SPECIFICATION Spec
CONSTANTS
    Threads = {t1, t2, t3}
    NoThread = NoThread
    Fds = {f1, f2}
    Events = {IN}
    SELF = SELF
    EVFILT_USER = TRUE
    Cnts = {1}
    Timeouts = {"zero", "infinite"}
    MaxCalls = 1
    MaxChanges = 2
SYMMETRY Symmetry
INVARIANTS PollSetsCurrent EventsHaveNodes
