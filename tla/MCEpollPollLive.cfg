SPECIFICATION FairSpec
CONSTANTS
    Threads = {t1, t2}
    NoThread = NoThread
    Fds = {f1, f2}
    Events = {IN}
    SELF = SELF
    EVFILT_USER = FALSE
    Cnts = {1}
    Timeouts = {"positive", "infinite"}
    MaxCalls = 1
    MaxChanges = 1
PROPERTIES CallsReturn ReadyFdWakes
