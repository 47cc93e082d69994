SPECIFICATION FairSpec
CONSTANTS
    Signals = {s1, s2}
    NFds = 2
    SignalFds = {1}
    NULL = NULL
INVARIANTS NoMissedSignal ResultTrue
PROPERTY CallEnds
