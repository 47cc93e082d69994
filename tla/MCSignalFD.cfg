SPECIFICATION FairSpec
CONSTANTS
    Threads = {t1, t2}
    NoThread = NoThread
    Signals = {s1, s2}
    USER = USER
    MaxInfos = 2
INVARIANTS NoLostSignal NoSpuriousReadiness
PROPERTIES BlockedReadWoken NoBusyRead
