SPECIFICATION FairSpec
CONSTANTS
    Threads = {t1, t2, t3, t4, t5}
    MAX_READERS = 6
    NoThread = NoThread
INVARIANTS MutualExclusion NoStrayWriterToken SomeoneAwake
PROPERTIES AbstractSpec WriterNotStarved ReadersReleased
