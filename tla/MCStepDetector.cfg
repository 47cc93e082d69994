SPECIFICATION FairSpec
CONSTANTS
    Timers = {t1, t2}
    Detectors = {d1, d2}
    MaxCalls = 4
    MaxSteps = 2
CHECK_DEADLOCK FALSE
INVARIANTS CountExact OneDetector
PROPERTIES OldDetectorsEnd StepNoticed
