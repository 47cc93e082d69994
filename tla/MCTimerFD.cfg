SPECIFICATION Spec
CONSTANTS
    Values = {2, 50}
    Intervals = {0, 2, 70}
    Offsets = {1, 2, 4}
    MaxMono = 4
    TenYears = 40
    MaxNanos = 60
    MaxTime = 52
INVARIANTS ReadAssertions ExpirationsExact KernelTimerRight StepCorrectedUnlessOverlooked CancelNotLost
