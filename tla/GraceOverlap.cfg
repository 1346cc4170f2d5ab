\* The overlap of a death and a rotation may be negative, in a run that is not cancelled.
SPECIFICATION UninterruptedSpec
CONSTANTS
    NoConfig = NoConfig
    Configs = {c1, c2}
    MaxFailures = 2
    Samples = 2
    Interval = 1
    MaxTime = 6
    MaxRotations = 2
INVARIANT OverlapNonNegative
