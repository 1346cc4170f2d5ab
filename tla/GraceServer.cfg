\* A server that rotates and retires keys: what the measurement says of it.
SPECIFICATION ServerSpec
CONSTANTS
    NoConfig = NoConfig
    Configs = {c1, c2}
    MaxFailures = 2
    Samples = 2
    Interval = 2
    MaxTime = 8
    MaxRotations = 1
    MaxCall = 1
SYMMETRY ConfigSymmetry
INVARIANTS
    Chronology
    CleanDeathIsRetirement
    RetryRotationIsReal
    RepeatFollowsConnectFailures
