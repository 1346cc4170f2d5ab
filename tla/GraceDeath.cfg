\* One sample: streaks, deaths and rotations.
SPECIFICATION Spec
CONSTANTS
    NoConfig = NoConfig
    Configs = {c1, c2}
    MaxFailures = 3
    Samples = 1
    Interval = 2
    MaxTime = 8
    MaxRotations = 2
SYMMETRY ConfigSymmetry
INVARIANTS
    TypeOK
    FatalStreak
    ReasonFitsStreak
    StreakIsCounted
    PacedByInterval
    RotationsAreObservations
    RotationIsFirstSign
