\* Samples back to back: the tracker implements ConfigWatch, comes to an end, and so
\* does every streak.
SPECIFICATION FairSpec
CONSTANTS
    NoConfig = NoConfig
    Configs = {c1, c2}
    MaxFailures = 3
    Samples = 3
    Interval = 2
    MaxTime = 1
    MaxRotations = 0
INVARIANTS
    SequenceOfSamples
    RepeatFlag
    BootstrapBudget
PROPERTIES
    ImplementsConfigWatch
    StopsAfterCancel
    StreakResolves
