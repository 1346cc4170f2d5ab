\* Two targets, two variations each.
SPECIFICATION FairSpec
CONSTANTS
    N = 2
    Garbled = Garbled
    NoList = NoList
    PublicNames <- Names
    ConfigIDs <- Ids
    Supplied <- Inputs
    DNSAnswers <- Answers
    ServerLists <- Retries
    Chains <- Errors
    GreaseFlags <- FlagsOfProbe
    RandomId = 77
INVARIANTS
    OneFactorAtATime
    BaselineIsReal
    ResultsTellTheWire
    ReportInOrder
    ErrorsSurface
PROPERTY EveryRunReturns
CHECK_DEADLOCK FALSE
