\* One invocation of greasy or conn, to its exit.
SPECIFICATION FairSpec
CONSTANTS
    Names = {n1, n2}
    Unasked = Unasked
    Garbled = Garbled
    NoList = NoList
    Lists <- Published
    MaxAliasHops = 1
    ServerLists <- Retries
    Chains <- Errors
    DefaultMaxValidations = 2
    Commands <- CommandLines
    RandomId = 77
INVARIANTS
    ExitStatusIsVerdict
    ReportIsTrue
    FlagsReachTheWire
    ValidationsAreHandshakes
    LookupAgrees
    QueriesBounded
PROPERTY InvocationEnds
CHECK_DEADLOCK FALSE
