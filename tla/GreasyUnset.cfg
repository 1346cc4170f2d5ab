\* An explicit --config-id -1 with a supplied config.
SPECIFICATION Spec
CONSTANTS
    Names = {n1, n2}
    Unasked = Unasked
    Garbled = Garbled
    NoList = NoList
    Lists <- Published
    MaxAliasHops = 1
    ServerLists <- Retries
    Chains <- Errors
    DefaultMaxValidations = 2
    Commands <- CommandLines
    RandomId = 77
INVARIANT UnsetIdKeepsConfig
CHECK_DEADLOCK FALSE
