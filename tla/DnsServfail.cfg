\* A resolver that answers with a failure code.
SPECIFICATION LookupSpec
CONSTANTS
    Names = {n1, n2, n3, n4, n5}
    Unasked = Unasked
    Lists <- Published
    MaxAliasHops = 3
INVARIANT AbsentMeansAbsent
CHECK_DEADLOCK FALSE
