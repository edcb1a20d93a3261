SPECIFICATION Spec
CONSTANTS
    Builds <- MCBuilds
    Calls <- MCCalls
    DisplayKey <- MCDisplayKey
    JsonKey <- MCJsonKey
    Features <- MCFeatures
    Filters <- MCFilters
    MaxBuilds = 2
    MaxI64 = 5
    None = None
INVARIANTS
    JsonReadsBack
    LatestValueWins
    FormatsAgree
    DisabledIsFree
CHECK_DEADLOCK FALSE
