SPECIFICATION FairSpec
CONSTANTS
    Thread = {"t1", "t2"}
    Level <- MCLevel
    Calls <- AllCalls
    Env <- SetOrNot
INVARIANTS
    EnvDecidesFirst
    LastCallHolds
PROPERTIES
    EveryCallReturns
