SPECIFICATION FairSpec
CONSTANTS
    a = a
    b = b
    d = d
    t1 = t1
    t2 = t2
    Thread = {t1, t2}
    Log = {a, b, d}
    By <- MCBy
    Priority = {d}
    Quantum = 1
INVARIANTS
    LaneGaugeExact
    LanesKeepOrder
    PointersStayValid
    WokenWhenRecordsWait
PROPERTIES
    DrainIsFair
    ExitedLanesRetire
CHECK_DEADLOCK FALSE
