SPECIFICATION FairSpec
CONSTANTS
    a = a
    b = b
    w = w
    h = h
    o = o
    p1 = p1
    p2 = p2
    Producer = {p1, p2}
    Log = {a, w}
    Thread <- MCThread
    Flusher = {"f1"}
    Priority = {w}
    Filtered = {}
    Unmappable = {}
    Weight <- MCWeight
    Capacity <- MCCapacity
    MaxBatchRecords = 2
    MaxBatchBytes = 130
    ResourceLen = 20
    ScopeLen = 11
    Answers = {"ok", "terminal"}
    Closings = {}
PROPERTIES
    FlushLearnsOfFailure
CHECK_DEADLOCK FALSE
