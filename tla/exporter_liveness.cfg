SPECIFICATION FairSpec
CONSTANTS
    a = a
    b = b
    w = w
    h = h
    o = o
    p1 = p1
    p2 = p2
    Producer = {p1, p2}
    Log = {a, h}
    Thread <- MCThread
    Flusher = {"f1"}
    Priority = {h}
    Filtered = {}
    Unmappable = {}
    Weight <- MCWeight
    Capacity <- MCCapacity
    MaxBatchRecords = 2
    MaxBatchBytes = 130
    ResourceLen = 20
    ScopeLen = 11
    Answers = {"ok", "retryable", "terminal"}
    Closings = {}
PROPERTIES
    ImplementsDelivery
    NoRecordIsStranded
    FlushReturnsWhenDone
CHECK_DEADLOCK FALSE
