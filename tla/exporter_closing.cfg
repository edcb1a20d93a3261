SPECIFICATION FairSpec
CONSTANTS
    a = a
    b = b
    w = w
    h = h
    o = o
    p1 = p1
    p2 = p2
    Producer = {p1, p2}
    Log = {a, h}
    Thread <- MCThread
    Flusher = {}
    Priority = {h}
    Filtered = {}
    Unmappable = {h}
    Weight <- MCWeight
    Capacity <- MCCapacity
    MaxBatchRecords = 2
    MaxBatchBytes = 130
    ResourceLen = 20
    ScopeLen = 11
    Answers = {"ok", "retryable", "terminal"}
    Closings = {"shutdown", "reconfigure", "drop"}
INVARIANTS
    DrainKeepsPromise
PROPERTIES
    ReportAccountsForRecords
    ClosingEndsTheWorker
CHECK_DEADLOCK FALSE
