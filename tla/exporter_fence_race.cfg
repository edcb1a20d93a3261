SPECIFICATION Spec
CONSTANTS
    a = a
    b = b
    w = w
    h = h
    o = o
    p1 = p1
    p2 = p2
    Producer = {p1, p2}
    Log = {a, w}
    Thread <- MCThread
    Flusher = {}
    Priority = {w}
    Filtered = {}
    Unmappable = {}
    Weight <- MCWeight
    Capacity <- MCCapacity
    MaxBatchRecords = 2
    MaxBatchBytes = 130
    ResourceLen = 20
    ScopeLen = 11
    Answers = {"ok"}
    Closings = {"shutdown"}
INVARIANTS
    GracefulDrainLosesNothing
CHECK_DEADLOCK FALSE
