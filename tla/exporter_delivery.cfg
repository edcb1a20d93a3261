SPECIFICATION Spec
CONSTANTS
    a = a
    b = b
    w = w
    h = h
    o = o
    p1 = p1
    p2 = p2
    Producer = {p1, p2}
    Log = {a, b, w, h, o}
    Thread <- MCThread
    Flusher = {}
    Priority = {h}
    Filtered = {w}
    Unmappable = {}
    Weight <- MCWeight
    Capacity <- MCCapacity
    MaxBatchRecords = 2
    MaxBatchBytes = 130
    ResourceLen = 20
    ScopeLen = 11
    Answers = {"ok", "partial", "invalid", "retryable", "terminal"}
    Closings = {}
INVARIANTS
    ExactlyOnePlace
    WatermarkSound
    LaneOrderKept
    BatchesFit
CHECK_DEADLOCK FALSE
