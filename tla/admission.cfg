SPECIFICATION Spec
CONSTANTS
    p1 = p1
    p2 = p2
    a = a
    u = u
    p3 = p3
    w = w
    x = x
    Producer = {p1, p2, p3}
    Log = {a, u, w, x}
    Priority <- MCPriority
    Size <- MCSize
    RecordCapacity <- MCRecords
    ByteCapacity <- MCBytes
    Checked <- MCChecked
SYMMETRY Symmetry
INVARIANTS
    TypeOK
    GaugesExact
    OvershootBounded
    TicketsDense
PROPERTIES
    ImplementsBoundedQueue
CHECK_DEADLOCK FALSE
