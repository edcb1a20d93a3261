SPECIFICATION Spec
CONSTANTS
    c1 = c1
    c2 = c2
    s1 = s1
    s2 = s2
    x1 = x1
    x2 = x2
    Thread = {"t1"}
    Call = {c1, c2}
    Span = {s1, s2}
    TraceOf <- MCTraceOf
    Upstream = {"bad"}
    Malformed = {"bad"}
    Compiled = {"FastTelemetry", "Otel"}
    Config <- MCConfig
    MaxDepth = 2
    None = None
SYMMETRY Symmetry
INVARIANTS
    BorrowsMatchFrames
    LinesAreWhole
    ConfigRespected
    IdsStayTogether
    TextAndRecordAgree
    NoIdLost
