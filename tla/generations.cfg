SPECIFICATION Spec
CONSTANTS
    R1 = R1
    R2 = R2
    h1 = h1
    h2 = h2
    h3 = h3
    g1 = g1
    g2 = g2
    g3 = g3
    Type = {R1, R2}
    Thread = {"t1"}
    Handle = {h1, h2, h3}
    Exporter = {h1, h2}
    TypeOf <- MCTypeOf
    Callback = {g1, g2, g3}
    MaxBacklog = 1
SYMMETRY Symmetric
INVARIANTS
    ActiveExact
    OpenHandleWorks
    NoWorkerLeaked
PROPERTIES
    NoDispatchAfterDisable
    QuietOnceStopped
    SteadyLogsAreTaken
CHECK_DEADLOCK FALSE
