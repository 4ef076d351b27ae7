CONSTANTS
    Gone = Gone
    Original = r0
    Resumes = {r1, r2}
    Pages = 3
    Every = 1
    MaxFaults = 2
    TornWrites = TRUE
    Nodes = {1, 2}
    Limits = {0, 1}
    MaxRetries = 1
    Execs = {e1, e2, e3}
    Keys = {"a", "b"}
    MaxWorkers = 2
    MaxExecs = 2
    MaxWaiters = 3
SPECIFICATION MCSpec
INVARIANTS FetchIsExact SlotsAreHeld OneHandlerPerNode WorkersAreCounted
PROPERTY NodesAndCallersGoOn
CHECK_DEADLOCK FALSE
