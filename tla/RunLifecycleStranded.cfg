CONSTANTS
    p1 = p1
    p2 = p2
    x1 = x1
    x2 = x2
    x3 = x3
    NoExec = NoExec
    Procs = {p1, p2}
    Execs = {x1, x2, x3}
    ProcOf <- MCProcOf
    Watchers = {p1}
    Cancels = {c1}
    StoreErrors = FALSE
    MaxCrashes = 0
SPECIFICATION Spec
INVARIANTS WaitingHasWaker
CHECK_DEADLOCK FALSE
