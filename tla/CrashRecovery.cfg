CONSTANTS
    p1 = p1
    p2 = p2
    p3 = p3
    x1 = x1
    x2 = x2
    n1 = n1
    n2 = n2
    NoOne = NoOne
    Procs = {p1, p2, p3}
    Execs = {x1, x2}
    ProcOf <- MCProcOf
    Sweepers = {p3}
    Pipeline <- MCPipeline
    Unsafe = {n1, n2}
    MaxRetries = 1
    MaxRequeues = 1
    MaxCrashes = 1
    UserCancels = TRUE
SPECIFICATION Spec
INVARIANTS SuccessIsTrue UnsafeRunsOnce
CHECK_DEADLOCK FALSE
