CONSTANTS
    r1 = r1
    r2 = r2
    r3 = r3
    i1 = i1
    i2 = i2
    NoOne = NoOne
    Runners = {r1, r2, r3}
    Instances = {i1, i2}
    InstanceOf <- MCInstanceOf
    Recoverers = {rec1}
    LeaseDuration = 1
    MaxTime = 4
    Requests = {q1}
    Editors = {e1}
    Appliers = {a1, a2}
    MaxVersions = 4
    Pipelines = {1, 2, 3}
    Callers = {1}
    MaxEdits = 3
    Outcomes = {"success"}
    MaxRuns = 1
    Items = {"a"}
    MaxConcurrent = 1
    MaxAttempt = 1
    MaxEpoch = 2
    MaxDeliveries = 2
    MaxRepeats = 1
    MayCancel = FALSE
SPECIFICATION MCSpec
INVARIANTS LeaseExclusive TokenIsOwn CompletedByLatest DependenciesEnd ItemResultIsOwn
PROPERTIES SettledIsFinal RequestsAreSettledRight
CHECK_DEADLOCK FALSE
