CONSTANTS
    Instances = {i1, i2}
    NoOne = NoOne
    Lease = 1
    MaxLag = 2
    MaxGen = 2
    NoExec = NoExec
    Procs = {"p1", "p2"}
    Execs = {"x1", "x2"}
    Watchers = {"p1"}
    Cancels = {c1}
    StoreErrors = FALSE
    MaxCrashes = 0
    Items = {"a"}
    MaxConcurrent = 1
    MaxAttempt = 1
    MaxEpoch = 2
    MaxDeliveries = 1
    MaxRepeats = 0
    MayCancel = TRUE
    Writers = {"pass", "raise"}
    Makes <- MCMakes
    PageSize = 2
SPECIFICATION MCSpec
INVARIANTS SecondLeaderOnlyAfterLapse AcknowledgedWasHanded
PROPERTIES ImplementsLeadership LeaderIsFound IntentIsEnough ItemsEnd FeedIsRead
CHECK_DEADLOCK FALSE
