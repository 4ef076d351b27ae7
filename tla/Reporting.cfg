CONSTANTS
    Dispatchers = {d1, d2}
    MaxEvents = 2
    RunOf <- MCRunOf
    Margin = 2
    MaxOpen = 1
    Cooldown = 1
    Window = 1
    MaxMishaps = 1
    MayStall = FALSE
    Clients = {c1}
    Mutators = {m1, m2}
    LogCap = 2
    Buffer = 2
    MaxVersion = 3
    MaxConnects = 2
SPECIFICATION MCSpec
INVARIANTS NoEventIsMissed WatcherIsCurrent
PROPERTIES FinishedStays DeliveriesEnd
CHECK_DEADLOCK FALSE
