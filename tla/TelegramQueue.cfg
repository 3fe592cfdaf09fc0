CONSTANTS
    None = None
    RateLimit = TRUE
    MaxTelegrams = 4
    MaxStarts = 2
    MaxIdleStops = 1
SPECIFICATION FairSpec
INVARIANTS
    Accounting
    JoinMeansHandled
    StopDrains
    SentInOrder
PROPERTIES
    ImplementsService
    RunningHandles
    StopReturns
CHECK_DEADLOCK FALSE
