SPECIFICATION Spec
CONSTANTS
    a = a
    b = b
    Members <- MCMembers
    HostClock <- MCHostClock
    Latency = 2
    SyncLatency = 1
    MaxTime = 2
    MaxStarts <- MCMaxStarts
    MaxWrappers = 1
    MaxFaults = 1
    InFlight = 1
INVARIANTS ReplayWindow TimersGenuine Listening
PROPERTIES Converges
CHECK_DEADLOCK FALSE
