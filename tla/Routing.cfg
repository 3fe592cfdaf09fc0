SPECIFICATION FlowSpec
CONSTANTS
    Senders = {s1, s2}
    MaxSend = 2
    MaxBusy = 3
    WaitTimes = {1, 3}
    ROUTING_INDICATION_WAIT_TIME = 2
    BUSY_INCREMENT_COOLDOWN = 1
    BUSY_DECREMENT_TIME = 1
    BUSY_RANDOM_TIME_FACTOR = 1
    BUSY_SLOWDURATION_TIME_FACTOR = 2
INVARIANTS BusyRespected
PROPERTIES OwnRate WaitersResume CounterDrains
CHECK_DEADLOCK FALSE
