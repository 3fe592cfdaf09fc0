CONSTANTS
    MaxSockets = 6
    MaxFaults = 2
SPECIFICATION FairSpec
INVARIANTS
    LossNoticed
    NothingForgotten
    ClosedStaysDown
PROPERTY Settles
CHECK_DEADLOCK FALSE
