CONSTANTS
    SeqMod = 5
    MaxFrames = 7
    MaxChannels = 8
    MaxFaults = 2
SPECIFICATION FairSpec
INVARIANTS ConfirmedOnBus BusInOrder
PROPERTY SendEnds
CHECK_DEADLOCK FALSE
