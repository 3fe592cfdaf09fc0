SPECIFICATION Spec
CONSTANTS
    MaxConnections = 2
    MaxSequence = 2
    MaxServerSequence = 1
    Devices = {d}
    Strangers = {x}
    SecureGroups = {sg}
    PlainGroups = {pg}
    KeyringNumber = 0
    MaxNumber = 3
    MaxClock = 3
    MaxDeviceNumber = 2
INVARIANTS NonceUnique NumbersGenuine TakenOnceInOrder
CHECK_DEADLOCK FALSE
