CONSTANTS
    Modulus = 4
    Lifetime = 2
    Window = 2
    MaxIndex = 9
    MaxTunnels = 3
SPECIFICATION Spec
INVARIANTS AckedDelivered NoStaleTimer
PROPERTY InOrder
CHECK_DEADLOCK FALSE
