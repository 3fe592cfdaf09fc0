CONSTANTS
    SeqMod = 2
    MaxRequests = 2
    MaxConnections = 2
    MaxFaults = 2
    Callers = {c1, c2, c3}
    Addresses = {a1, a2}
    None = None
SPECIFICATION MCSpec
INVARIANTS
    ResponseMatches
    ExecutedOnce
    FreeMeansNotRefused
    EntryHasUser
PROPERTY RequestEnds
CHECK_DEADLOCK FALSE
