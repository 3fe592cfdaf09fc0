SPECIFICATION MCSpec
CONSTANTS
    v1 = v1
    v2 = v2
    Values <- MCValues
    Kind <- MCKind
    ParallelReads = 1
    Jobs = {j1, j2}
    RestartAfterReconnect = {j1}
    WaitForConnection = {j1, j2}
    RepeatAfter = {j2}
    MaxChanges = 3
    MaxInputs = 1
    MaxStarts = 2
INVARIANTS TrackersFollow JobsFollow
PROPERTIES ReadsInTheEnd JobsResume
CHECK_DEADLOCK FALSE
