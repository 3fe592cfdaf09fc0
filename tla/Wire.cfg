SPECIFICATION Spec
CONSTANT UnsupportedFrames = FALSE
INVARIANT RoundTrip
INVARIANT StreamInOrder
INVARIANT NoShortRead
CHECK_DEADLOCK FALSE
