SPECIFICATION Spec
CONSTANT UnsupportedFrames = TRUE
INVARIANT StreamInOrder
CHECK_DEADLOCK FALSE
