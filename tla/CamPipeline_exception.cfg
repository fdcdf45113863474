CONSTANTS
    buf_count = 2
    Null = Null
    MaxQueueSize = 6
SPECIFICATION Spec
INVARIANT NeverThrown
CHECK_DEADLOCK FALSE
