CONSTANTS
    buf_count = 2
    Null = Null
    MaxQueueSize = 6
SPECIFICATION Spec
INVARIANT ExclusiveControl
CHECK_DEADLOCK FALSE
