CONSTANTS
    buf_count = 5
    Null = Null
    MaxQueueSize = 6
    MaxFrames = 7
    MaxSizes = {0, 1, 2, 3, 9}
    StreamQueueSize = 4
SPECIFICATION QueuesSpec
INVARIANTS InStep OnePlace
PROPERTIES ImplementsFifo AllFramesArrive CameraKeepsShowing
CHECK_DEADLOCK FALSE
