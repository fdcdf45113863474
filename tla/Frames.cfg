CONSTANTS
    Viewers = {v1, v2}
    MaxFrames = 2
    MaxChunks = 2
    MaxImages = 2
    MaxSize = 2
    MaxExceed = 2
    MaxSaves = 6
    MaxRestarts = 2
    MaxSecond = 2
SPECIFICATION FramesSpec
INVARIANTS NoCircularWait BoxesOfOneImage FreshFrame NewestKept BoundedRing
PROPERTY ImplementsMailbox
CHECK_DEADLOCK FALSE
