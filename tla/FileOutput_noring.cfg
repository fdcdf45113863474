CONSTANTS
    MaxSize = 2
    MaxExceed = 2
    MaxSaves = 6
    MaxRestarts = 2
    MaxSecond = 2
SPECIFICATION FileSpec
INVARIANT NoRingKeepsAll
CHECK_DEADLOCK FALSE
