CONSTANT RowCols = 8
SPECIFICATION RunsSpec
INVARIANT RunsAreThePixels
CHECK_DEADLOCK FALSE
