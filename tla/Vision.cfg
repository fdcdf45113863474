CONSTANTS
    RowCols = 8
    Cols = 15
    Rows = 6
    RowRuns <- RowsToScan
    MaxRuns = 8
    MaxBlobs = 8
    MinPixels = 3
    MaxBoxes = 2
    MaxUdpBlobs = 1
SPECIFICATION VisionSpec
INVARIANTS ArraysFit RunsSeparated OnlyTrailingMissing
           BlobsAreComponents ReportIsBest
           RootListConsistent AssertsHold RanksIncrease FullListSound
PROPERTY ImplementsBlobs
CHECK_DEADLOCK FALSE
