CONSTANTS
    a = a
    b = b
    Paths <- MCOnePath
    Blank = {2}
    Workers = 1
    StoreTries = 2
    MaxChunks = 2
    BatchLimit = 1
    MtimesRegress = FALSE
    ApiPaths <- MCOnePath
    MaxGen = 3
    MaxClock = 1
    MaxCalls = 2
    MaxFaults = 0
    MaxLives = 2
SPECIFICATION Spec
INVARIANTS
    QuietMeansFresh
    NoTrackedWriteAfterClose
PROPERTIES
    RowsNeverGoBack
CHECK_DEADLOCK FALSE
