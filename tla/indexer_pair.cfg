CONSTANTS
    a = a
    b = b
    Paths <- MCPaths
    Blank = {}
    Workers = 1
    StoreTries = 2
    MaxChunks = 2
    BatchLimit = 1
    MtimesRegress = FALSE
    ApiPaths = {}
    MaxGen = 2
    MaxClock = 0
    MaxCalls = 1
    MaxFaults = 1
    MaxLives = 1
SPECIFICATION FairSpec
INVARIANTS
    QuietMeansFresh
PROPERTIES
    CatchesUp
CHECK_DEADLOCK FALSE
