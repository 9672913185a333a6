CONSTANTS
    MaxSeconds = 3
    MaxCount = 2
    DefaultTimeout = 3
    DefaultPoll = 2
    DefaultThreshold = 1
    Environments <- MCEnvironments
    Versions = {1, 2, 3}
    Dims = {1, 2}
    NoVersion = NoVersion
    NoEnvironment = NoEnvironment
    Slugs <- MCSlugs
SPECIFICATION FairSpec
INVARIANTS
    AcceptedConfigurationIsFit
    SidecarTellsTheRows
    RefusedStartLeavesTheDisk
    ServedTablesFit
    ExitStopsTheChildren
PROPERTIES
    EveryStopEnds
