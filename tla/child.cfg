CONSTANTS
    StallTimeout = 2
    LogTail = TRUE
    PollInterval = 1
    KillGrace = 1
    HealthyReset = 3
    CrashWindow = 4
    StallWindow = 8
    MaxCrashes = 3
    MaxStalls = 2
    BackoffInitial = 1
    BackoffCap = 2
    FailureCap = 3
    SpawnMayThrow = TRUE
SPECIFICATION FairSpec
INVARIANTS
    TypeOK
    OneOwnedProcess
    NotReadyOnceCondemned
    CeilingsHold
PROPERTIES
    KillJustified
    StallsCreditedByVerdict
    RecoveryIsSticky
    ImplementsLifecycle
    WedgeEnds
    StopCompletes
    GivenUpAtACeiling
