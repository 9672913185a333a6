CONSTANTS
    NumVaults = 2
    Vaults <- MCVaults
    MaxAttempts = 2
    SyncConfigured = TRUE
SPECIFICATION FairSupervisorSpec
INVARIANTS
    TypeOK
    QuietOnceStopped
    SetupGatesEveryChild
    ReadyMeansServed
PROPERTIES
    EveryVaultSettles
    StopCompletes
CHECK_DEADLOCK FALSE
