CONSTANTS
    NumVaults = 2
    Vaults <- MCVaults
    MaxAttempts = 2
    SyncConfigured = TRUE
SPECIFICATION HungHelperSpec
PROPERTIES
    StopReachesEveryChild
CHECK_DEADLOCK FALSE
