CONSTANTS
    r1 = r1
    r2 = r2
    r3 = r3
    note = note
    pic = pic
    vault = vault
    scope = scope
    Base = Base
    Sync = Sync
    NoCall = NoCall
    Calls <- MCRequests
    Keys <- MCKeys
    Files <- MCFiles
    Markdown <- MCNote
    Text <- MCNote
    Mounts <- MCUnscoped
    MaxSyncs = 1
    MaxFaults = 1
SPECIFICATION Spec
SYMMETRY MCSymmetry
INVARIANTS
    HeldWhileWorking
    NoLostUpdate
    QuietMeansIndexed
PROPERTIES
    ImplementsMutex
CHECK_DEADLOCK FALSE
