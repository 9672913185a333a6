CONSTANTS
    r1 = r1
    r2 = r2
    r3 = r3
    note = note
    pic = pic
    vault = vault
    scope = scope
    Base = Base
    Sync = Sync
    NoCall = NoCall
    Calls <- MCRequests
    Keys <- MCKeys
    Files <- MCNote
    Markdown <- MCNote
    Text <- MCNote
    Mounts <- MCScoped
    MaxSyncs = 0
    MaxFaults = 0
SPECIFICATION Spec
SYMMETRY MCSymmetry
INVARIANTS
    NoLostUpdate
CHECK_DEADLOCK FALSE
