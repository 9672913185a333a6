CONSTANTS
    u = u
    w = w
    Slugs <- MCSlugs
    Entries <- MCEntries
    Slash = 47
    Dot = 46
    PageLimit = 1
    MaxChanges = 1
SPECIFICATION Spec
INVARIANTS
    EveryEntryListed
CHECK_DEADLOCK FALSE
