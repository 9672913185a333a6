CONSTANTS
    r1 = r1
    r2 = r2
    s1 = s1
    s2 = s2
    NoSid = NoSid
    Slots <- MCSlots
    Sids <- MCSids
    Slugs <- MCSlugs
    Urls <- MCUrls
    Paths <- MCPaths
    Chunks <- MCChunks
    Asked <- MCAsked
    Callers <- MCCallers
    CacheMax = 1
    Pool = 4
    RrfK = 2
    Scale = 60
SPECIFICATION Spec
SYMMETRY MCSymmetry
INVARIANTS
    CallsStayInScope
    OpenServersAreSessions
    ScopeIsAVaultOfItsOwn
    SearchKeepsTheCaps
