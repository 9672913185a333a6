SPECIFICATION Spec
CONSTANTS
    c1 = c1
    c2 = c2
    c3 = c3
    Clients <- MCClients
    MaxChunks = 3
    BatchLimit = 2
    MaxSize = 2
INVARIANTS
    NothingStranded
    OwnVectors
PROPERTIES
    EverySubmissionAnswered
