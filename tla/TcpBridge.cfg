\* A queue of two, chunks in two pieces, five chunks and two clients.
SPECIFICATION FairSpec
CONSTANTS
    Depth = 2
    Parts = 2
    MaxChunks = 5
    MaxSessions = 2
INVARIANTS
    TypeOK
PROPERTIES
    StreamKeepsChunks
    RequestDoesNotLinger
    
CHECK_DEADLOCK FALSE
