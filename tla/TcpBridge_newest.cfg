\* The server empties a full queue between the two calls of the reader.
SPECIFICATION Spec
CONSTANTS
    Depth = 2
    Parts = 2
    MaxChunks = 5
    MaxSessions = 2
INVARIANTS
    NewestPreserved
CHECK_DEADLOCK FALSE
