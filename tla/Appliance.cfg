\* Two requests and one loss of power; rings of four and five characters.
SPECIFICATION MCSpec
CONSTANTS
    MaxRequests = 2
    MaxLosses = 1
    ConsoleSize = 4
    ConsoleLine = 3
    LogSize = 5
    LogLine = 4
    MaxEvents = 6
INVARIANTS
    TypeOK
    PromisedConfigKept
    SameFormChangesNothing
    FallbackExists
    ShownIsNewest
    ConsoleLinesAreRuns
    CommandWhole
PROPERTIES
    ComesUpUnlessDamaged
CHECK_DEADLOCK FALSE
