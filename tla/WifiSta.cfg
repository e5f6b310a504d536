\* A small event queue; the attempt counter wraps after it has passed the
\* longest delay of the table.
SPECIFICATION FairSpec
CONSTANTS
    MaxEvents = 3
    AttemptsMod = 14
INVARIANTS
    TypeOK
    OnlyReconnectsWhenDown
    StatusAgrees
PROPERTIES
    BackoffNeverShrinks
    StaleIpEnds
CHECK_DEADLOCK FALSE
