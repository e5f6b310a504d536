\* Two uplinks with two connections in all; two rover slots and three clients.
SPECIFICATION MCSpec
CONSTANTS
    u1 = u1
    u2 = u2
    Uplinks <- MCUplinks
    WithPassword <- MCWithPassword
    QueueDepth = 1
    Parts = 2
    RetryLimit = 1
    MaxFrames = 2
    MaxConns = 2
    Rovers = 2
    CasterDepth = 1
    Pieces = 3
    MaxRtcm = 2
    MaxClients = 3
INVARIANTS
    TypeOK
    MaskExactWithoutRace
    FastRoverMissesNothing
PROPERTIES
    UplinkStream
    ClosedPeerNoticed
    UplinkLetsGo
    RoverStream
    RoverServed
CHECK_DEADLOCK FALSE
