\* Frames of four or five bytes in a stream of eight.
SPECIFICATION FairSpec
CONSTANTS
    Bytes = {0, 1, 2}
    Preamble = 2
    HeaderLen = 2
    TrailerLen = 1
    MaxPayload = 2
    PayloadLen <- MCPayloadLen
    CrcOk <- MCCrcOk
    RingSize = 2
    EventDepth = 2
    ReadChunk = 2
    MaxBurst = 2
    MaxLine = 8
INVARIANTS
    TypeOK
    FitsBuffer
    FramesFound
    BytesUsedOnce
    LossResetsSplitter
    ReadNeverWaits
PROPERTIES
    ReplayTerminates
CHECK_DEADLOCK FALSE
