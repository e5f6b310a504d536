\* The services are started while the reader already publishes.
SPECIFICATION BootSpec
CONSTANTS
    N = 2
    PoolSize = 3
    Depth = 1
    f1 = f1
    f2 = f1
    Frames <- MCFrames
    NoFrame = NoFrame
INVARIANTS
    BootDamageBounded
