\* One uplink and the caster, queues of one, the smallest sufficient pool.
\* What is in a frame does not matter here, so there is one frame.
SPECIFICATION FairSpec
CONSTANTS
    N = 2
    PoolSize = 5
    Depth = 1
    f1 = f1
    f2 = f1
    Frames <- MCFrames
    NoFrame = NoFrame
INVARIANTS
    NoOverwriteInUse
    PoolNeverExhausted
PROPERTIES
    ReaderNeverBlocked
    CasterLetsGo
