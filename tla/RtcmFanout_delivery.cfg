\* Queues of two and two different frames in a pool that is too small, so
\* that slots are reused at once and pool_alloc also fails.
SPECIFICATION Spec
CONSTANTS
    N = 2
    PoolSize = 4
    Depth = 2
    f1 = f1
    f2 = f2
    Frames <- MCFrames
    NoFrame = NoFrame
SYMMETRY Symmetry
INVARIANTS
    TypeOK
    RefCountExact
PROPERTIES
    DeliversByValue
