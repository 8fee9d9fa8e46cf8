SPECIFICATION MCSpec
CONSTANTS
    Windows = {w1, w2}
    Queues = {q1}
    NULL = NULL
    PipeCap = 2
INVARIANTS WindowValid IdleInSync FreedLast SavedOnce SurfaceValid SurfaceFollows
PROPERTIES CallbackReturns KeepsPromise ResourcesKept
