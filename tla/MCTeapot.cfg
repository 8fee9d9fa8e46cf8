SPECIFICATION TeapotSpec
CONSTANTS
    Windows = {w1}
    Queues = {}
    NULL = NULL
    PipeCap = 2
INVARIANT WindowCleanedUp
