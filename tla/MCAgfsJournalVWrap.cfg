\* Transactions of two blocks, in a log that wraps.
SPECIFICATION Spec
CONSTANTS
    p1 = p1
    p2 = p2
    p3 = p3
    Proc = {p1}
    Block = {b1, b2}
    SB = SB
    LOG_LEN = 4
    LOG_MAX_BLOCKS = 2
    LOG_BATCH = 3
    Envs <- Wrapping
CHECK_DEADLOCK FALSE
PROPERTY ImplementsStore
