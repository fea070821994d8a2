\* A log of two blocks.
SPECIFICATION Spec
CONSTANTS
    p1 = p1
    p2 = p2
    p3 = p3
    Proc = {p1, p2}
    Block = {b1, b2, b3}
    SB = SB
    LOG_LEN = 2
    LOG_MAX_BLOCKS = 2
    LOG_BATCH = 2
    Envs <- Everything
CHECK_DEADLOCK FALSE
INVARIANT JournalOwned
