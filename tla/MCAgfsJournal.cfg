\* A log that does not wrap.
SPECIFICATION Spec
CONSTANTS
    p1 = p1
    p2 = p2
    p3 = p3
    Proc = {p1, p2, p3}
    Block = {b1, b2}
    SB = SB
    LOG_LEN = 12
    LOG_MAX_BLOCKS = 2
    LOG_BATCH = 5
    Envs <- Atomic
CHECK_DEADLOCK FALSE
SYMMETRY Symmetry
INVARIANTS TypeOK 
PROPERTIES ImplementsStore 
