CONSTANTS
    b1 = b1
    b2 = b2
    c3 = c3
    Proc = {p1, p2, p3}
    Chan = {c1, c2, c3}
    NULL = NULL
    Bucket = {b1, b2}
    SLEEP_HASH <- Hash
SPECIFICATION Spec
SYMMETRY Symmetry
INVARIANTS
    TypeOK
    RunQueueExact
    SleepTableExact
PROPERTY
    ImplementsSleepSpec
