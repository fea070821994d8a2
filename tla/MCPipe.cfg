CONSTANTS
    r1 = r1
    r2 = r2
    r3 = r3
    w1 = w1
    w2 = w2
    w3 = w3
    s1 = s1
    Reader = {r1, r2, r3}
    Writer = {w1, w2, w3}
    Poller = {s1}
    Proc <- AllProc
    Chan = {"pipefs_read", "pipefs_write", "do_select", "pipe_resource"}
    NULL = NULL
    PIPE_BUF = 3
    Labels <- SomeLabels
    Envs <- All
SPECIFICATION Spec
SYMMETRY Symmetry
INVARIANTS
    TypeOK
    SleepersHaveCause
PROPERTY
    ImplementsQueue
CHECK_DEADLOCK FALSE
