CONSTANTS
    r1 = r1
    r2 = r2
    r3 = r3
    w1 = w1
    w2 = w2
    w3 = w3
    s1 = s1
    Reader = {r3}
    Writer = {w3}
    Poller = {}
    Proc <- AllProc
    Chan = {"pipefs_read", "pipefs_write", "do_select", "pipe_resource"}
    NULL = NULL
    PIPE_BUF = 4
    Labels <- SomeLabels
    Envs <- OnlySingle
SPECIFICATION FairSpec
PROPERTY
    ReaderGetsOut
CHECK_DEADLOCK FALSE
