CONSTANTS
    p1 = p1
    p2 = p2
    p3 = p3
    NULL = NULL
    init = init
    ANY = ANY
    sys_wait4 = sys_wait4
    Proc = {init, p1, p2, p3}
    Chan = {sys_wait4}
    MaxCounted = 2
    Envs <- One
SPECIFICATION Spec
CHECK_DEADLOCK FALSE
PROPERTY
    OnlySigchldConsumed
