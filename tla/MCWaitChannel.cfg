CONSTANTS
    Proc = {p1, p2}
    Chan = {c1, c2}
    NULL = NULL
SPECIFICATION FairSpec
INVARIANTS
    TypeOK
    NoLostWakeup
    SleepersAreFindable
PROPERTIES
    UninterruptibleUntilWakeup
    ObeysTheContract
    PostedWaitersWake
