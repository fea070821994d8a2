CONSTANTS
    p1 = p1
    p2 = p2
    kbdflushd = kbdflushd
    Proc <- AllProc
    Chan <- AllChan
    NULL = NULL
    Buffer = {x1, x2}
    Block = {b1, b2, b3}
    Envs <- Apart
    MaxDirty = 1
    NR_BUF_RECLAIM = 1
SPECIFICATION FairSpec
INVARIANTS
    TypeOK
    OneOwner
    LockedIsOwned
    NoTransferMissed
    ListsExact
    Coherent
PROPERTIES
    SyncIsDurable
    EveryCallEnds
