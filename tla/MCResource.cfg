CONSTANTS
    Proc = {p1, p2, p3}
    Chan = {r1, r2, e1}
    Res = {r1, r2}
    NULL = NULL
SPECIFICATION FairSpec
INVARIANTS
    TypeOK
    MutualExclusion
    WaitersAreKnown
PROPERTY
    WaitersGetTheirTry
