CONSTANTS
    Proc = {p1, p2}
    IDLE = IDLE
    Quanta = {1, 2}
    DEF_PRIORITY = 2
    SchedParams <- RealTime
SPECIFICATION FairSpec
INVARIANTS TypeOK QueueIsTheRunnable SleepersAreOffTheCPU IdleKnowsOfWork
PROPERTIES IdleGivesWay 
