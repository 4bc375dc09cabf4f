\* The process stops: no deadlock check.
SPECIFICATION FairSpec
CHECK_DEADLOCK FALSE
INVARIANTS
    TypeOK
    ExclusiveUnlessReset
    SafeExit
    DeadLoopReleases
    ClosedIsNotUsed
    ClosesOnceUnlessFailed
PROPERTY
    ShutdownOrOrphan
