CONSTANTS
    FifoSize = 3
    DeadBand = 2
    MinValue = 0
    MaxValue = 5
    Samples <- SmallSamples
SPECIFICATION FairSpec
INVARIANTS
    TypeOK
    WithinDeadBand
    ForgetsOldSamples
    SumMatchesWindow
PROPERTIES
    ReportsAreNews
    NoiseIsNotReported
    ImplementsMovingAverage
    HeldInputIsReported
CHECK_DEADLOCK TRUE
