SPECIFICATION TSpec
CONSTANTS
    IntervalOfflineMin = 1
    DoubleTime = 4
    IntervalOfflineMax = 8
    IntervalOnline = 6
    IntervalError = 2
    ErrorsNeeded = 3
INVARIANTS
    TTypeOK
    BackoffBounded
    OfflineNeedsErrors
    OutageReported
    RecoveryReported
    IndInv
PROPERTY
    RepeatsUntilHeard
