SPECIFICATION FSpec
CONSTANTS
    IntervalOfflineMin = 1
    DoubleTime = 1
    IntervalOfflineMax = 2
    IntervalOnline = 2
    IntervalError = 1
    ErrorsNeeded = 2
    MaxPending = 2
    MaxFaults = 2
    KillsMidScript = TRUE
INVARIANTS
    FTypeOK
    StatesAgree
    HotspotFollows
PROPERTIES
    ConvergesOnline
    ConvergesOffline
