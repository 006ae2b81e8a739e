SPECIFICATION FairSpec
CONSTANTS
    supd = supd
    fonsmcd = fonsmcd
    fonsmcdd = fonsmcdd
    None = None
    Daemons <- MCOne
    Service = fonsmcd
    Grepped <- MCGrepped
    Pids = {1, 2}
    MaxFaults = 2
INVARIANTS
    TypeOK
    FileNamesDaemon
PROPERTY
    Recovers
\* Without fonstated and without its crontab line the hotspot really stops.
CHECK_DEADLOCK FALSE
