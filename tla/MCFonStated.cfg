SPECIFICATION FairSpec
CONSTANTS
    wan = wan
    child = child
    user = user
    NoCommand = NoCommand
    Clients <- MCClients
    Cmds <- MCCmds
    Parent <- MCParent
    BootJobs <- MCBoot
    Period <- MCPeriod
    Timers = 2
    Watchdogs = {2}
    SlowEvents = {"Online"}
    FastEvents = {"Event", "StartOnlined"}
    SockCap = 1
    MaxStarts = 2
INVARIANTS
    TypeOK
    CommandsRunAtMostOnce
    ClientOrder
    OwnScriptOnly
PROPERTIES
    ImplementsDispatch
    DeliveredUnlessKilled
CHECK_DEADLOCK FALSE
