SPECIFICATION Spec
CONSTANTS
    cron = cron
    hotplug = hotplug
    firewall = firewall
    Procs = {cron, hotplug, firewall}
    Job <- MCJob
    Ips = {1, 2}
    Cap = 2
    Lens <- MCLens
    Byte = 3
    Tries = 2
    Radix = 2
    MaxDigits = 4
    Octet <- MCOctet
    Shorter <- MCShorter
    Period = 3
    ResetTime = 2
    MaxRuns = 1
    MaxNow = 3
    MaxUsed = 1
    MaxFaults = 1
INVARIANTS
    TypeOK
    SemAccounts
    ChargedUnlessLateOrCut
    NeverBlocks
SYMMETRY Perms
CHECK_DEADLOCK FALSE
