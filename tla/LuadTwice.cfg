SPECIFICATION Spec
CONSTANTS
    supd = supd
    fonsmcd = fonsmcd
    fonsmcdd = fonsmcdd
    None = None
    Daemons <- MCOne
    Service = fonsmcd
    Grepped <- MCGrepped
    Pids = {1, 2}
    MaxFaults = 0
INVARIANT NotTwice
