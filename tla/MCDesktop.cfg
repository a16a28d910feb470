SPECIFICATION FairSpec
CONSTANTS
    None = None
    Tray = Tray
    c = c
    o = o
    k = k
    Children = {c}
    Others = {o}
    Commands = {k}
    LocksOf <- MCLocksOf
    MaxRetries = 1
    MaxOrders = 2
    MaxStarts = 1
    MaxFaults = 2
INVARIANTS OneOwner TrayInControl
PROPERTY LoopReturns
CHECK_DEADLOCK FALSE
