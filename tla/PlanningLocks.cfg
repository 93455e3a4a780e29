SPECIFICATION LockSpec
CONSTANTS
    p1 = p1
    p2 = p2
    Procs = {p1, p2}
    PlanTimeout = 1
    Stale <- MCStale
    StateWait = 2
    MaxCrashes = 1
    MaxFaults = 2
    MaxTroubles = 2
    Free = free
    Mixes <- MCMixes

    
PROPERTIES
    CommandsEnd
CHECK_DEADLOCK FALSE
