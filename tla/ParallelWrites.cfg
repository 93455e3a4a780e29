SPECIFICATION LockSpec
CONSTANTS
    p1 = p1
    p2 = p2
    Procs = {p1, p2}
    PlanTimeout = 1
    Stale <- MCStale
    StateWait = 2
    MaxCrashes = 0
    MaxFaults = 0
    MaxTroubles = 0
    Free = free
    Mixes <- ParallelSyncs
INVARIANTS
    ParallelWritesKept
CHECK_DEADLOCK FALSE
