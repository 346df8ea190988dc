\* Two processes, waiting or holding, and up to two of them killed.
SPECIFICATION FairSpec
CONSTANTS
    p1 = p1  p2 = p2
    None = None  Orphan = Orphan
    Procs = {p1, p2}
    Stale = 2
    Timeout = 1
    MaxDepth = 2
    MaxCrashes = 2
    Overrun = FALSE
INVARIANTS TypeOK ExclusiveUntilACrash
PROPERTIES ImplementsAtomicMutex OrphanIsCleared EveryWaitEnds
