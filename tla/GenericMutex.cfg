CONSTANTS
    Tcs = {t1, t2, t3}
    None = None
    Controls = {"NonRecursive", "Recursive"}
    MaxRef = 2
SPECIFICATION FairSpec
INVARIANTS NoLostWakeup QueueIsBlocked EventsBounded
PROPERTIES ImplementsLock EveryLockReturns
