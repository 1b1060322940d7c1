CONSTANTS
    Tcs = {t1, t2, t3}
    None = None
    Controls = {"NonRecursive"}
    MaxRef = 1
SPECIFICATION CvFairSpec
INVARIANTS NoLostWakeup NotifiedIsWoken NoStaleWaiter
PROPERTY NotifiedReturns
