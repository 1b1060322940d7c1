CONSTANTS
    Tcs = {t1, t2, t3}
    f = f
    g = g
    Futexes = {f, g}
    Layouts <- SharedOrNot
    Values = {0, 1}
    Expected = {0}
    b1 = b1
    b2 = b2
    Bitsets = {{b1}, {b2}}
    Counts = {1, 2}
    Moves = {1}
    None = None
    MaxWaiters = 1
    MaxEvents = 1
SPECIFICATION Spec
SYMMETRY Symmetry
INVARIANTS NoLostWake NoLockCycle
PROPERTY ImplementsFutex
