CONSTANTS
    Tcs = {t1, t2, t3}
    None = None
    HostCalls = {"RtInit", "ECall", "GlobalExit"}
    MaxDepth = 1
    ExitFns = {}
    Iters = 1
    Threads = {n1, n2}
SPECIFICATION Spec
SYMMETRY Symmetry
CHECK_DEADLOCK FALSE
INVARIANTS TasksMatchThreads CreationIsExact
PROPERTY EndIsAnnounced
