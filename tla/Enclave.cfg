CONSTANTS
    Tcs = {t1, t2}
    None = None
    HostCalls = {"RtInit", "ECall", "GlobalInit", "GlobalExit", "RtUninit"}
    MaxDepth = 2
    ExitFns = {f1, f2}
    Iters = 2
SPECIFICATION EnclaveSpec
SYMMETRY Symmetry
CHECK_DEADLOCK FALSE
INVARIANTS LockHasHolder ExitFunctionsRun DestroyedOnce ConstructedFirst
