CONSTANTS
    Tcs = {t1, t2, t3}
    MaxVal = 2
SPECIFICATION FairSpec
INVARIANTS NoLostEvent
PROPERTIES ImplementsHostEvent PendingWaitReturns
