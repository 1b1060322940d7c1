CONSTANTS
    Tcs = {t1, t2, t3}
    None = None
    MaxReads = 2
    MaxEvents = 2
SPECIFICATION FairSpec
INVARIANTS ReadersXorWriter NoLostWakeup
PROPERTY Progress
