CONSTANTS
    Tcs = {t1, t2, t3}
    Words = {"mutex", "condvar"}
SPECIFICATION CvFairSpec
INVARIANTS SleepersAreCovered
PROPERTIES ImplementsLock NotifiedLeaves FreeIsTaken
