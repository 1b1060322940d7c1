CONSTANTS
    Tcs = {t1, t2, t3}
    Words = {"state", "writer_notify"}
    MaxReaders = 2
SPECIFICATION FairSpec
INVARIANTS ReadersXorWriter NoReaderWaitsForReaders SleepersAreMarked
PROPERTY UnlockedIsTaken
