\* Three threads that call what they like.
CONSTANTS
    Threads = {t1, t2, t3}
    NoThread = NoThread
SPECIFICATION FairSpec
INVARIANTS
    CloseIsExclusive
    ClosedForAll
PROPERTY CallsReturn
