\* Three callers compete for the one message; up to three packets are sent,
\* and any of them may stay unwritten.
CONSTANTS
    Callers = {c1, c2, c3}
    MaxUp = 3
SPECIFICATION FairSpec
INVARIANTS
    CloseMeansIdle
    ClosedIsWanted
PROPERTIES
    LifecycleKept
    WrittenInOrder
    ThreadsEndTogether
    AbandonedEnds
    CallsReturn
\* The system stops when the task has ended and the object is dropped.
CHECK_DEADLOCK FALSE
