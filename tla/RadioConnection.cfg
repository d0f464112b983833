\* Three callers share the object; the clock counts two ticks to the timeout.
CONSTANTS
    Callers = {c1, c2, c3}
    Timeout = 2
    UseSafelink = TRUE
    MaxTries = 2
SPECIFICATION FairSpec
INVARIANTS
    WaitCloseHasReason
    CloseMeansStopped
    ReasonJustified
PROPERTIES
    LifecycleKept
    CloseTerminates
    CallsReturn
    SilenceTerminates
\* The system stops when the task has ended and the object is dropped.
CHECK_DEADLOCK FALSE
