\* open() while the handshake fails.
CONSTANTS
    Callers = {c1}
    Timeout = 1
    UseSafelink = TRUE
    MaxTries = 2
SPECIFICATION Spec
INVARIANT OpenSurvivesFailure
CHECK_DEADLOCK FALSE
