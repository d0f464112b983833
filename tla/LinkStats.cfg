\* Three packets, so that a window can be cut before, between and after them.
CONSTANTS
    Second = 2
    Payloads = {"empty", "data"}
    Retries = {2}
    Rssis <- SomeRssis
    NoRssi = NoRssi
    Safelink = TRUE
    AckFilter = TRUE
    MaxSent = 3
    MaxElapsed = 3
SPECIFICATION Spec
INVARIANTS SnapshotIsSummary DataCountedOnce WindowEndsInTime
\* The task leaves the loop, and the clock stops at its bound.
CHECK_DEADLOCK FALSE
