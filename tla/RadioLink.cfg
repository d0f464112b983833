\* Two packets each way, with and without safelink, and platform commands of
\* every kind but one in between.
CONSTANTS
    Callers = {}
    Timeout = 1
    UseSafelink = TRUE
    MaxTries = 2
    AckFilter = TRUE
    MaxUp = 2
    MaxDown = 2
    MaxHeard = 3
    Commands <- HarmlessCommands
    IdleKinds = {"null", "empty"}
SPECIFICATION PlatformFairSpec
INVARIANTS
    LetGoIsDelivered
    RawMissesNothing
PROPERTIES
    UplinkReliable
    DownlinkReliable
    DeliveredOrEnded
\* The bounds end the run.
CHECK_DEADLOCK FALSE
