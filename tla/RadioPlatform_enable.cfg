\* The command that enables safelink.
CONSTANTS
    Callers = {}
    Timeout = 1
    UseSafelink = TRUE
    MaxTries = 2
    AckFilter = TRUE
    MaxUp = 2
    MaxDown = 2
    MaxHeard = 3
    Commands <- EnableCommand
    IdleKinds = {"null"}
SPECIFICATION PlatformSpec
INVARIANT CommandsDoNotInterfere
CHECK_DEADLOCK FALSE
