\* Three sessions that open, run and close on the same bus.
CONSTANTS
    First = cf1
    Second = cf2
    Third = cf3
    Crazyflies <- BusCrazyflies
    Order <- BusOrder
    Sessions = {s1, s2, s3}
    NoSession = NoSession
SPECIFICATION Spec
SYMMETRY SessionsAlike
INVARIANTS OneTalker ClaimsAreUsed LeftInRadioMode SearchFinds
