\* A connection and the one that follows it.
CONSTANTS
    First = cf1
    Second = cf2
    Third = cf3
    Crazyflies <- BusCrazyflies
    Order <- BusOrder
    Sessions = {s1, s2}
    NoSession = NoSession
SPECIFICATION Spec
INVARIANT ConnectedIsActive
