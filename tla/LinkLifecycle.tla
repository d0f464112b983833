--------------------------- MODULE LinkLifecycle ---------------------------
(***************************************************************************)
(* What connection.rs promises of any connection, radio or USB: its status *)
(* goes from Connecting to Connected and ends in one reason that never     *)
(* changes again, and a caller that waits for the end is answered only     *)
(* when that reason is there to read.                                      *)
(***************************************************************************)
CONSTANTS
    Callers,  \* the tasks that share the connection
    Reasons   \* the reasons of a disconnection

VARIABLES
    status,   \* "Connecting", "Connected" or a reason
    answered  \* the callers whose close() or wait_close() has returned

lifeVars == <<status, answered>>

LifeInit == status = "Connecting" /\ answered = {}

Connect ==
    /\ status = "Connecting"
    /\ status' = "Connected"
    /\ UNCHANGED answered

Disconnect ==
    /\ status \notin Reasons
    /\ status' \in Reasons
    /\ UNCHANGED answered

Answer ==
    /\ status \in Reasons
    /\ \E c \in Callers : answered' = answered \cup {c}
    /\ UNCHANGED status

LifeNext == Connect \/ Disconnect \/ Answer

LifeSpec == LifeInit /\ [][LifeNext]_lifeVars
=============================================================================
