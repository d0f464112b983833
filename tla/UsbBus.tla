------------------------------- MODULE UsbBus -------------------------------
(***************************************************************************)
(* The Crazyflies on the USB bus and the connections that are opened to    *)
(* them at the same time: the search of CrazyflieUSBConnection::open() and *)
(* what the task of a connection does to the device.  The inside of the    *)
(* task is in UsbConnection; here its threads run and end.                 *)
(*                                                                         *)
(* The devices and libusb are external: an interface can be claimed by one *)
(* handle at a time, dropping the handle releases it, and a control write  *)
(* needs no claim.                                                         *)
(***************************************************************************)
EXTENDS Integers, Sequences

CONSTANTS
    Crazyflies,  \* the serial numbers users ask for
    Order,       \* the devices on the bus, in the order of DeviceList
    Sessions,    \* the connections, and the searches for one
    NoSession

ASSUME BusAssumption ==
    /\ Order \in Seq(Crazyflies)
    /\ NoSession \notin Sessions

VARIABLES
    at,      \* where a session is
    wanted,  \* the Crazyflie it is for
    seen,    \* the device of the list its search has come to
    claim,   \* the session that has claimed the interface of a Crazyflie
    mode,    \* how a Crazyflie communicates
    wayBack, \* history: what its last session did to bring it back
    alone    \* history: nothing came between this search and the devices

sessionVars == <<at, wanted, seen>>
deviceVars == <<claim, mode, wayBack>>
vars == <<sessionVars, deviceVars, alone>>

Places ==
    {"idle",
     "search",   \* about to claim the next device
     "read",     \* about to read its serial number
     "switch",   \* about to switch it to USB
     "notify",   \* switched; about to tell open()
     "run",      \* the threads run
     "joined",   \* they are joined: the handle they shared is gone
     "told",     \* the callers are told
     "refused",  \* open() has returned that there is no such device, or
                 \* that one could not be claimed
     "failed"}   \* it has ended otherwise

\* The control transfer of the way back has failed; or open() was cancelled
\* while the mode was switched, and the task panicked without trying one.
WaysBack == {"open", "failed", "untried"}

Connected(s) == at[s] \in {"notify", "run", "joined"}

Device(s) == Order[seen[s]]
AtDevice(s) == seen[s] <= Len(Order)

Init ==
    /\ at = [s \in Sessions |-> "idle"]
    /\ wanted \in [Sessions -> Crazyflies]
    /\ seen = [s \in Sessions |-> 1]
    /\ claim = [c \in Crazyflies |-> NoSession]
    /\ mode = [c \in Crazyflies |-> "radio"]
    /\ wayBack = [c \in Crazyflies |-> "open"]
    /\ alone = [s \in Sessions |-> FALSE]

Goes(s, place) == at' = [at EXCEPT ![s] = place]

\* Dropping the handle.  Faulty form: a claim outlives its handle.
KeepsClaim(s) == UNCHANGED claim
DropsClaim(s) ==
    claim' = [c \in Crazyflies |-> IF claim[c] = s THEN NoSession ELSE claim[c]]

-----------------------------------------------------------------------------
(* The search *)

Open(s, c) ==
    /\ at[s] = "idle"
    /\ Goes(s, "search")
    /\ wanted' = [wanted EXCEPT ![s] = c]
    /\ seen' = [seen EXCEPT ![s] = 1]
    /\ alone' = [alone EXCEPT ![s] = \A d \in Crazyflies : claim[d] = NoSession]
    /\ UNCHANGED deviceVars

Onward(s) == seen' = [seen EXCEPT ![s] = @ + 1]

Disturbed(ss) == alone' = [s \in Sessions |-> alone[s] /\ s \notin ss]

\* claim_interface() succeeds.
\* Faulty form: the interface is used without.
UseUnclaimed(s) ==
    /\ at[s] = "search" /\ AtDevice(s)
    /\ Goes(s, "read")
    /\ Disturbed(Sessions \ {s})
    /\ UNCHANGED <<wanted, seen, deviceVars>>
Claim(s) ==
    /\ at[s] = "search" /\ AtDevice(s)
    /\ claim[Device(s)] = NoSession
    /\ claim' = [claim EXCEPT ![Device(s)] = s]
    /\ Goes(s, "read")
    /\ Disturbed(Sessions \ {s})
    /\ UNCHANGED <<wanted, seen, mode, wayBack>>

\* It fails, and with it open(), whichever device it is: another session has
\* the interface ...
Busy(s) ==
    /\ at[s] = "search" /\ AtDevice(s)
    /\ claim[Device(s)] # NoSession
    /\ Goes(s, "refused")
    /\ UNCHANGED <<wanted, seen, deviceVars, alone>>

\* ... another program has, or the device has gone.
ClaimFails(s) ==
    /\ at[s] = "search" /\ AtDevice(s)
    /\ claim[Device(s)] = NoSession
    /\ Goes(s, "refused")
    /\ Disturbed({s})
    /\ UNCHANGED <<wanted, seen, deviceVars>>

\* The search is over, and its place in the list forgotten.
Ends(s) ==
    /\ seen' = [seen EXCEPT ![s] = 1]
    /\ alone' = [alone EXCEPT ![s] = FALSE]

\* A device that cannot be opened, or read, is skipped ...
Skip(s) ==
    /\ at[s] \in {"search", "read"} /\ AtDevice(s)
    /\ Onward(s)
    /\ DropsClaim(s)
    /\ Goes(s, "search")
    /\ Disturbed({s})
    /\ UNCHANGED <<wanted, mode, wayBack>>

\* ... except that a serial number that cannot be read ends the search.
ReadFails(s) ==
    /\ at[s] = "read"
    /\ DropsClaim(s)
    /\ Goes(s, "failed")
    /\ Ends(s)
    /\ UNCHANGED <<wanted, mode, wayBack>>

\* Faulty form: only the first device is looked at.
ReadFirst(s) ==
    /\ at[s] = "read"
    /\ IF Device(s) = wanted[s]
         THEN Goes(s, "switch") /\ Ends(s) /\ UNCHANGED claim
         ELSE Goes(s, "refused") /\ DropsClaim(s) /\ UNCHANGED <<seen, alone>>
    /\ UNCHANGED <<wanted, mode, wayBack>>
Read(s) ==
    /\ at[s] = "read"
    /\ IF Device(s) = wanted[s]
         THEN Goes(s, "switch") /\ Ends(s) /\ UNCHANGED claim
         ELSE Goes(s, "search") /\ Onward(s) /\ DropsClaim(s) /\ UNCHANGED alone
    /\ UNCHANGED <<wanted, mode, wayBack>>

\* Error::InvalidUri
NotFound(s) ==
    /\ at[s] = "search" /\ ~AtDevice(s)
    /\ Goes(s, "refused")
    /\ UNCHANGED <<wanted, seen, deviceVars, alone>>

-----------------------------------------------------------------------------
(* The task *)

\* A Crazyflie that another session has switched back needs no way back.
LeavesMode(s, why) ==
    wayBack' = [wayBack EXCEPT
                  ![wanted[s]] = IF mode[wanted[s]] = "usb" THEN why ELSE @]

SwitchToUsb(s) ==
    /\ at[s] = "switch"
    /\ mode' = [mode EXCEPT ![wanted[s]] = "usb"]
    /\ wayBack' = [wayBack EXCEPT ![wanted[s]] = "open"]
    /\ Goes(s, "notify")
    /\ UNCHANGED <<wanted, seen, claim, alone>>

SwitchFails(s) ==
    /\ at[s] = "switch"
    /\ DropsClaim(s)
    /\ Goes(s, "failed")
    /\ UNCHANGED <<wanted, seen, mode, wayBack, alone>>

Notify(s) ==
    /\ at[s] = "notify"
    /\ Goes(s, "run")
    /\ UNCHANGED <<wanted, seen, deviceVars, alone>>

\* open() has been cancelled: send().unwrap() panics, the handles go, and no
\* way back is tried.
NotifyFails(s) ==
    /\ at[s] = "notify"
    /\ DropsClaim(s)
    /\ LeavesMode(s, "untried")
    /\ Goes(s, "failed")
    /\ UNCHANGED <<wanted, seen, mode, alone>>

\* The threads have ended, and with them the last shares of the handle.
JoinThreads(s) ==
    /\ at[s] = "run"
    /\ DropsClaim(s)
    /\ Goes(s, "joined")
    /\ UNCHANGED <<wanted, seen, mode, wayBack, alone>>

Report(s) ==
    /\ at[s] = "joined"
    /\ Goes(s, "told")
    /\ UNCHANGED <<wanted, seen, deviceVars, alone>>

\* Through the second handle, which has claimed nothing.
\* Faulty form: it is left to the next connection.
EndWithoutSwitch(s) ==
    /\ at[s] = "told"
    /\ Goes(s, "idle")
    /\ UNCHANGED <<wanted, seen, deviceVars, alone>>
SwitchBack(s) ==
    /\ at[s] = "told"
    /\ mode' = [mode EXCEPT ![wanted[s]] = "radio"]
    /\ wayBack' = [wayBack EXCEPT ![wanted[s]] = "open"]
    /\ Goes(s, "idle")
    /\ UNCHANGED <<wanted, seen, claim, alone>>

SwitchBackFails(s) ==
    /\ at[s] = "told"
    /\ LeavesMode(s, "failed")
    /\ Goes(s, "idle")
    /\ UNCHANGED <<wanted, seen, claim, mode, alone>>

\* The user tries again.
TryAgain(s) ==
    /\ at[s] \in {"refused", "failed"}
    /\ Goes(s, "idle")
    /\ Ends(s)
    /\ UNCHANGED <<wanted, deviceVars>>

SearchStep(s) ==
    \/ Claim(s) \/ Busy(s) \/ ClaimFails(s)
    \/ Skip(s) \/ ReadFails(s) \/ Read(s) \/ NotFound(s)

BusTaskStep(s) ==
    \/ SwitchToUsb(s) \/ SwitchFails(s)
    \/ Notify(s) \/ NotifyFails(s)
    \/ JoinThreads(s) \/ Report(s)
    \/ SwitchBack(s) \/ SwitchBackFails(s)

Next ==
    \E s \in Sessions : \/ \E c \in Crazyflies : Open(s, c)
                        \/ SearchStep(s) \/ BusTaskStep(s) \/ TryAgain(s)

Spec == Init /\ [][Next]_vars

-----------------------------------------------------------------------------
(* Properties *)

\* Every variable stays in the set of values the code gives it; a search stays
\* within its list.
TypeOK ==
    /\ at \in [Sessions -> Places]
    /\ wanted \in [Sessions -> Crazyflies]
    /\ seen \in [Sessions -> 1..Len(Order) + 1]
    /\ claim \in [Crazyflies -> Sessions \cup {NoSession}]
    /\ mode \in [Crazyflies -> {"radio", "usb"}]
    /\ wayBack \in [Crazyflies -> WaysBack]
    /\ alone \in [Sessions -> BOOLEAN]

\* Two connections never read and write the same Crazyflie, although their
\* searches claim and release each other's devices on the way.
Talks(s) == at[s] \in {"switch", "notify", "run"}
OneTalker ==
    \A s, t \in Sessions :
        Talks(s) /\ Talks(t) /\ wanted[s] = wanted[t] => s = t

\* No claim is left behind by a search that went on, failed or found nothing:
\* it would keep everybody from every Crazyflie behind that device.
ClaimsAreUsed ==
    \A c \in Crazyflies : claim[c] # NoSession =>
        \/ at[claim[c]] = "read" /\ Device(claim[c]) = c
        \/ Talks(claim[c]) /\ wanted[claim[c]] = c

\* A Crazyflie in USB mode has a session that will switch it back, also when
\* sessions overlap.  Two cases are excepted, in which the code leaves it
\* there until the next session: the transfer of the way back failed, or
\* open() was cancelled before the task could tell it and none was tried
\* (crazyflie_usb_connection.rs:121).
LeftInRadioMode ==
    \A c \in Crazyflies : mode[c] = "usb" =>
        \/ wayBack[c] \in {"failed", "untried"}
        \/ \E s \in Sessions :
              wanted[s] = c /\ at[s] \in {"notify", "run", "joined", "told"}

\* A search that nothing disturbed finds a Crazyflie that is on the bus,
\* wherever it is in the list.
SearchFinds ==
    \A s \in Sessions :
        at[s] = "refused" /\ alone[s]
            => \A i \in DOMAIN Order : Order[i] # wanted[s]

(* A statement of the documentation that the code breaks *)

\* connection.rs:10: of Connected, "The link is connected and active".
ConnectedIsActive ==
    \A s \in Sessions : Connected(s) => mode[wanted[s]] = "usb"
=============================================================================
