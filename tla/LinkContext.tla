----------------------------- MODULE LinkContext -----------------------------
(***************************************************************************)
(* The link context (context.rs): tasks that share one LinkContext open    *)
(* links, scan, send platform commands and take radios, all through the    *)
(* table of weak references that get_radio() keeps under a mutex.          *)
(*                                                                         *)
(* The dongles are external: one that is held cannot be opened a second    *)
(* time, and it is released some time after its last share has gone.  They *)
(* are plugged in and out.  What becomes of an open link is in             *)
(* RadioConnection and UsbConnection; here it holds its share of the radio *)
(* until it ends.                                                          *)
(***************************************************************************)
EXTENDS LinkUri

CONSTANTS
    Callers,   \* the tasks that use the context
    Uris,      \* the URIs they use
    MaxUris,   \* bound: URIs in a scan_selected() list
    Calls,     \* the functions they call
    NoCaller, NoRadio

Radios == ({u.host : u \in Uris} \cup {0}) \cap Nat

ASSUME ContextAssumption ==
    /\ NoCaller \notin Callers
    /\ NoRadio \notin Radios
    /\ MaxUris \in Nat
    /\ \A u \in Uris : u.host \in Nat \cup {NotANumber, NoHost}
    /\ Calls \subseteq {"get_radio", "open_link", "scan", "scan_selected",
                        "platform_command"}

VARIABLES
    call,    \* the function each caller is in
    at,      \* where it is in it (Places)
    todo,    \* the URIs it has still to handle
    want,    \* the argument of its get_radio()
    uses,    \* the radio it, or its link, has a share of
    result,  \* what its last call returned
    lock,    \* the owner of the mutex around the table
    opened,  \* the radios whose entry was filled once
    device,  \* the dongles
    lost     \* the dongle of this handle was pulled out

callVars == <<call, at, todo, want, uses, result>>
tableVars == <<lock, opened, device, lost>>
vars == <<callVars, tableVars>>

Places ==
    {"idle",
     "parse",    \* about to look at its next URI
     "table",    \* waiting for the mutex of the table
     "opening",  \* opening the dongle, with the mutex held
     "radio",    \* using its share of the radio
     "usb",      \* the radio part is over, the USB part follows
     "linked"}   \* returned; a link, or the caller, keeps the share

Users(r) == {c \in Callers : uses[c] = r}

\* WeakSharedCrazyradio::upgrade() of the entry.
\* Faulty form: an entry once filled is taken for a live one.
AliveOnce(r) == r \in opened
Alive(r) == r \in opened /\ Users(r) # {}

Init ==
    /\ call = [c \in Callers |-> "none"]
    /\ at = [c \in Callers |-> "idle"]
    /\ todo = [c \in Callers |-> << >>]
    /\ want = [c \in Callers |-> NoRadio]
    /\ uses = [c \in Callers |-> NoRadio]
    /\ result = [c \in Callers |-> "none"]
    /\ lock = NoCaller
    /\ opened = {}
    /\ device \in [Radios -> {"free", "absent"}]
    /\ lost = [r \in Radios |-> FALSE]

-----------------------------------------------------------------------------
(* A call begins, goes on and ends *)

Wants(c, r) == want' = [want EXCEPT ![c] = r]

Goes(c, place) ==
    /\ at' = [at EXCEPT ![c] = place]
    /\ UNCHANGED <<call, result>>

\* The future of the call is gone with all it held but its share.
Returns(c, r) ==
    /\ at' = [at EXCEPT ![c] = "idle"]
    /\ call' = [call EXCEPT ![c] = "none"]
    /\ todo' = [todo EXCEPT ![c] = << >>]
    /\ want' = [want EXCEPT ![c] = NoRadio]
    /\ result' = [result EXCEPT ![c] = r]

Lists == UNION {[1..n -> Uris] : n \in 1..MaxUris}

Request(c, f, uris) ==
    /\ at[c] = "idle"
    /\ f \in Calls
    /\ call' = [call EXCEPT ![c] = f]
    /\ todo' = [todo EXCEPT ![c] = uris]
    /\ result' = [result EXCEPT ![c] = "none"]
    /\ \/ /\ f = "scan" /\ uris = << >>
          /\ Wants(c, 0)
          /\ at' = [at EXCEPT ![c] = "table"]
       \/ /\ f = "get_radio" /\ uris = << >>
          /\ \E r \in Radios : Wants(c, r)
          /\ at' = [at EXCEPT ![c] = "table"]
       \/ /\ \/ f = "scan_selected"
             \/ f \in {"open_link", "platform_command"} /\ Len(uris) = 1
          /\ UNCHANGED want
          /\ at' = [at EXCEPT ![c] = "parse"]
    /\ UNCHANGED <<uses, tableVars>>

\* parse_uri() of the next URI.  open_link() takes a URI of another scheme to
\* USB, platform_command() (whose data has passed its check) renames the error,
\* scan_selected() returns it.
Parse(c) ==
    LET outcome == IF todo[c] = << >> THEN "none"
                   ELSE RadioOutcome(Head(todo[c]))
        toUsb == \/ outcome = "none"
                 \/ outcome = "InvalidUriScheme" /\ call[c] = "open_link"
    IN  /\ at[c] = "parse"
        /\ \/ /\ outcome = "ok"
              /\ Wants(c, Head(todo[c]).host)
              /\ Goes(c, "table")
              /\ UNCHANGED todo
           \/ toUsb /\ Goes(c, "usb") /\ UNCHANGED <<todo, want>>
           \/ /\ outcome # "ok" /\ ~toUsb
              /\ Returns(c, IF outcome = "InvalidUriScheme"
                               /\ call[c] = "platform_command"
                             THEN "NotSupported" ELSE outcome)
        /\ UNCHANGED <<uses, tableVars>>

-----------------------------------------------------------------------------
(* get_radio() *)

\* The entry is alive: the caller gets a share of the same handle, also of one
\* whose dongle was pulled out.
Share(c) ==
    /\ at[c] = "table" /\ lock = NoCaller
    /\ Alive(want[c])
    /\ uses' = [uses EXCEPT ![c] = want[c]]
    /\ Goes(c, "radio")
    /\ UNCHANGED <<todo, want, tableVars>>

\* It is not: the dongle is opened with the mutex held.
\* Faulty form: the mutex is let go for the time of the opening.
MissUnlocked(c) ==
    /\ at[c] = "table" /\ lock = NoCaller
    /\ ~Alive(want[c])
    /\ Goes(c, "opening")
    /\ UNCHANGED <<todo, want, uses, tableVars>>
Miss(c) ==
    /\ at[c] = "table" /\ lock = NoCaller
    /\ ~Alive(want[c])
    /\ lock' = c
    /\ Goes(c, "opening")
    /\ UNCHANGED <<todo, want, uses, opened, device, lost>>

OpenSucceeds(c) ==
    /\ at[c] = "opening"
    /\ device[want[c]] = "free"
    /\ device' = [device EXCEPT ![want[c]] = "held"]
    /\ lost' = [lost EXCEPT ![want[c]] = FALSE]
    /\ opened' = opened \cup {want[c]}
    /\ uses' = [uses EXCEPT ![c] = want[c]]
    /\ lock' = NoCaller
    /\ Goes(c, "radio")
    /\ UNCHANGED <<todo, want>>

\* scan() goes on to USB without a radio; every other call returns the error.
OpenFails(c) ==
    /\ at[c] = "opening"
    /\ device[want[c]] # "free"
    /\ lock' = NoCaller
    /\ IF call[c] = "scan"
         THEN Goes(c, "usb") /\ UNCHANGED <<todo, want>>
         ELSE Returns(c, "CrazyradioError")
    /\ UNCHANGED <<uses, opened, device, lost>>

-----------------------------------------------------------------------------
(* What the calls do with their share *)

\* Faulty form: the share is kept.
KeepsShare(c) == UNCHANGED uses
LetsGo(c) == uses' = [uses EXCEPT ![c] = NoRadio]

\* The transactions of the call succeed, or open_link()'s handshake does.
RadioDone(c) ==
    /\ at[c] = "radio"
    /\ ~lost[uses[c]]
    /\ \/ /\ call[c] \in {"open_link", "get_radio"}
          /\ Goes(c, "linked")
          /\ UNCHANGED <<uses, todo, want>>
       \/ /\ call[c] = "scan"
          /\ LetsGo(c) /\ Goes(c, "usb")
          /\ UNCHANGED <<todo, want>>
       \/ /\ call[c] = "scan_selected"
          /\ LetsGo(c) /\ Goes(c, "parse")
          /\ todo' = [todo EXCEPT ![c] = Tail(@)]
          /\ UNCHANGED want
       \/ /\ call[c] = "platform_command"
          /\ LetsGo(c) /\ Returns(c, "ok")
    /\ UNCHANGED tableVars

\* A transaction fails, as it must when the dongle is gone.  get_radio() makes
\* none: its caller keeps the share.  A failed handshake makes open_link()
\* panic.  Faulty form: the share is kept.
RadioFailsHolding(c) ==
    /\ at[c] = "radio" /\ call[c] # "get_radio"
    /\ Returns(c, "CrazyradioError")
    /\ UNCHANGED <<uses, tableVars>>
RadioFails(c) ==
    /\ at[c] = "radio"
    /\ IF call[c] = "get_radio"
         THEN Goes(c, "linked") /\ UNCHANGED <<uses, todo, want>>
         ELSE /\ LetsGo(c)
              /\ Returns(c, IF call[c] = "open_link" THEN "panic"
                                                     ELSE "CrazyradioError")
    /\ UNCHANGED tableVars

\* The USB part: open() for open_link(), otherwise a scan of the bus.
Usb(c) ==
    /\ at[c] = "usb"
    /\ IF call[c] = "open_link" /\ UsbOutcome(Head(todo[c])) # "ok"
         THEN Returns(c, UsbOutcome(Head(todo[c])))
         ELSE \E r \in {"ok", "USBSubsystemError"} : Returns(c, r)
    /\ UNCHANGED <<uses, tableVars>>

\* The link ends, or the holder of a radio drops it.
EndLink(c) ==
    /\ at[c] = "linked"
    /\ LetsGo(c)
    /\ Returns(c, "ok")
    /\ UNCHANGED tableVars

\* The future of a call is dropped.  The task of an open_link() runs on with
\* its share; a dongle that was being opened may be opened all the same, to
\* be released at once.
Cancel(c) ==
    /\ at[c] \in {"parse", "table", "opening", "radio", "usb"}
    /\ IF at[c] = "radio" /\ call[c] = "open_link"
         THEN Goes(c, "linked") /\ UNCHANGED <<uses, todo, want>>
         ELSE LetsGo(c) /\ Returns(c, "cancelled")
    /\ lock' = IF lock = c THEN NoCaller ELSE lock
    /\ \/ UNCHANGED device
       \/ /\ at[c] = "opening" /\ device[want[c]] = "free"
          /\ device' = [device EXCEPT ![want[c]] = "held"]
    /\ UNCHANGED <<opened, lost>>

-----------------------------------------------------------------------------
(* The dongles (external) *)

Plug(r) ==
    /\ device[r] = "absent"
    /\ device' = [device EXCEPT ![r] = "free"]
    /\ UNCHANGED <<callVars, lock, opened, lost>>

Unplug(r) ==
    /\ device[r] # "absent"
    /\ device' = [device EXCEPT ![r] = "absent"]
    /\ lost' = [lost EXCEPT ![r] = Alive(r)]
    /\ UNCHANGED <<callVars, lock, opened>>

\* The handle is closed once its last share has gone.
Release(r) ==
    /\ device[r] = "held" /\ Users(r) = {}
    /\ device' = [device EXCEPT ![r] = "free"]
    /\ UNCHANGED <<callVars, lock, opened, lost>>

CallStep(c) ==
    \/ Parse(c)
    \/ Share(c) \/ Miss(c) \/ OpenSucceeds(c) \/ OpenFails(c)
    \/ RadioDone(c) \/ RadioFails(c) \/ Usb(c)

Next ==
    \/ \E c \in Callers : \/ CallStep(c) \/ EndLink(c) \/ Cancel(c)
                          \/ \E f \in Calls, uris \in Lists \cup {<< >>} :
                                Request(c, f, uris)
    \/ \E r \in Radios : Plug(r) \/ Unplug(r) \/ Release(r)

Spec == Init /\ [][Next]_vars

\* A link whose dongle is gone ends: its task gets an error.
LostLinkEnds(c) ==
    call[c] = "open_link" /\ uses[c] # NoRadio /\ lost[uses[c]] /\ EndLink(c)

(***************************************************************************)
(* Calls are scheduled, transactions end, the link of a lost dongle fails  *)
(* and a handle without users is closed.  Nothing makes a user call again, *)
(* end a link that works, or plug a dongle in.                             *)
(***************************************************************************)
Fairness ==
    /\ \A c \in Callers : WF_vars(CallStep(c)) /\ WF_vars(LostLinkEnds(c))
    /\ \A r \in Radios : WF_vars(Release(r))

FairSpec == Spec /\ Fairness

-----------------------------------------------------------------------------
(* Properties *)

\* Every variable stays in the set of values the code gives it.
TypeOK ==
    /\ call \in [Callers -> Calls \cup {"none"}]
    /\ at \in [Callers -> Places]
    /\ todo \in [Callers -> Seq(Uris)]
    /\ want \in [Callers -> Radios \cup {NoRadio}]
    /\ uses \in [Callers -> Radios \cup {NoRadio}]
    /\ result \in [Callers -> {"none", "ok", "panic", "cancelled", "InvalidUri",
                               "InvalidUriScheme", "NotSupported",
                               "CrazyradioError", "USBSubsystemError"}]
    /\ lock \in Callers \cup {NoCaller}
    /\ opened \subseteq Radios
    /\ device \in [Radios -> {"free", "held", "absent"}]
    /\ lost \in [Radios -> BOOLEAN]

\* A dongle is opened only while nobody has a share of it: two callers that
\* want the same radio never open it twice, so that neither is refused
\* because of the other.
OpenedOnce ==
    \A c \in Callers : at[c] = "opening" =>
        /\ Users(want[c]) = {}
        /\ \A d \in Callers : at[d] = "opening" => d = c

\* A share that works is one of a dongle that is held: nobody goes on with a
\* radio that has been released under it.
SharesAreOfHeld ==
    \A c \in Callers :
        uses[c] # NoRadio => device[uses[c]] = "held" \/ lost[uses[c]]

\* A radio does not stay open when no call and no link uses it any more,
\* however the last of them ended.
Busy(r) == \E c \in Users(r) : at[c] # "idle"
IdleRadioIsFreed ==
    \A r \in Radios : device[r] = "held" ~> (device[r] # "held" \/ Busy(r))

\* A handle whose dongle was pulled out goes away, so that the dongle can be
\* used again, once calls stop sharing it.  (While they overlap for ever they
\* keep it alive for ever, as does a user who took it by get_radio().)
Lost(r) ==
    /\ lost[r] /\ Users(r) # {}
    /\ \A c \in Users(r) : call[c] # "get_radio"
LostRadioGoes ==
    <>[][\A c \in Callers : ~Share(c)]_vars
        => \A r \in Radios : []<>~Lost(r)

(* A statement of the documentation that the code breaks *)

\* context.rs:70: scan_selected() will "Scan for a given list of URIs", and
\* it asks the USB bus for them too.
UsbUrisAreScanned ==
    [][\A c \in Callers :
          call[c] = "scan_selected" /\ todo[c] # << >>
              /\ UsbOutcome(Head(todo[c])) = "ok"
              => result'[c] # "InvalidUriScheme"]_vars
=============================================================================
