-------------------------- MODULE RadioConnection --------------------------
(***************************************************************************)
(* The life of one radio connection (crazyradio_connection.rs): the task   *)
(* CrazyradioConnection::new spawns, the caller of open() that waits for   *)
(* it, the connection object, and the callers of close() and wait_close()  *)
(* that share the object.                                                  *)
(*                                                                         *)
(* What travels on the link is left open here: a radio transaction ends    *)
(* acknowledged or not, or fails.  RadioLink adds the packets.             *)
(***************************************************************************)
EXTENDS Naturals

CONSTANTS
    Callers,      \* the tasks that share the connection object
    Timeout,      \* the timeout of the URI, in ticks of the model's clock
    UseSafelink,  \* the SAFELINK flag of the URI
    MaxTries      \* how often enable_safelink tries (10 in the code)

ASSUME ConnectionAssumption ==
    /\ Timeout \in Nat
    /\ UseSafelink \in BOOLEAN
    /\ MaxTries \in Nat \ {0}

VARIABLES
    task,         \* where the spawned task is (TaskPlaces)
    tries,        \* enable packets sent without the echo coming back
    safelink,     \* the local of run(): safelink was negotiated
    quiet,        \* last_pk_time.elapsed(), saturating at Timeout
    radioFailed,  \* a radio transaction has returned an error
    initialized,  \* the oneshot channel between the task and open()
    opener,       \* the caller of open()
    handle,       \* the CrazyradioConnection object
    status,       \* the shared ConnectionStatus, with its reason
    disconnect,   \* the shared flag that asks the task to stop
    call          \* what each caller is doing with the object

runVars == <<tries, safelink, quiet, radioFailed>>
taskVars == <<task, runVars, initialized, status>>
userVars == <<opener, handle, disconnect, call>>
vars == <<taskVars, userVars>>

-----------------------------------------------------------------------------
(* States of the parts *)

InLoop == {"top", "air", "check"}

TaskPlaces ==
    InLoop \cup {"enable",    \* enable_safelink: an enable packet is on the air
                 "connect",   \* about to set the status to Connected
                 "notify",    \* about to complete the oneshot
                 "failed",    \* run() returned Err, no reason stored yet
                 "returned",  \* the reason is stored, the channel still open
                 "releasing", \* disconnect channel dropped, the rest still held
                 "stopped"}   \* everything dropped

Disconnected == {"closed", "timeout", "error"}

InProgress == {"closing", "waiting", "woken"}

CallStates == InProgress \cup {"idle", "closed", "reason", "still"}

\* The task's Sender of the disconnect channel is gone: recv_async() returns.
\* Two faulty forms: the Sender given to run(), so that it goes before the
\* reason of an error is stored; and a clone of it kept with the object.
ChannelGoneInRun == task \in {"failed", "returned", "releasing", "stopped"}
ChannelGoneNever == FALSE
ChannelGone == task \in {"releasing", "stopped"}

\* Someone still holds the Receiver of the downlink channel: open() before it
\* builds the object, then the object until its fields are dropped.
DownlinkOpen == opener = "waiting" \/ handle \in {"live", "dropping"}

-----------------------------------------------------------------------------
(* new() has made the channels and spawned the task *)

Init ==
    /\ task = IF UseSafelink THEN "enable" ELSE "connect"
    /\ tries = 0
    /\ safelink = FALSE
    /\ quiet = 0
    /\ radioFailed = FALSE
    /\ initialized = "empty"
    /\ opener = "waiting"
    /\ handle = "none"
    /\ status = "Connecting"
    /\ disconnect = FALSE
    /\ call = [c \in Callers |-> "idle"]

-----------------------------------------------------------------------------
(* The task: run(), then the rest of the spawned block *)

\* enable_safelink: the enable packet came back as the acknowledgement.
EnableEchoed ==
    /\ task = "enable"
    /\ task' = "connect"
    /\ safelink' = TRUE
    /\ UNCHANGED <<tries, quiet, radioFailed, initialized, status, userVars>>

\* It did not: try again, or give up and run the link without safelink.
EnableMissed ==
    /\ task = "enable"
    /\ tries' = tries + 1
    /\ task' = IF tries' < MaxTries THEN "enable" ELSE "connect"
    /\ UNCHANGED <<safelink, quiet, radioFailed, initialized, status,
                   userVars>>

\* The radio fails during the handshake: run() returns Err and drops the
\* Sender of the oneshot it was given.
EnableFailed ==
    /\ task = "enable"
    /\ task' = "failed"
    /\ radioFailed' = TRUE
    /\ initialized' = "dropped"
    /\ UNCHANGED <<tries, safelink, quiet, status, userVars>>

AnnounceConnected ==
    /\ task = "connect"
    /\ task' = "notify"
    /\ status' = "Connected"
    /\ UNCHANGED <<runVars, initialized, userVars>>

\* connection_initialized.send(()).unwrap(): the task panics when open() is no
\* longer there to receive, and the runtime drops everything it holds.
NotifyOpener ==
    /\ task = "notify"
    /\ IF opener = "cancelled"
         THEN task' = "stopped" /\ initialized' = "dropped"
         ELSE task' = "top" /\ initialized' = "sent"
    /\ UNCHANGED <<runVars, status, userVars>>

\* The loop condition holds: pick a packet and hand it to the radio.
\* Faulty form: it is not looked at.
StartRegardless ==
    /\ task = "top"
    /\ task' = "air"
    /\ UNCHANGED <<runVars, initialized, status, userVars>>
StartTransaction ==
    /\ task = "top"
    /\ quiet < Timeout
    /\ task' = "air"
    /\ UNCHANGED <<runVars, initialized, status, userVars>>

\* The loop condition fails.  Faulty form: it is not looked at.
TimeOutEarly ==
    /\ task = "top"
    /\ task' = "returned"
    /\ status' = "timeout"
    /\ UNCHANGED <<runVars, initialized, userVars>>
TimeOut ==
    /\ task = "top"
    /\ quiet >= Timeout
    /\ task' = "returned"
    /\ status' = "timeout"
    /\ UNCHANGED <<runVars, initialized, userVars>>

\* The packet was acknowledged; deliver says that the payload goes to the
\* downlink channel, whose send() fails when no Receiver is left.
TransactionAcked(deliver) ==
    /\ task = "air"
    /\ quiet' = 0
    /\ task' = IF deliver /\ ~DownlinkOpen THEN "failed" ELSE "check"
    /\ UNCHANGED <<tries, safelink, radioFailed, initialized, status,
                   userVars>>

\* No acknowledgement.
TransactionLost ==
    /\ task = "air"
    /\ task' = "check"
    /\ UNCHANGED <<runVars, initialized, status, userVars>>

\* send_packet_async returned an error: run() returns it.
TransactionFailed ==
    /\ task = "air"
    /\ task' = "failed"
    /\ radioFailed' = TRUE
    /\ UNCHANGED <<tries, safelink, quiet, initialized, status, userVars>>

\* The end of an iteration.  Faulty forms: the reason is stored but the loop
\* goes on; the flag is not looked at.
CheckWithoutReturn ==
    /\ task = "check"
    /\ task' = "top"
    /\ status' = IF disconnect THEN "closed" ELSE status
    /\ UNCHANGED <<runVars, initialized, userVars>>
CheckNothing ==
    /\ task = "check"
    /\ task' = "top"
    /\ UNCHANGED <<runVars, initialized, status, userVars>>
CheckDisconnect ==
    /\ task = "check"
    /\ IF disconnect
         THEN task' = "returned" /\ status' = "closed"
         ELSE task' = "top" /\ UNCHANGED status
    /\ UNCHANGED <<runVars, initialized, userVars>>

\* The spawned block stores the error run() returned.
ReportError ==
    /\ task = "failed"
    /\ task' = "returned"
    /\ status' = "error"
    /\ UNCHANGED <<runVars, initialized, userVars>>

DropChannel ==
    /\ task = "returned"
    /\ task' = "releasing"
    /\ UNCHANGED <<runVars, initialized, status, userVars>>

\* The block ends: the channel ends it held and its share of the radio go.
DropTask ==
    /\ task = "releasing"
    /\ task' = "stopped"
    /\ UNCHANGED <<runVars, initialized, status, userVars>>

\* The steps of the task that do not depend on what the packets are.
TaskControl ==
    \/ EnableFailed \/ AnnounceConnected \/ NotifyOpener \/ TimeOut
    \/ TransactionFailed \/ CheckDisconnect \/ ReportError
    \/ DropChannel \/ DropTask

SomeAck == \E deliver \in BOOLEAN : TransactionAcked(deliver)

TaskStep ==
    \/ TaskControl
    \/ EnableEchoed \/ EnableMissed
    \/ StartTransaction
    \/ SomeAck
    \/ TransactionLost

\* Time passes while the loop runs.
Tick ==
    /\ task \in InLoop
    /\ quiet < Timeout
    /\ quiet' = quiet + 1
    /\ UNCHANGED <<task, tries, safelink, radioFailed, initialized, status,
                   userVars>>

-----------------------------------------------------------------------------
(* open() *)

OpenReturns ==
    /\ opener = "waiting"
    /\ initialized = "sent"
    /\ opener' = "opened"
    /\ handle' = "live"
    /\ UNCHANGED <<taskVars, disconnect, call>>

\* connection_initialized.await.unwrap() on a dropped Sender.
OpenPanics ==
    /\ opener = "waiting"
    /\ initialized = "dropped"
    /\ opener' = "panicked"
    /\ UNCHANGED <<taskVars, handle, disconnect, call>>

\* The future of open() is dropped.  There is no object yet: no flag is set.
CancelOpen ==
    /\ opener = "waiting"
    /\ opener' = "cancelled"
    /\ UNCHANGED <<taskVars, handle, disconnect, call>>

-----------------------------------------------------------------------------
(* The connection object *)

CallClose(c) ==
    /\ handle = "live"
    /\ call[c] = "idle"
    /\ call' = [call EXCEPT ![c] = "closing"]
    /\ disconnect' = TRUE
    /\ UNCHANGED <<taskVars, opener, handle>>

\* Faulty form: close() does not wait.
CloseReturnsAtOnce(c) ==
    /\ call[c] = "closing"
    /\ call' = [call EXCEPT ![c] = "closed"]
    /\ UNCHANGED <<taskVars, opener, handle, disconnect>>
CloseReturns(c) ==
    /\ call[c] = "closing"
    /\ ChannelGone
    /\ call' = [call EXCEPT ![c] = "closed"]
    /\ UNCHANGED <<taskVars, opener, handle, disconnect>>

CallWaitClose(c) ==
    /\ handle = "live"
    /\ call[c] = "idle"
    /\ call' = [call EXCEPT ![c] = "waiting"]
    /\ UNCHANGED <<taskVars, opener, handle, disconnect>>

\* wait_disconnect() ends here; wait_close() goes on to read the status.
WaitWakes(c) ==
    /\ call[c] = "waiting"
    /\ ChannelGone
    /\ call' = [call EXCEPT ![c] = "woken"]
    /\ UNCHANGED <<taskVars, opener, handle, disconnect>>

\* wait_close() answers with the reason, or with "Still connected!".
WaitReturns(c) ==
    /\ call[c] = "woken"
    /\ call' = [call EXCEPT ![c] = IF status \in Disconnected
                                     THEN "reason" ELSE "still"]
    /\ UNCHANGED <<taskVars, opener, handle, disconnect>>

\* A caller drops the future of its call; what close() stored stays stored.
CancelCall(c) ==
    /\ call[c] \in InProgress
    /\ call' = [call EXCEPT ![c] = "idle"]
    /\ UNCHANGED <<taskVars, opener, handle, disconnect>>

\* Drop for CrazyradioConnection, which no pending call can overlap ...
BeginDrop ==
    /\ handle = "live"
    /\ \A c \in Callers : call[c] \notin InProgress
    /\ handle' = "dropping"
    /\ disconnect' = TRUE
    /\ UNCHANGED <<taskVars, opener, call>>

\* ... and then its fields, the Receiver of the downlink among them.
FinishDrop ==
    /\ handle = "dropping"
    /\ handle' = "dropped"
    /\ UNCHANGED <<taskVars, opener, disconnect, call>>

CallReturns(c) == CloseReturns(c) \/ WaitWakes(c) \/ WaitReturns(c)

UserStep ==
    \/ OpenReturns \/ OpenPanics \/ CancelOpen
    \/ BeginDrop \/ FinishDrop
    \/ \E c \in Callers : \/ CallClose(c) \/ CallWaitClose(c)
                          \/ CallReturns(c) \/ CancelCall(c)

Next == TaskStep \/ Tick \/ UserStep

Spec == Init /\ [][Next]_vars

(***************************************************************************)
(* The runtime polls the task and the callers it has woken, a transaction  *)
(* with the dongle ends (its USB transfers have timeouts) and time passes. *)
(* What a transaction brings, and every decision of the user, is free.     *)
(***************************************************************************)
Fairness ==
    /\ WF_vars(TaskStep)
    /\ WF_vars(Tick)
    /\ \A c \in Callers : WF_vars(CallReturns(c))

FairSpec == Spec /\ Fairness

-----------------------------------------------------------------------------
(* Properties *)

\* Every variable stays in the set of values the code gives it.
TypeOK ==
    /\ task \in TaskPlaces
    /\ tries \in 0..MaxTries
    /\ safelink \in BOOLEAN
    /\ quiet \in 0..Timeout
    /\ radioFailed \in BOOLEAN
    /\ initialized \in {"empty", "sent", "dropped"}
    /\ opener \in {"waiting", "opened", "panicked", "cancelled"}
    /\ handle \in {"none", "live", "dropping", "dropped"}
    /\ status \in {"Connecting", "Connected"} \cup Disconnected
    /\ disconnect \in BOOLEAN
    /\ call \in [Callers -> CallStates]

\* wait_close() never answers "Still connected!": however the task ends, its
\* reason is stored before the channel that wakes the callers goes away.
WaitCloseHasReason == \A c \in Callers : call[c] # "still"

\* When close() has returned, the loop is over for good: no packet of this
\* connection is on the air and none will be.
CloseMeansStopped ==
    \A c \in Callers : call[c] = "closed" => task \in {"releasing", "stopped"}

\* The reason is the true one: "closed" only if someone asked, "timeout" only
\* after Timeout of silence, "error" only if the radio failed or nobody was
\* left to receive.
ReasonJustified ==
    /\ status = "closed" => disconnect
    /\ status = "timeout" => quiet = Timeout
    /\ status = "error" => radioFailed \/ ~DownlinkOpen

\* open() never hands out a connection that still says Connecting.
OpenHandsOverConnected == handle # "none" => status # "Connecting"

\* The connection keeps the promises of connection.rs: one final reason, and
\* nobody answered before it is there.
Lifecycle == INSTANCE LinkLifecycle
    WITH Reasons <- Disconnected,
         answered <- {c \in Callers : call[c] \in {"closed", "reason", "still"}}
LifecycleKept == Lifecycle!LifeSpec

\* Once a caller has asked to close, or the object is dropped, the task ends,
\* whatever the radio brings.
CloseTerminates == disconnect ~> (task = "stopped")

\* No caller is left waiting on a task that has ended, nor in close().
CallsReturn ==
    \A c \in Callers :
        /\ call[c] = "closing" ~> call[c] # "closing"
        /\ (call[c] = "waiting" /\ task = "stopped") ~> call[c] # "waiting"

\* If from some point on nothing is acknowledged, the connection ends.
SilenceTerminates ==
    <>[][~SomeAck]_vars => <>(task = "stopped")

(* Statements of the comments and of the documentation that the code breaks *)

\* connection.rs:10: "The link is connected and active (Safelink enabled and
\* no timeout)".
ConnectedMeansSafelink == status = "Connected" => safelink

\* crazyradio_connection.rs:205: open() waits "for, either, the connection
\* being established or failed initialization".
OpenSurvivesFailure == opener # "panicked"
=============================================================================
