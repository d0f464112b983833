--------------------------- MODULE UsbConnection ---------------------------
(***************************************************************************)
(* A USB connection (crazyflie_usb_connection.rs): the blocking task that  *)
(* CrazyflieUSBConnection::new spawns, its reader and its writer thread,   *)
(* the caller of open(), the connection object, and the callers of close() *)
(* and wait_close() that share it.                                         *)
(*                                                                         *)
(* The USB device is external: any transfer succeeds, fails or times out.  *)
(* So is the channel that wakes the callers, flume::bounded(0): a send     *)
(* blocks until somebody waits to receive or no Receiver is left.          *)
(***************************************************************************)
EXTENDS Naturals, Sequences

CONSTANTS
    Callers,  \* the tasks that share the connection object
    MaxUp     \* bound: packets the user sends

ASSUME UsbAssumption == MaxUp \in Nat

VARIABLES
    task,         \* where the blocking task is (TaskPlaces)
    reader,       \* where the reader thread is
    writer,       \* where the writer thread is
    readerFailed, writerFailed,  \* the thread returned Err
    mode,         \* the communication mode of the Crazyflie
    initialized,  \* the oneshot channel between the task and open()
    opener,       \* the caller of open()
    handle,       \* the CrazyflieUSBConnection object
    status,       \* the shared ConnectionStatus, with its reason
    disconnect,   \* the shared flag that asks both threads to stop
    asked,        \* history: a user closed or dropped the connection
    message,      \* a () waits in the disconnect channel
    call,         \* what each caller is doing with the object
    sent,         \* packets given to send_packet()
    uplink,       \* the uplink channel
    written       \* the packets written to the device, oldest first

taskVars == <<task, mode, initialized, status, message>>
threadVars == <<reader, writer, readerFailed, writerFailed>>
userVars == <<opener, handle, asked, call>>
dataVars == <<sent, uplink, written>>
vars == <<taskVars, threadVars, userVars, disconnect, dataVars>>

TaskPlaces ==
    {"switch",   \* about to switch the Crazyflie to USB
     "connect",  \* about to set the status to Connected
     "notify",   \* about to complete the oneshot
     "join",     \* joining the threads
     "report",   \* both have ended, no reason stored yet
     "signal",   \* sending () on the disconnect channel
     "back",     \* about to switch the Crazyflie back
     "stopped"}  \* everything dropped

Disconnected == {"closed", "reader error", "writer error"}

InProgress == {"closing", "waiting", "woken"}

CallStates == InProgress \cup {"idle", "closed", "reason", "still"}

\* Someone still holds the far ends of the packet channels and the Receiver of
\* the disconnect channel: open(), then the object until its fields drop.
ObjectHeld == opener = "waiting" \/ handle \in {"live", "dropping"}

Waiters == {c \in Callers : call[c] \in {"closing", "waiting"}}

Init ==
    /\ task = "switch"
    /\ reader = "none" /\ writer = "none"
    /\ readerFailed = FALSE /\ writerFailed = FALSE
    /\ mode = "radio"
    /\ initialized = "empty"
    /\ opener = "waiting"
    /\ handle = "none"
    /\ status = "Connecting"
    /\ disconnect = FALSE
    /\ asked = FALSE
    /\ message = FALSE
    /\ call = [c \in Callers |-> "idle"]
    /\ sent = 0
    /\ uplink = << >>
    /\ written = << >>

-----------------------------------------------------------------------------
(* The blocking task *)

SwitchToUsb ==
    /\ task = "switch"
    /\ task' = "connect"
    /\ mode' = "usb"
    /\ UNCHANGED <<initialized, status, message, threadVars, userVars,
                   disconnect, dataVars>>

\* The task returns at once; the oneshot goes with it.
SwitchFails ==
    /\ task = "switch"
    /\ task' = "stopped"
    /\ initialized' = "dropped"
    /\ UNCHANGED <<mode, status, message, threadVars, userVars, disconnect,
                   dataVars>>

AnnounceConnected ==
    /\ task = "connect"
    /\ task' = "notify"
    /\ status' = "Connected"
    /\ UNCHANGED <<mode, initialized, message, threadVars, userVars,
                   disconnect, dataVars>>

\* connection_initialized.send(()).unwrap(): a panic when open() is gone, the
\* Crazyflie still switched to USB; otherwise the two threads are spawned.
NotifyOpener ==
    /\ task = "notify"
    /\ IF opener = "cancelled"
         THEN /\ task' = "stopped" /\ initialized' = "dropped"
              /\ UNCHANGED <<reader, writer>>
         ELSE /\ task' = "join" /\ initialized' = "sent"
              /\ reader' = "top" /\ writer' = "top"
    /\ UNCHANGED <<mode, status, message, readerFailed, writerFailed, userVars,
                   disconnect, dataVars>>

\* reader.join() and writer.join().  Faulty form: only the first.
JoinReader ==
    /\ task = "join"
    /\ reader = "ended"
    /\ task' = "report"
    /\ UNCHANGED <<mode, initialized, status, message, threadVars, userVars,
                   disconnect, dataVars>>
JoinThreads ==
    /\ task = "join"
    /\ reader = "ended" /\ writer = "ended"
    /\ task' = "report"
    /\ UNCHANGED <<mode, initialized, status, message, threadVars, userVars,
                   disconnect, dataVars>>

\* The match on the two results.
Reason ==
    IF readerFailed THEN "reader error"
    ELSE IF writerFailed THEN "writer error" ELSE "closed"

\* Faulty form: the reason is left to the reader of the status to find out.
ReportNothing ==
    /\ task = "report"
    /\ task' = "signal"
    /\ UNCHANGED <<mode, initialized, status, message, threadVars, userVars,
                   disconnect, dataVars>>
ReportReason ==
    /\ task = "report"
    /\ task' = "signal"
    /\ status' = Reason
    /\ UNCHANGED <<mode, initialized, message, threadVars, userVars,
                   disconnect, dataVars>>

\* send(()) finds one waiter, or fails because no Receiver is left; until one
\* of the two holds it blocks.  Faulty form: it blocks in the second case too.
SignalWaiterOnly ==
    /\ task = "signal"
    /\ Waiters # {}
    /\ message' = TRUE
    /\ task' = "back"
    /\ UNCHANGED <<mode, initialized, status, threadVars, userVars, disconnect,
                   dataVars>>
Signal ==
    /\ task = "signal"
    /\ Waiters # {} \/ ~ObjectHeld
    /\ message' = (Waiters # {})
    /\ task' = "back"
    /\ UNCHANGED <<mode, initialized, status, threadVars, userVars, disconnect,
                   dataVars>>

\* The last transfer is made on a best effort basis; then the task ends and
\* drops its Sender of the disconnect channel.
SwitchBack ==
    /\ task = "back"
    /\ task' = "stopped"
    /\ mode' \in {"radio", "unknown"}
    /\ UNCHANGED <<initialized, status, message, threadVars, userVars,
                   disconnect, dataVars>>

TaskStep ==
    \/ SwitchToUsb \/ SwitchFails \/ AnnounceConnected \/ NotifyOpener
    \/ JoinThreads \/ ReportReason \/ Signal \/ SwitchBack

-----------------------------------------------------------------------------
(* The threads.  However a thread ends, its DisconnectGuard sets the flag. *)

ReaderEnds(failed) ==
    /\ reader' = "ended"
    /\ readerFailed' = failed
    /\ disconnect' = TRUE

WriterEnds(failed) ==
    /\ writer' = "ended"
    /\ writerFailed' = failed
    /\ disconnect' = TRUE

ReaderChecks ==
    /\ reader = "top"
    /\ IF disconnect
         THEN ReaderEnds(FALSE)
         ELSE reader' = "read" /\ UNCHANGED <<readerFailed, disconnect>>
    /\ UNCHANGED <<taskVars, writer, writerFailed, userVars, dataVars>>

\* read_bulk() brings a packet for the downlink channel, or nothing in 20 ms.
ReaderReads(something) ==
    /\ reader = "read"
    /\ IF something /\ ~ObjectHeld
         THEN ReaderEnds(FALSE)
         ELSE reader' = "top" /\ UNCHANGED <<readerFailed, disconnect>>
    /\ UNCHANGED <<taskVars, writer, writerFailed, userVars, dataVars>>

\* Faulty forms: the guard is forgotten; the error is swallowed.
ReaderFailsUnguarded ==
    /\ reader = "read"
    /\ reader' = "ended"
    /\ readerFailed' = TRUE
    /\ UNCHANGED <<taskVars, writer, writerFailed, userVars, disconnect, dataVars>>
ReaderFailsQuietly ==
    /\ reader = "read"
    /\ ReaderEnds(FALSE)
    /\ UNCHANGED <<taskVars, writer, writerFailed, userVars, dataVars>>
ReaderFails ==
    /\ reader = "read"
    /\ ReaderEnds(TRUE)
    /\ UNCHANGED <<taskVars, writer, writerFailed, userVars, dataVars>>

ReaderStep ==
    \/ ReaderChecks
    \/ \E something \in BOOLEAN : ReaderReads(something)
    \/ ReaderFails

WriterChecks ==
    /\ writer = "top"
    /\ IF disconnect
         THEN WriterEnds(FALSE)
         ELSE writer' = "take" /\ UNCHANGED <<writerFailed, disconnect>>
    /\ UNCHANGED <<taskVars, reader, readerFailed, userVars, dataVars>>

\* recv_timeout(): a packet, nothing in 20 ms, or no Sender left.  A packet
\* stays at the head of uplink until it is written or given up.
WriterTakes ==
    /\ writer = "take"
    /\ IF uplink # << >>
         THEN writer' = "write" /\ UNCHANGED <<writerFailed, disconnect>>
       ELSE IF ObjectHeld
         THEN writer' = "top" /\ UNCHANGED <<writerFailed, disconnect>>
       ELSE WriterEnds(FALSE)
    /\ UNCHANGED <<taskVars, reader, readerFailed, userVars, dataVars>>

WriteDone ==
    /\ writer = "write"
    /\ writer' = "top"
    /\ written' = Append(written, Head(uplink))
    /\ uplink' = Tail(uplink)
    /\ UNCHANGED <<taskVars, reader, readerFailed, writerFailed, userVars,
                   disconnect, sent>>

\* write_bulk() timed out; the flag is read before the retry.
WriteTimesOut ==
    /\ writer = "write"
    /\ writer' = "nak"
    /\ UNCHANGED <<taskVars, reader, readerFailed, writerFailed, userVars,
                   disconnect, dataVars>>

\* Faulty form: the packet is given up.
RetryNever ==
    /\ writer = "nak"
    /\ writer' = "top"
    /\ uplink' = Tail(uplink)
    /\ UNCHANGED <<taskVars, reader, readerFailed, writerFailed, userVars,
                   disconnect, sent, written>>
WriterRetries ==
    /\ writer = "nak"
    /\ IF disconnect
         THEN WriterEnds(FALSE)
         ELSE writer' = "write" /\ UNCHANGED <<writerFailed, disconnect>>
    /\ UNCHANGED <<taskVars, reader, readerFailed, userVars, dataVars>>

WriteFails ==
    /\ writer = "write"
    /\ WriterEnds(TRUE)
    /\ UNCHANGED <<taskVars, reader, readerFailed, userVars, dataVars>>

WriterStep ==
    WriterChecks \/ WriterTakes \/ WriteDone \/ WriteTimesOut
        \/ WriterRetries \/ WriteFails

-----------------------------------------------------------------------------
(* open() *)

OpenReturns ==
    /\ opener = "waiting"
    /\ initialized = "sent"
    /\ opener' = "opened"
    /\ handle' = "live"
    /\ UNCHANGED <<taskVars, threadVars, asked, call, disconnect, dataVars>>

\* connection_initialized.await.unwrap() on a dropped Sender.
OpenPanics ==
    /\ opener = "waiting"
    /\ initialized = "dropped"
    /\ opener' = "panicked"
    /\ UNCHANGED <<taskVars, threadVars, handle, asked, call, disconnect,
                   dataVars>>

CancelOpen ==
    /\ opener = "waiting"
    /\ opener' = "cancelled"
    /\ UNCHANGED <<taskVars, threadVars, handle, asked, call, disconnect,
                   dataVars>>

-----------------------------------------------------------------------------
(* The connection object *)

\* Accepted as long as the writer holds the Receiver of the uplink channel.
SendPacket ==
    /\ handle = "live"
    /\ writer # "ended"
    /\ sent < MaxUp
    /\ sent' = sent + 1
    /\ uplink' = Append(uplink, sent')
    /\ UNCHANGED <<taskVars, threadVars, userVars, disconnect, written>>

CallClose(c) ==
    /\ handle = "live"
    /\ call[c] = "idle"
    /\ call' = [call EXCEPT ![c] = "closing"]
    /\ disconnect' = TRUE
    /\ asked' = TRUE
    /\ UNCHANGED <<taskVars, threadVars, opener, handle, dataVars>>

CallWaitClose(c) ==
    /\ handle = "live"
    /\ call[c] = "idle"
    /\ call' = [call EXCEPT ![c] = "waiting"]
    /\ UNCHANGED <<taskVars, threadVars, opener, handle, asked, disconnect,
                   dataVars>>

\* recv_async() ends with the () of the task, or with the loss of its Sender.
\* Faulty form: the Sender outlives the task.
ReceiveMessage(c) ==
    /\ c \in Waiters
    /\ message
    /\ message' = FALSE
    /\ call' = [call EXCEPT ![c] = IF @ = "closing" THEN "closed" ELSE "woken"]
    /\ UNCHANGED <<task, mode, initialized, status, threadVars, opener, handle,
                   asked, disconnect, dataVars>>
Receive(c) ==
    /\ c \in Waiters
    /\ message \/ task = "stopped"
    /\ message' = FALSE
    /\ call' = [call EXCEPT ![c] = IF @ = "closing" THEN "closed" ELSE "woken"]
    /\ UNCHANGED <<task, mode, initialized, status, threadVars, opener, handle,
                   asked, disconnect, dataVars>>

\* wait_close() answers with the reason, or with "Still connected!".
WaitReturns(c) ==
    /\ call[c] = "woken"
    /\ call' = [call EXCEPT ![c] = IF status \in Disconnected
                                     THEN "reason" ELSE "still"]
    /\ UNCHANGED <<taskVars, threadVars, opener, handle, asked, disconnect,
                   dataVars>>

\* A caller drops the future of its call; a () meant for it stays in the
\* channel.
CancelCall(c) ==
    /\ call[c] \in InProgress
    /\ call' = [call EXCEPT ![c] = "idle"]
    /\ UNCHANGED <<taskVars, threadVars, opener, handle, asked, disconnect,
                   dataVars>>

\* Drop for CrazyflieUSBConnection, then its fields.
BeginDrop ==
    /\ handle = "live"
    /\ \A c \in Callers : call[c] \notin InProgress
    /\ handle' = "dropping"
    /\ disconnect' = TRUE
    /\ asked' = TRUE
    /\ UNCHANGED <<taskVars, threadVars, opener, call, dataVars>>

FinishDrop ==
    /\ handle = "dropping"
    /\ handle' = "dropped"
    /\ UNCHANGED <<taskVars, threadVars, opener, asked, call, disconnect,
                   dataVars>>

UserStep ==
    \/ OpenReturns \/ OpenPanics \/ CancelOpen
    \/ SendPacket \/ BeginDrop \/ FinishDrop
    \/ \E c \in Callers : \/ CallClose(c) \/ CallWaitClose(c)
                          \/ Receive(c) \/ WaitReturns(c) \/ CancelCall(c)

Next == TaskStep \/ ReaderStep \/ WriterStep \/ UserStep

Spec == Init /\ [][Next]_vars

(***************************************************************************)
(* The threads are scheduled and every USB transfer and every recv_timeout *)
(* has a timeout; a caller that can be answered is polled, and a drop runs *)
(* to its end.  What a transfer brings and what the user decides is free.  *)
(***************************************************************************)
Fairness ==
    /\ WF_vars(TaskStep) /\ WF_vars(ReaderStep) /\ WF_vars(WriterStep)
    /\ WF_vars(FinishDrop)
    /\ \A c \in Callers : WF_vars(Receive(c)) /\ WF_vars(WaitReturns(c))

FairSpec == Spec /\ Fairness

-----------------------------------------------------------------------------
(* Properties *)

\* Every variable stays in the set of values the code gives it, and a thread
\* has a result only when it has ended.
TypeOK ==
    /\ task \in TaskPlaces
    /\ reader \in {"none", "top", "read", "ended"}
    /\ writer \in {"none", "top", "take", "write", "nak", "ended"}
    /\ readerFailed \in BOOLEAN /\ (readerFailed => reader = "ended")
    /\ writerFailed \in BOOLEAN /\ (writerFailed => writer = "ended")
    /\ mode \in {"radio", "usb", "unknown"}
    /\ initialized \in {"empty", "sent", "dropped"}
    /\ opener \in {"waiting", "opened", "panicked", "cancelled"}
    /\ handle \in {"none", "live", "dropping", "dropped"}
    /\ status \in {"Connecting", "Connected"} \cup Disconnected
    /\ disconnect \in BOOLEAN /\ asked \in BOOLEAN /\ message \in BOOLEAN
    /\ call \in [Callers -> CallStates]
    /\ sent \in Nat /\ uplink \in Seq(Nat) /\ written \in Seq(Nat)

\* When close() has returned, neither thread runs: no packet is read from or
\* written to the device any more.
CloseMeansIdle ==
    \A c \in Callers : call[c] = "closed" => reader = "ended" /\ writer = "ended"

\* "Connection closed" is reported only when the user wanted it: a transfer
\* error that stops both threads is never taken for a close.
ClosedIsWanted == status = "closed" => asked \/ opener = "cancelled"

\* A USB connection is a connection: one final reason, and nobody answered
\* before it is there.
Lifecycle == INSTANCE LinkLifecycle
    WITH Reasons <- Disconnected,
         answered <- {c \in Callers : call[c] \in {"closed", "reason", "still"}}
LifecycleKept == Lifecycle!LifeSpec

\* The packets are written in the order of their submission, none twice and
\* none left out, whatever the device refuses for a while.
Written == INSTANCE ReliableStream
    WITH protected <- task # "switch", submitted <- sent, handedOver <- written
WrittenInOrder == Written!StreamSpec

\* One thread does not outlive the other, and the joins do not hang: the end
\* of either is the end of the connection.
ThreadsEndTogether ==
    (reader = "ended" \/ writer = "ended") ~> status \in Disconnected

\* A connection nobody has any more ends and gives the Crazyflie back to the
\* radio, or tries to.  Of a dropped one nobody receives what the task sends
\* before; that of an open() cancelled after the threads were spawned learns
\* of it from the writer, which sees that nobody can send any more.
AbandonedEnds ==
    /\ (handle = "dropped") ~> (mode # "usb")
    /\ (opener = "cancelled" /\ reader # "none")
            ~> (task = "stopped" /\ mode # "usb")

\* close() does not hang, and wait_close() not once the connection has ended,
\* however many wait for the one () the task sends.
CallsReturn ==
    \A c \in Callers :
        /\ call[c] = "closing" ~> call[c] # "closing"
        /\ (call[c] = "waiting" /\ status \in Disconnected)
                ~> call[c] # "waiting"

(* Statements of the documentation that the code breaks *)

\* connection.rs:119: "Close the connection and wait for the connection task
\* to stop".
CloseMeansStopped == \A c \in Callers : call[c] = "closed" => task = "stopped"

\* crazyflie_usb_connection.rs:275: open() waits "for, either, the connection
\* being established or failed initialization".
OpenSurvivesFailure == opener # "panicked"
=============================================================================
