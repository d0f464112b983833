------------------------ MODULE UsbConnection_proofs ------------------------
(***************************************************************************)
(* Theorems about UsbConnection, for every set of callers and number of    *)
(* packets.                                                                *)
(***************************************************************************)
EXTENDS UsbConnection, SequenceTheorems, TLAPS

\* Groups of variables, in the UNCHANGED of nearly every action.
USE DEF taskVars, threadVars, userVars, dataVars

BothEnded == reader = "ended" /\ writer = "ended"
Early == {"switch", "connect", "notify"}

(***************************************************************************)
(* The inductive invariant.  The threads exist once the oneshot was sent,  *)
(* so there is no object without them; the task is past the joins only     *)
(* when both have ended, and has stored a reason from then on.  A (), or   *)
(* the loss of its Sender, therefore reaches a caller only after both.     *)
(***************************************************************************)
SpawnInv ==
    /\ task \in Early =>
          initialized = "empty" /\ reader = "none" /\ writer = "none"
    /\ task \in TaskPlaces \ (Early \cup {"stopped"}) => initialized = "sent"
    /\ task = "stopped" => initialized # "empty"
    /\ initialized = "sent" <=> reader # "none"
    /\ reader = "none" <=> writer = "none"

HandleInv ==
    /\ opener = "opened" => initialized = "sent" /\ handle # "none"
    /\ opener # "opened" => handle = "none"
    /\ opener = "panicked" => initialized = "dropped"
    /\ handle \in {"dropping", "dropped"} => asked
    /\ \A c \in Callers : call[c] # "idle" => opener = "opened"

EndInv ==
    /\ task \in {"switch", "connect"} => status = "Connecting"
    /\ status \in Disconnected => task \in {"signal", "back", "stopped"}
    /\ task = "report" => BothEnded
    /\ task \in {"signal", "back"} => BothEnded /\ status \in Disconnected
    /\ task = "stopped" /\ initialized = "sent"
          => BothEnded /\ status \in Disconnected
    /\ message => BothEnded /\ status \in Disconnected

AnswerInv ==
    \A c \in Callers :
        /\ call[c] \in {"woken", "closed"} =>
              BothEnded /\ status \in Disconnected
        /\ call[c] # "still"

(***************************************************************************)
(* Why a thread ended: the flag was set by the user, by the guard of a     *)
(* thread that failed, or by one that saw that nobody holds the far end of *)
(* its channel.                                                            *)
(***************************************************************************)
Excused == asked \/ opener = "cancelled"

FlagInv ==
    /\ reader = "ended" \/ writer = "ended" => disconnect
    /\ disconnect => Excused \/ readerFailed \/ writerFailed
    /\ ClosedIsWanted

\* The packet that the writer is writing is the head of uplink.
QueueInv == writer \in {"write", "nak"} => uplink # << >>

Shape ==
    SpawnInv /\ HandleInv /\ EndInv /\ AnswerInv /\ FlagInv /\ QueueInv

UsbInv == TypeOK /\ Shape

-----------------------------------------------------------------------------

LEMMA AppendIsNonempty ==
    ASSUME NEW S, NEW s \in Seq(S), NEW e \in S PROVE Append(s, e) # << >>
  BY AppendProperties

LEMMA InitUsbInv == Init => UsbInv
  <1> SUFFICES ASSUME Init PROVE UsbInv
    OBVIOUS
  <1> USE DEF Init
  <1>1. TypeOK
    <2>1. call \in [Callers -> CallStates]
      BY DEF CallStates
    <2>2. uplink \in Seq(Nat) /\ written \in Seq(Nat) /\ sent \in Nat
      OBVIOUS
    <2>3. task \in TaskPlaces
      BY DEF TaskPlaces
    <2> QED
      BY <2>1, <2>2, <2>3 DEF TypeOK
  <1>2. SpawnInv /\ HandleInv
    BY DEF SpawnInv, HandleInv, Early, TaskPlaces
  <1>3. EndInv /\ AnswerInv /\ FlagInv /\ QueueInv
    BY DEF EndInv, AnswerInv, FlagInv, QueueInv, ClosedIsWanted, Disconnected
  <1> QED
    BY <1>1, <1>2, <1>3 DEF UsbInv, Shape

Flags ==
    /\ readerFailed \in BOOLEAN /\ writerFailed \in BOOLEAN
    /\ disconnect \in BOOLEAN /\ asked \in BOOLEAN /\ message \in BOOLEAN

\* The Boolean variables have a lemma of their own because SMT reads
\* x = FALSE as ~x, from which it does not learn that x is a Boolean.
LEMMA FlagsKept ==
    ASSUME Flags, [Next]_vars PROVE Flags'
  <1> USE DEF Flags
  <1>1. CASE TaskStep
    BY <1>1, Zenon
       DEF TaskStep, SwitchToUsb, SwitchFails, AnnounceConnected, NotifyOpener,
           JoinThreads, ReportReason, Signal, SwitchBack
  <1>2. CASE ReaderStep
    BY <1>2, Zenon
       DEF ReaderStep, ReaderChecks, ReaderReads, ReaderFails, ReaderEnds
  <1>3. CASE WriterStep
    BY <1>3, Zenon
       DEF WriterStep, WriterChecks, WriterTakes, WriteDone, WriteTimesOut,
           WriterRetries, WriteFails, WriterEnds
  <1>4. CASE UserStep
    BY <1>4, Zenon
       DEF UserStep, OpenReturns, OpenPanics, CancelOpen, SendPacket,
           BeginDrop, FinishDrop, CallClose, CallWaitClose, Receive,
           WaitReturns, CancelCall
  <1>5. CASE UNCHANGED vars
    BY <1>5, Zenon DEF vars
  <1> QED
    BY <1>1, <1>2, <1>3, <1>4, <1>5 DEF Next

\* Every step keeps the types.
LEMMA TypesKept ==
    ASSUME UsbInv, [Next]_vars PROVE TypeOK'
  <1>0. Flags'
    BY FlagsKept DEF Flags, UsbInv, TypeOK
  <1> TypeOK
    BY DEF UsbInv
  <1> USE UsbAssumption DEF TypeOK
  <1>1. CASE TaskStep
    <2> USE DEF TaskPlaces
    <2>1. CASE SwitchToUsb
      BY <1>0, <2>1 DEF Flags, SwitchToUsb
    <2>2. CASE SwitchFails
      BY <1>0, <2>2 DEF Flags, SwitchFails
    <2>3. CASE AnnounceConnected
      BY <1>0, <2>3 DEF Flags, AnnounceConnected
    <2>4. CASE NotifyOpener
      <3>1. CASE opener = "cancelled"
        BY <1>0, <2>4, <3>1 DEF Flags, NotifyOpener
      <3>2. CASE opener # "cancelled"
        <4>1. ~readerFailed /\ ~writerFailed
          BY <2>4 DEF NotifyOpener, UsbInv, Shape, SpawnInv, Early
        <4> QED
          BY <1>0, <2>4, <3>2, <4>1 DEF Flags, NotifyOpener
      <3> QED
        BY <3>1, <3>2
    <2>5. CASE JoinThreads
      BY <1>0, <2>5 DEF Flags, JoinThreads
    <2>6. CASE ReportReason
      <3>1. CASE readerFailed
        BY <1>0, <2>6, <3>1 DEF Flags, ReportReason, Reason, Disconnected
      <3>2. CASE ~readerFailed
        <4>1. status' \in Disconnected
          BY <2>6, <3>2 DEF ReportReason, Reason, Disconnected
        <4> QED
          BY <1>0, <2>6, <3>2, <4>1 DEF Flags, ReportReason
      <3> QED
        BY <3>1, <3>2
    <2>7. CASE Signal
      BY <1>0, <2>7 DEF Flags, Signal
    <2>8. CASE SwitchBack
      BY <1>0, <2>8 DEF Flags, SwitchBack
    <2> QED
      BY <1>1, <2>1, <2>2, <2>3, <2>4, <2>5, <2>6, <2>7, <2>8
         DEF TaskStep
  <1>2. CASE ReaderStep
    <2>1. CASE ReaderChecks
      <3>1. CASE disconnect
        BY <1>0, <2>1, <3>1 DEF Flags, ReaderChecks, ReaderEnds
      <3>2. CASE ~disconnect
        BY <1>0, <2>1, <3>2 DEF Flags, ReaderChecks, ReaderEnds
      <3> QED
        BY <3>1, <3>2
    <2>2. ASSUME NEW something \in BOOLEAN, ReaderReads(something) PROVE TypeOK'
      <3>1. CASE something /\ ~ObjectHeld
        BY <1>0, <2>2, <3>1 DEF Flags, ReaderReads, ReaderEnds
      <3>2. CASE ~(something /\ ~ObjectHeld)
        BY <1>0, <2>2, <3>2 DEF Flags, ReaderReads, ReaderEnds
      <3> QED
        BY <3>1, <3>2
    <2>3. CASE ReaderFails
      BY <1>0, <2>3 DEF Flags, ReaderFails, ReaderEnds
    <2> QED
      BY <1>2, <2>1, <2>2, <2>3
         DEF ReaderStep
  <1>3. CASE WriterStep
    <2>1. CASE WriterChecks
      <3>1. CASE disconnect
        BY <1>0, <2>1, <3>1 DEF Flags, WriterChecks, WriterEnds
      <3>2. CASE ~disconnect
        BY <1>0, <2>1, <3>2 DEF Flags, WriterChecks, WriterEnds
      <3> QED
        BY <3>1, <3>2
    <2>2. CASE WriterTakes
      <3>1. CASE uplink # << >>
        BY <1>0, <2>2, <3>1 DEF Flags, WriterTakes, WriterEnds
      <3>2. CASE uplink = << >> /\ ObjectHeld
        BY <1>0, <2>2, <3>2 DEF Flags, WriterTakes, WriterEnds
      <3>3. CASE uplink = << >> /\ ~ObjectHeld
        BY <1>0, <2>2, <3>3 DEF Flags, WriterTakes, WriterEnds
      <3> QED
        BY <3>1, <3>2, <3>3
    <2>3. CASE WriteDone
      <3>1. uplink' \in Seq(Nat) /\ written' \in Seq(Nat)
        BY <2>3 DEF WriteDone, UsbInv, Shape, QueueInv
      <3> QED
        BY <1>0, <2>3, <3>1 DEF Flags, WriteDone
    <2>4. CASE WriteTimesOut
      BY <1>0, <2>4 DEF Flags, WriteTimesOut
    <2>5. CASE WriterRetries
      <3>1. CASE disconnect
        BY <1>0, <2>5, <3>1 DEF Flags, WriterRetries, WriterEnds
      <3>2. CASE ~disconnect
        BY <1>0, <2>5, <3>2 DEF Flags, WriterRetries, WriterEnds
      <3> QED
        BY <3>1, <3>2
    <2>6. CASE WriteFails
      BY <1>0, <2>6 DEF Flags, WriteFails, WriterEnds
    <2> QED
      BY <1>3, <2>1, <2>2, <2>3, <2>4, <2>5, <2>6
         DEF WriterStep
  <1>4. CASE UserStep
    <2> USE DEF CallStates, InProgress
    <2>1. CASE OpenReturns
      BY <1>0, <2>1 DEF Flags, OpenReturns
    <2>2. CASE OpenPanics
      BY <1>0, <2>2 DEF Flags, OpenPanics
    <2>3. CASE CancelOpen
      BY <1>0, <2>3 DEF Flags, CancelOpen
    <2>4. CASE SendPacket
      BY <1>0, <2>4 DEF Flags, SendPacket
    <2>5. CASE BeginDrop
      BY <1>0, <2>5 DEF Flags, BeginDrop
    <2>6. CASE FinishDrop
      BY <1>0, <2>6 DEF Flags, FinishDrop
    <2>7. ASSUME NEW c \in Callers, CallClose(c) PROVE TypeOK'
      BY <1>0, <2>7 DEF Flags, CallClose
    <2>8. ASSUME NEW c \in Callers, CallWaitClose(c) PROVE TypeOK'
      BY <1>0, <2>8 DEF Flags, CallWaitClose
    <2>9. ASSUME NEW c \in Callers, Receive(c) PROVE TypeOK'
      <3>1. call' \in [Callers -> CallStates]
        BY <1>0, <2>9 DEF Flags, Receive
      <3> QED
        BY <1>0, <2>9, <3>1 DEF Flags, Receive
    <2>10. ASSUME NEW c \in Callers, WaitReturns(c) PROVE TypeOK'
      BY <1>0, <2>10 DEF Flags, WaitReturns
    <2>11. ASSUME NEW c \in Callers, CancelCall(c) PROVE TypeOK'
      BY <1>0, <2>11 DEF Flags, CancelCall
    <2> QED
      BY <1>4, <2>1, <2>2, <2>3, <2>4, <2>5, <2>6, <2>7, <2>8, <2>9, <2>10,
         <2>11
         DEF UserStep
  <1>5. CASE UNCHANGED vars
    BY <1>5 DEF vars
  <1> QED
    BY <1>1, <1>2, <1>3, <1>4, <1>5 DEF Next

\* The steps of the task.
LEMMA TaskKeepsShape ==
    ASSUME UsbInv, TaskStep PROVE Shape'
  <1> USE DEF UsbInv, TypeOK, Shape, SpawnInv, HandleInv, EndInv, AnswerInv,
              FlagInv, QueueInv, Excused, ClosedIsWanted, BothEnded, Early,
              TaskPlaces,
              Disconnected
  <1>1. CASE SwitchToUsb
    <2>1. SpawnInv' /\ HandleInv' /\ QueueInv'
      BY <1>1 DEF SwitchToUsb
    <2>2. EndInv' /\ AnswerInv'
      BY <1>1 DEF SwitchToUsb
    <2>3. FlagInv'
      BY <1>1 DEF SwitchToUsb
    <2> QED
      BY <2>1, <2>2, <2>3
  <1>2. CASE SwitchFails
    BY <1>2 DEF SwitchFails
  <1>3. CASE AnnounceConnected
    BY <1>3 DEF AnnounceConnected
  <1>4. CASE NotifyOpener
    BY <1>4 DEF NotifyOpener
  <1>5. CASE JoinThreads
    BY <1>5 DEF JoinThreads
  <1>6. CASE ReportReason
    BY <1>6 DEF ReportReason, Reason
  <1>7. CASE Signal
    BY <1>7 DEF Signal
  <1>8. CASE SwitchBack
    BY <1>8 DEF SwitchBack
  <1> QED
    BY <1>1, <1>2, <1>3, <1>4, <1>5, <1>6, <1>7, <1>8 DEF TaskStep

\* The steps of the two threads.
LEMMA ThreadsKeepShape ==
    ASSUME UsbInv, ReaderStep \/ WriterStep PROVE Shape'
  <1> USE DEF UsbInv, TypeOK, Shape, SpawnInv, HandleInv, EndInv, AnswerInv,
              FlagInv, QueueInv, Excused, ClosedIsWanted, BothEnded, Early,
              TaskPlaces,
              Disconnected, ReaderEnds, WriterEnds
  <1>1. CASE ReaderChecks
    BY <1>1 DEF ReaderChecks
  <1>2. ASSUME NEW something \in BOOLEAN, ReaderReads(something) PROVE Shape'
    BY <1>2 DEF ReaderReads, ObjectHeld
  <1>3. CASE ReaderFails
    BY <1>3 DEF ReaderFails
  <1>4. CASE WriterChecks
    BY <1>4 DEF WriterChecks
  <1>5. CASE WriterTakes
    BY <1>5 DEF WriterTakes, ObjectHeld
  <1>6. CASE WriteDone
    BY <1>6 DEF WriteDone
  <1>7. CASE WriteTimesOut
    BY <1>7 DEF WriteTimesOut
  <1>8. CASE WriterRetries
    BY <1>8 DEF WriterRetries
  <1>9. CASE WriteFails
    BY <1>9 DEF WriteFails
  <1> QED
    BY <1>1, <1>2, <1>3, <1>4, <1>5, <1>6, <1>7, <1>8, <1>9
       DEF ReaderStep, WriterStep

\* The steps of open(), of the object and of its callers.
LEMMA UserKeepsShape ==
    ASSUME UsbInv, UserStep PROVE Shape'
  <1> USE DEF UsbInv, TypeOK, Shape, SpawnInv, HandleInv, EndInv, AnswerInv,
              FlagInv, QueueInv, Excused, ClosedIsWanted, BothEnded, Early,
              TaskPlaces,
              Disconnected, CallStates, InProgress
  <1>1. CASE OpenReturns
    BY <1>1 DEF OpenReturns
  <1>2. CASE OpenPanics
    BY <1>2 DEF OpenPanics
  <1>3. CASE CancelOpen
    BY <1>3 DEF CancelOpen
  <1>4. CASE SendPacket
    <2>1. QueueInv'
      <3>1. uplink \in Seq(Nat) /\ sent + 1 \in Nat
        <4>1. TypeOK
          OBVIOUS
        <4>2. uplink \in Seq(Nat) /\ sent \in Nat
          BY ONLY <4>1 DEF TypeOK
        <4> QED
          BY ONLY <4>2
      <3>2. uplink' = Append(uplink, sent + 1)
        BY <1>4 DEF SendPacket
      <3>3. uplink' # << >>
        BY ONLY <3>1, <3>2, AppendIsNonempty
      <3> QED
        BY <3>3
    <2> QED
      BY <1>4, <2>1 DEF SendPacket
  <1>5. CASE BeginDrop
    BY <1>5 DEF BeginDrop
  <1>6. CASE FinishDrop
    BY <1>6 DEF FinishDrop
  <1>7. ASSUME NEW c \in Callers, CallClose(c) PROVE Shape'
    BY <1>7 DEF CallClose
  <1>8. ASSUME NEW c \in Callers, CallWaitClose(c) PROVE Shape'
    BY <1>8 DEF CallWaitClose
  <1>9. ASSUME NEW c \in Callers, Receive(c) PROVE Shape'
    <2>1. BothEnded /\ status \in Disconnected
      BY <1>9 DEF Receive, Waiters
    <2>2. SpawnInv' /\ HandleInv' /\ FlagInv' /\ QueueInv'
      BY <1>9 DEF Receive, Waiters
    <2>3. EndInv'
      BY <1>9 DEF Receive
    <2>4. AnswerInv'
      BY <1>9, <2>1 DEF Receive
    <2> QED
      BY <2>2, <2>3, <2>4
  <1>10. ASSUME NEW c \in Callers, WaitReturns(c) PROVE Shape'
    BY <1>10 DEF WaitReturns
  <1>11. ASSUME NEW c \in Callers, CancelCall(c) PROVE Shape'
    BY <1>11 DEF CancelCall
  <1> QED
    BY <1>1, <1>2, <1>3, <1>4, <1>5, <1>6, <1>7, <1>8, <1>9, <1>10, <1>11
       DEF UserStep

\* A USB connection never leaves the inductive invariant.
THEOREM UsbInvariant == Spec => []UsbInv
  <1>1. UsbInv /\ [Next]_vars => UsbInv'
    <2> SUFFICES ASSUME UsbInv, [Next]_vars PROVE UsbInv'
      OBVIOUS
    <2>1. TypeOK'
      BY TypesKept DEF UsbInv
    <2>2. CASE UNCHANGED vars
      BY <2>1, <2>2
         DEF vars, UsbInv, Shape, SpawnInv, HandleInv, EndInv, AnswerInv,
             FlagInv, QueueInv, Excused, ClosedIsWanted, BothEnded
    <2>3. CASE Next
      BY <2>1, <2>3, TaskKeepsShape, ThreadsKeepShape, UserKeepsShape
         DEF Next, UsbInv, Shape
    <2> QED
      BY <2>2, <2>3
  <1> QED
    BY <1>1, InitUsbInv, PTL DEF Spec

-----------------------------------------------------------------------------

\* When close() has returned to any caller, neither thread runs.
THEOREM CloseLeavesIdle == Spec => []CloseMeansIdle
  <1>1. UsbInv => CloseMeansIdle
    BY DEF UsbInv, Shape, AnswerInv, BothEnded, CloseMeansIdle
  <1> QED
    BY <1>1, UsbInvariant, PTL

\* No error is reported as a close.
THEOREM CloseIsWanted == Spec => []ClosedIsWanted
  <1>1. UsbInv => ClosedIsWanted
    BY DEF UsbInv, Shape, FlagInv
  <1> QED
    BY <1>1, UsbInvariant, PTL

-----------------------------------------------------------------------------
(* UsbConnection implements LinkLifecycle *)

Answered == {c \in Callers : call[c] \in {"closed", "reason", "still"}}

LEMMA StepsKeepUsbLifecycle ==
    ASSUME UsbInv, [Next]_vars
    PROVE  [Lifecycle!LifeNext]_(Lifecycle!lifeVars)
  <1> USE DEF Lifecycle!LifeNext, Lifecycle!lifeVars, Answered
  <1>1. CASE AnnounceConnected
    BY <1>1 DEF AnnounceConnected, UsbInv, Shape, EndInv, Lifecycle!Connect
  <1>2. CASE ReportReason
    BY <1>2 DEF ReportReason, Reason, Disconnected, UsbInv, Shape, EndInv,
                Lifecycle!Disconnect
  <1>3. ASSUME NEW c \in Callers, Receive(c) \/ WaitReturns(c)
        PROVE  [Lifecycle!Answer]_(Lifecycle!lifeVars)
    <2>1. status \in Disconnected
      <3>1. CASE Receive(c)
        BY <3>1 DEF Receive, Waiters, UsbInv, Shape, HandleInv, EndInv
      <3>2. CASE WaitReturns(c)
        BY <3>2 DEF WaitReturns, UsbInv, Shape, AnswerInv
      <3> QED
        BY <1>3, <3>1, <3>2
    <2>2. Answered' = Answered \cup {c} \/ Answered' = Answered
      BY <1>3 DEF Receive, WaitReturns, Waiters, UsbInv, TypeOK
    <2>3. UNCHANGED status
      BY <1>3 DEF Receive, WaitReturns
    <2> QED
      BY <2>1, <2>2, <2>3 DEF Lifecycle!Answer
  <1>4. ASSUME NEW c \in Callers,
               CallClose(c) \/ CallWaitClose(c) \/ CancelCall(c)
        PROVE  UNCHANGED <<status, Answered>>
    BY <1>4 DEF CallClose, CallWaitClose, CancelCall, InProgress, UsbInv, TypeOK
  <1>5. CASE \/ SwitchToUsb \/ SwitchFails \/ NotifyOpener \/ JoinThreads
             \/ Signal \/ SwitchBack
    BY <1>5 DEF SwitchToUsb, SwitchFails, NotifyOpener, JoinThreads, Signal,
                SwitchBack
  <1>6. CASE ReaderStep
    BY <1>6 DEF ReaderStep, ReaderChecks, ReaderReads, ReaderFails
  <1>7. CASE WriterStep
    BY <1>7 DEF WriterStep, WriterChecks, WriterTakes, WriteDone,
                WriteTimesOut, WriterRetries, WriteFails
  <1>8. CASE \/ OpenReturns \/ OpenPanics \/ CancelOpen \/ SendPacket
             \/ BeginDrop \/ FinishDrop
    BY <1>8 DEF OpenReturns, OpenPanics, CancelOpen, SendPacket, BeginDrop,
                FinishDrop
  <1>9. CASE UNCHANGED vars
    BY <1>9 DEF vars
  <1> QED
    BY <1>1, <1>2, <1>3, <1>4, <1>5, <1>6, <1>7, <1>8, <1>9
       DEF Next, TaskStep, UserStep

\* A USB connection is a connection in the sense of connection.rs, as a radio
\* connection is.
THEOREM UsbKeepsLifecycle == Spec => LifecycleKept
  <1>1. Init => Lifecycle!LifeInit
    BY DEF Init, Lifecycle!LifeInit
  <1>2. UsbInv /\ [Next]_vars => [Lifecycle!LifeNext]_(Lifecycle!lifeVars)
    BY StepsKeepUsbLifecycle
  <1> QED
    BY <1>1, <1>2, UsbInvariant, PTL DEF Spec, LifecycleKept, Lifecycle!LifeSpec

-----------------------------------------------------------------------------
(* UsbConnection implements ReliableStream *)

(***************************************************************************)
(* What was sent is what was written and then what waits in uplink, whose  *)
(* head the writer may be trying to write, in the order of the numbers.    *)
(***************************************************************************)
OrderInv ==
    /\ Len(written) + Len(uplink) = sent
    /\ \A i \in DOMAIN uplink : uplink[i] = Len(written) + i
    /\ task = "switch" => written = << >>

LEMMA InitOrderInv == Init => OrderInv
  BY DEF Init, OrderInv

\* Writing the head of uplink: the one step that moves a packet.
LEMMA WriteTakesNext ==
    ASSUME UsbInv, OrderInv, WriteDone
    PROVE  /\ Len(written) < sent
           /\ written' = Append(written, Len(written) + 1)
           /\ OrderInv'
  <1>1. /\ uplink \in Seq(Nat) /\ written \in Seq(Nat) /\ sent \in Nat
        /\ uplink # << >>
    BY DEF WriteDone, UsbInv, TypeOK, Shape, QueueInv
  <1>2. /\ Len(uplink) \in Nat \ {0} /\ Head(uplink) = uplink[1]
        /\ Len(Tail(uplink)) = Len(uplink) - 1 /\ Len(written) \in Nat
        /\ DOMAIN uplink = 1..Len(uplink)
        /\ DOMAIN Tail(uplink) = 1..Len(uplink) - 1
        /\ \A i \in DOMAIN Tail(uplink) :
              i + 1 \in DOMAIN uplink /\ Tail(uplink)[i] = uplink[i + 1]
    BY <1>1
  <1>3. Head(uplink) = Len(written) + 1 /\ Len(written) < sent
    BY <1>1, <1>2 DEF OrderInv
  <1>4. /\ written' = Append(written, Len(written) + 1)
        /\ uplink' = Tail(uplink) /\ sent' = sent /\ task' = task
    BY <1>3 DEF WriteDone
  <1>5. Len(written') = Len(written) + 1
    BY <1>1, <1>4
  <1>6. task' # "switch"
    BY <1>4 DEF WriteDone, UsbInv, Shape, SpawnInv, Early
  <1>7. \A i \in DOMAIN uplink' : uplink'[i] = Len(written') + i
    <2> SUFFICES ASSUME NEW i \in 1..Len(uplink) - 1
                 PROVE  Tail(uplink)[i] = Len(written) + 1 + i
      BY <1>2, <1>4, <1>5
    <2>1. Tail(uplink)[i] = uplink[i + 1] /\ i + 1 \in DOMAIN uplink
      BY <1>2
    <2> QED
      BY <1>2, <2>1 DEF OrderInv
  <1>8. Len(written') + Len(uplink') = sent'
    <2>1. Len(uplink') = Len(uplink) - 1 /\ sent' = sent
      BY <1>2, <1>4
    <2>2. Len(written) + Len(uplink) = sent
      BY DEF OrderInv
    <2>3. Len(uplink) \in Nat /\ Len(written) \in Nat
      BY <1>2
    <2> QED
      BY ONLY <1>5, <2>1, <2>2, <2>3
  <1> QED
    BY <1>3, <1>4, <1>6, <1>7, <1>8 DEF OrderInv

LEMMA SendKeepsOrder ==
    ASSUME UsbInv, OrderInv, SendPacket
    PROVE  OrderInv'
  <1>1. uplink \in Seq(Nat) /\ written \in Seq(Nat) /\ sent \in Nat
    BY DEF UsbInv, TypeOK
  <1>2. /\ uplink' = Append(uplink, sent + 1) /\ sent' = sent + 1
        /\ UNCHANGED <<written, task>>
    BY DEF SendPacket
  <1>3. /\ Len(uplink') = Len(uplink) + 1
        /\ \A i \in DOMAIN uplink' :
              uplink'[i] = IF i = Len(uplink) + 1 THEN sent + 1 ELSE uplink[i]
        /\ DOMAIN uplink' = 1..Len(uplink) + 1
        /\ DOMAIN uplink = 1..Len(uplink)
        /\ Len(uplink) \in Nat /\ Len(written) \in Nat
    BY <1>1, <1>2
  <1>4. \A i \in DOMAIN uplink' : uplink'[i] = Len(written') + i
    <2> SUFFICES ASSUME NEW i \in 1..Len(uplink) + 1
                 PROVE  uplink'[i] = Len(written) + i
      BY <1>2, <1>3
    <2>1. CASE i = Len(uplink) + 1
      BY <1>2, <1>3, <2>1 DEF OrderInv
    <2>2. CASE i # Len(uplink) + 1
      <3>1. i \in DOMAIN uplink /\ uplink'[i] = uplink[i]
        BY <1>3, <2>2
      <3> QED
        BY <3>1 DEF OrderInv
    <2> QED
      BY <2>1, <2>2
  <1>5. Len(written') + Len(uplink') = sent'
    <2>1. Len(uplink') = Len(uplink) + 1 /\ sent' = sent + 1
          /\ Len(written') = Len(written)
      BY <1>2, <1>3
    <2>2. Len(written) + Len(uplink) = sent
      BY DEF OrderInv
    <2>3. Len(uplink) \in Nat /\ Len(written) \in Nat
      BY <1>3
    <2> QED
      BY ONLY <2>1, <2>2, <2>3
  <1> QED
    BY <1>2, <1>4, <1>5 DEF OrderInv

\* Every other step leaves the packets alone and does not go back to "switch".
LEMMA OthersMoveNothing ==
    ASSUME [Next]_vars, ~WriteDone, ~SendPacket
    PROVE  UNCHANGED dataVars /\ (task' = "switch" => task = "switch")
  <1>1. CASE TaskStep
    BY <1>1 DEF TaskStep, SwitchToUsb, SwitchFails, AnnounceConnected,
                NotifyOpener, JoinThreads, ReportReason, Signal, SwitchBack
  <1>2. CASE ReaderStep
    BY <1>2 DEF ReaderStep, ReaderChecks, ReaderReads, ReaderFails
  <1>3. CASE WriterStep
    BY <1>3 DEF WriterStep, WriterChecks, WriterTakes, WriteTimesOut,
                WriterRetries, WriteFails
  <1>4. CASE UserStep
    BY <1>4 DEF UserStep, OpenReturns, OpenPanics, CancelOpen, BeginDrop,
                FinishDrop, CallClose, CallWaitClose, Receive, WaitReturns,
                CancelCall
  <1>5. CASE UNCHANGED vars
    BY <1>5 DEF vars
  <1> QED
    BY <1>1, <1>2, <1>3, <1>4, <1>5 DEF Next

LEMMA NextKeepsOrder ==
    ASSUME UsbInv, OrderInv, [Next]_vars
    PROVE  OrderInv'
  BY WriteTakesNext, SendKeepsOrder, OthersMoveNothing DEF OrderInv

\* The invariant of the packets, beside that of the life of the connection.
THEOREM UplinkIsInOrder == Spec => []OrderInv
  BY InitOrderInv, NextKeepsOrder, UsbInvariant, PTL DEF Spec

LEMMA StepsWriteInOrder ==
    ASSUME UsbInv, OrderInv, [Next]_vars
    PROVE  [Written!StreamNext]_(Written!streamVars)
  <1> USE DEF Written!StreamNext, Written!streamVars
  <1>1. CASE WriteDone
    <2>1. UNCHANGED <<task, sent>>
      BY <1>1 DEF WriteDone
    <2> QED
      BY <1>1, <2>1, WriteTakesNext DEF Written!HandOver
  <1>2. CASE SendPacket
    BY <1>2 DEF SendPacket, Written!Submit
  <1>3. CASE ~WriteDone /\ ~SendPacket
    <2>1. UNCHANGED <<sent, written>> /\ (task' = "switch" => task = "switch")
      BY <1>3, OthersMoveNothing
    <2>2. CASE task = "switch" /\ task' # "switch"
      BY <2>1, <2>2 DEF OrderInv, Written!Protect
    <2>3. CASE ~(task = "switch" /\ task' # "switch")
      BY <2>1, <2>3
    <2> QED
      BY <2>2, <2>3
  <1> QED
    BY <1>1, <1>2, <1>3

\* What a USB connection writes are the packets given to send_packet(), in
\* order, none twice and none left out, whatever the device refuses, whenever
\* the threads end and for any number of packets.
THEOREM UsbWritesInOrder == Spec => WrittenInOrder
  <1>1. Init => Written!StreamInit
    BY DEF Init, Written!StreamInit
  <1>2. UsbInv /\ OrderInv /\ [Next]_vars
            => [Written!StreamNext]_(Written!streamVars)
    BY StepsWriteInOrder
  <1> QED
    BY <1>1, <1>2, UsbInvariant, UplinkIsInOrder, PTL
       DEF Spec, WrittenInOrder, Written!StreamSpec
=============================================================================
