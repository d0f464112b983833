---------------------------- MODULE Radio_proofs ----------------------------
(***************************************************************************)
(* Theorems about the radio connection, for every set of callers, timeout  *)
(* and number of tries, and every number of packets, retransmissions,      *)
(* repeated payloads and lost acknowledgements.                            *)
(*                                                                         *)
(* First RadioConnection: the reason of an end is true and there before    *)
(* anybody is answered.  Then RadioLink: safelink makes each direction of  *)
(* the link a reliable stream.  Then RadioPlatform: the life of the        *)
(* connection, and a link without safelink, when users send commands.      *)
(***************************************************************************)
EXTENDS RadioPlatform, SequenceTheorems, TLAPS

\* Groups of variables, in the UNCHANGED of nearly every action.
USE DEF runVars, taskVars, userVars

-----------------------------------------------------------------------------
(* RadioConnection *)

\* The task has left run() for good, and has stored the reason if it could.
Over == {"returned", "releasing", "stopped"}

Woken == {"woken", "closed", "reason", "still"}

(***************************************************************************)
(* The inductive invariant.  It ties the place of the task to what the     *)
(* others can see: while the handshake runs the status is Connecting and   *)
(* the oneshot empty, an object exists only after the oneshot was sent, a  *)
(* reason exists only after the loop, and after the loop only a task that  *)
(* panicked because open() was cancelled has none.  Such a task has no     *)
(* object, so no caller can be woken by its end.                           *)
(***************************************************************************)
HandshakeInv ==
    /\ task = "enable" => tries < MaxTries
    /\ task \in {"enable", "connect"} => status = "Connecting"
    /\ task \in {"enable", "connect", "notify"} => initialized = "empty"
    /\ status = "Connecting" =>
          task \in {"enable", "connect", "failed"} /\ initialized # "sent"

ObjectInv ==
    /\ handle # "none" <=> opener = "opened"
    /\ opener = "opened" => initialized = "sent"
    /\ \A c \in Callers : call[c] # "idle" => opener = "opened"

ReasonInv ==
    /\ status \in Disconnected => task \in Over
    /\ task \in Over => status \in Disconnected \/ opener = "cancelled"
    /\ task = "failed" => radioFailed \/ ~DownlinkOpen

CallInv ==
    \A c \in Callers :
        /\ call[c] \in Woken => ChannelGone
        /\ call[c] # "still"

ConnInv ==
    TypeOK /\ HandshakeInv /\ ObjectInv /\ ReasonInv /\ ReasonJustified /\ CallInv

-----------------------------------------------------------------------------

LEMMA InitConnInv == Init => ConnInv
  <1> SUFFICES ASSUME Init PROVE ConnInv
    OBVIOUS
  <1> USE ConnectionAssumption DEF Init
  <1>1. TypeOK
    <2>1. call \in [Callers -> CallStates]
      BY DEF CallStates
    <2>2. tries \in 0..MaxTries /\ quiet \in 0..Timeout
      OBVIOUS
    <2> QED
      BY <2>1, <2>2 DEF TypeOK, TaskPlaces
  <1>2. HandshakeInv /\ ObjectInv
    BY DEF HandshakeInv, ObjectInv
  <1>3. ReasonInv /\ ReasonJustified
    BY DEF ReasonInv, ReasonJustified, Disconnected, Over
  <1>4. CallInv
    BY DEF CallInv, Woken
  <1> QED
    BY <1>1, <1>2, <1>3, <1>4 DEF ConnInv

\* The steps of the task leave the callers and their object alone.
LEMMA TaskKeepsConnInv ==
    ASSUME ConnInv, TaskStep \/ Tick PROVE ConnInv'
  <1> USE ConnectionAssumption
      DEF ConnInv, TypeOK, HandshakeInv, ObjectInv, ReasonInv, ReasonJustified,
          CallInv, TaskPlaces, InLoop, CallStates, InProgress, Disconnected,
          Over, Woken, ChannelGone, DownlinkOpen
  <1>1. CASE EnableEchoed
    BY <1>1 DEF EnableEchoed
  <1>2. CASE EnableMissed
    BY <1>2 DEF EnableMissed
  <1>3. CASE EnableFailed
    BY <1>3 DEF EnableFailed
  <1>4. CASE AnnounceConnected
    BY <1>4 DEF AnnounceConnected
  <1>5. CASE NotifyOpener
    BY <1>5 DEF NotifyOpener
  <1>6. CASE StartTransaction
    BY <1>6 DEF StartTransaction
  <1>7. CASE TimeOut
    BY <1>7 DEF TimeOut
  <1>8. CASE SomeAck
    BY <1>8 DEF SomeAck, TransactionAcked
  <1>9. CASE TransactionLost
    BY <1>9 DEF TransactionLost
  <1>10. CASE TransactionFailed
    BY <1>10 DEF TransactionFailed
  <1>11. CASE CheckDisconnect
    BY <1>11 DEF CheckDisconnect
  <1>12. CASE ReportError
    BY <1>12 DEF ReportError
  <1>13. CASE DropChannel
    BY <1>13 DEF DropChannel
  <1>14. CASE DropTask
    BY <1>14 DEF DropTask
  <1>15. CASE Tick
    BY <1>15 DEF Tick
  <1> QED
    BY <1>1, <1>2, <1>3, <1>4, <1>5, <1>6, <1>7, <1>8, <1>9, <1>10, <1>11,
       <1>12, <1>13, <1>14, <1>15 DEF TaskStep, TaskControl

LEMMA UserKeepsConnInv ==
    ASSUME ConnInv, UserStep PROVE ConnInv'
  <1> USE ConnectionAssumption
      DEF ConnInv, TypeOK, HandshakeInv, ObjectInv, ReasonInv, ReasonJustified,
          CallInv, TaskPlaces, InLoop, CallStates, InProgress, Disconnected,
          Over, Woken, ChannelGone, DownlinkOpen
  <1>1. CASE OpenReturns
    BY <1>1 DEF OpenReturns
  <1>2. CASE OpenPanics
    BY <1>2 DEF OpenPanics
  <1>3. CASE CancelOpen
    BY <1>3 DEF CancelOpen
  <1>4. CASE BeginDrop
    BY <1>4 DEF BeginDrop
  <1>5. CASE FinishDrop
    BY <1>5 DEF FinishDrop
  <1>6. ASSUME NEW c \in Callers, CallClose(c) PROVE ConnInv'
    BY <1>6 DEF CallClose
  <1>7. ASSUME NEW c \in Callers, CallWaitClose(c) PROVE ConnInv'
    BY <1>7 DEF CallWaitClose
  <1>8. ASSUME NEW c \in Callers, CloseReturns(c) PROVE ConnInv'
    BY <1>8 DEF CloseReturns
  <1>9. ASSUME NEW c \in Callers, WaitWakes(c) PROVE ConnInv'
    BY <1>9 DEF WaitWakes
  <1>10. ASSUME NEW c \in Callers, WaitReturns(c) PROVE ConnInv'
    BY <1>10 DEF WaitReturns
  <1>11. ASSUME NEW c \in Callers, CancelCall(c) PROVE ConnInv'
    BY <1>11 DEF CancelCall
  <1> QED
    BY <1>1, <1>2, <1>3, <1>4, <1>5, <1>6, <1>7, <1>8, <1>9, <1>10, <1>11
       DEF UserStep, CallReturns

LEMMA ConnInvariant == Spec => []ConnInv
  <1>1. ConnInv /\ [Next]_vars => ConnInv'
    <2> SUFFICES ASSUME ConnInv, [Next]_vars PROVE ConnInv'
      OBVIOUS
    <2>1. CASE TaskStep \/ Tick
      BY <2>1, TaskKeepsConnInv
    <2>2. CASE UserStep
      BY <2>2, UserKeepsConnInv
    <2>3. CASE UNCHANGED vars
      BY <2>3 DEF ConnInv, TypeOK, HandshakeInv, ObjectInv, ReasonInv,
                  ReasonJustified, CallInv, ChannelGone, DownlinkOpen, vars
    <2> QED
      BY <2>1, <2>2, <2>3 DEF Next
  <1> QED
    BY <1>1, InitConnInv, PTL DEF Spec

-----------------------------------------------------------------------------

\* The state of a connection keeps its types: the timeout is never overrun by
\* more than the tick that reaches it, and the handshake never tries more often
\* than it may.
THEOREM ConnectionTypes == Spec => []TypeOK
  <1>1. ConnInv => TypeOK
    BY DEF ConnInv
  <1> QED
    BY <1>1, ConnInvariant, PTL

\* However the task ends, every caller of wait_close() reads a reason.
THEOREM WaitCloseAnswers == Spec => []WaitCloseHasReason
  <1>1. ConnInv => WaitCloseHasReason
    BY DEF ConnInv, CallInv, WaitCloseHasReason
  <1> QED
    BY <1>1, ConnInvariant, PTL

\* When close() has returned to any of its callers the loop is over.
THEOREM CloseStops == Spec => []CloseMeansStopped
  <1>1. ConnInv => CloseMeansStopped
    BY DEF ConnInv, CallInv, Woken, ChannelGone, CloseMeansStopped
  <1> QED
    BY <1>1, ConnInvariant, PTL

\* The reason stored is the true one.
THEOREM ReasonIsTrue == Spec => []ReasonJustified
  <1>1. ConnInv => ReasonJustified
    BY DEF ConnInv
  <1> QED
    BY <1>1, ConnInvariant, PTL

\* open() hands out no connection that still says Connecting.
THEOREM OpenIsConnected == Spec => []OpenHandsOverConnected
  <1>1. ConnInv => OpenHandsOverConnected
    BY DEF ConnInv, HandshakeInv, ObjectInv, OpenHandsOverConnected
  <1> QED
    BY <1>1, ConnInvariant, PTL

-----------------------------------------------------------------------------
(* RadioConnection implements LinkLifecycle *)

Answered == {c \in Callers : call[c] \in {"closed", "reason", "still"}}

LEMMA StepsKeepLifecycle ==
    ASSUME ConnInv, [Next]_vars
    PROVE  [Lifecycle!LifeNext]_(Lifecycle!lifeVars)
  <1> USE DEF Lifecycle!LifeNext, Lifecycle!lifeVars, Answered
  <1>1. CASE AnnounceConnected
    BY <1>1 DEF AnnounceConnected, ConnInv, HandshakeInv, Lifecycle!Connect
  <1>2. CASE TimeOut \/ CheckDisconnect \/ ReportError
    BY <1>2 DEF TimeOut, CheckDisconnect, ReportError, ConnInv, ReasonInv,
                Over, Disconnected, Lifecycle!Disconnect
  <1>3. ASSUME NEW c \in Callers, CloseReturns(c) \/ WaitReturns(c)
        PROVE  Lifecycle!Answer
    <2>1. status \in Disconnected /\ UNCHANGED status
      BY <1>3 DEF CloseReturns, WaitReturns, ConnInv, ObjectInv, ReasonInv,
                  CallInv, Woken, ChannelGone, Over
    <2>2. Answered' = Answered \cup {c}
      BY <1>3 DEF CloseReturns, WaitReturns, ConnInv, TypeOK
    <2> QED
      BY <2>1, <2>2 DEF Lifecycle!Answer
  <1>4. ASSUME NEW c \in Callers,
               CallClose(c) \/ CallWaitClose(c) \/ WaitWakes(c) \/ CancelCall(c)
        PROVE  UNCHANGED <<status, Answered>>
    BY <1>4 DEF CallClose, CallWaitClose, WaitWakes, CancelCall, InProgress,
                ConnInv, TypeOK
  <1>5. CASE \/ EnableEchoed \/ EnableMissed \/ EnableFailed \/ NotifyOpener
             \/ StartTransaction \/ SomeAck \/ TransactionLost
             \/ TransactionFailed \/ DropChannel \/ DropTask \/ Tick
    BY <1>5 DEF EnableEchoed, EnableMissed, EnableFailed, NotifyOpener,
                StartTransaction, SomeAck, TransactionAcked, TransactionLost,
                TransactionFailed, DropChannel, DropTask, Tick
  <1>6. CASE OpenReturns \/ OpenPanics \/ CancelOpen \/ BeginDrop \/ FinishDrop
    BY <1>6 DEF OpenReturns, OpenPanics, CancelOpen, BeginDrop, FinishDrop
  <1>7. CASE UNCHANGED vars
    BY <1>7 DEF vars
  <1> QED
    BY <1>1, <1>2, <1>3, <1>4, <1>5, <1>6, <1>7
       DEF Next, TaskStep, TaskControl, UserStep, CallReturns

\* A radio connection is a connection in the sense of connection.rs: whatever
\* the radio and the callers do, its status ends in one reason that is final,
\* and nobody is told that it ended before that reason is there to read.
THEOREM RadioKeepsLifecycle == Spec => LifecycleKept
  <1>1. Init => Lifecycle!LifeInit
    BY DEF Init, Lifecycle!LifeInit
  <1>2. ConnInv /\ [Next]_vars => [Lifecycle!LifeNext]_(Lifecycle!lifeVars)
    BY StepsKeepLifecycle
  <1> QED
    BY <1>1, <1>2, ConnInvariant, PTL DEF Spec, LifecycleKept, Lifecycle!LifeSpec

-----------------------------------------------------------------------------
(* RadioLink *)

\* The task has a link up, or is about to say so.
Running == {"connect", "notify"} \cup InLoop

\* The packets taken off the uplink channel, and those the Crazyflie has put
\* in a payload.
TakenUp == sent - Len(uplink)
TakenDown == cfSent - Len(cfQueue)

\* A packet is on its way to the Crazyflie, as far as the task knows.
Pending == task = "air" \/ needsResend

(***************************************************************************)
(* The inductive invariant.  Both queues hold the numbers that follow what *)
(* was taken off them.  Nothing but the handshake crosses the link before  *)
(* it ends, and its echo finds the Crazyflie's counters at 1.  Then, with  *)
(* safelink, comparing two counters tells whether the packet, or the       *)
(* payload, that is under way has already arrived.                         *)
(***************************************************************************)
Follows(q, n) == \A i \in DOMAIN q : q[i] = n + i

QueueInv ==
    /\ Len(uplink) <= sent /\ Follows(uplink, TakenUp)
    /\ Len(cfQueue) <= cfSent /\ Follows(cfQueue, TakenDown)

BeforeInv ==
    task = "enable" =>
        /\ ~safelink /\ ~needsResend
        /\ sent = 0 /\ uplink = << >>
        /\ cfHeard = << >> /\ downlink = << >>
        /\ cfSent = Len(cfQueue)
        /\ ack # NoAck => /\ cfSafelink /\ cfUp = 1 /\ cfDown = 1
                          /\ cfLast = EnablePacket

PacketInv ==
    /\ packet.kind \in {"null", "data"}
    /\ ack # NoAck /\ task \in Running => task = "air"

\* cfUp = upCtr: the Crazyflie has taken the pending packet.
UpInv ==
    safelink /\ task \in Running =>
        /\ cfSafelink
        /\ Pending /\ packet.kind = "data" => packet.id = TakenUp
        /\ cfUp # upCtr =>
              Len(cfHeard) = IF Pending /\ packet.kind = "data"
                               THEN TakenUp - 1 ELSE TakenUp
        /\ cfUp = upCtr => Len(cfHeard) = TakenUp /\ Pending
        /\ ack # NoAck => cfUp = upCtr

\* cfDown = downCtr: the task has still to accept the last payload.
DownInv ==
    safelink /\ task \in Running =>
        /\ cfLast.down = cfDown
        /\ cfDown # downCtr => Len(downlink) = TakenDown /\ ack = NoAck
        /\ cfDown = downCtr =>
              Len(downlink) = IF cfLast.kind = "data"
                                THEN TakenDown - 1 ELSE TakenDown
        /\ cfLast.kind = "data" => cfLast.id = TakenDown \/ cfDown # downCtr
        /\ ack # NoAck => ack = cfLast \/ ack.down # downCtr

LinkInv ==
    /\ ConnInv /\ LinkTypeOK
    /\ QueueInv /\ BeforeInv /\ PacketInv /\ UpInv /\ DownInv

-----------------------------------------------------------------------------
(* The link runs the task of RadioConnection *)

LEMMA LinkStepIsStep == [LinkNext]_linkVars => [Next]_vars
  <1> SUFFICES ASSUME [LinkNext]_linkVars PROVE [Next]_vars
    OBVIOUS
  <1>1. CASE LinkTask
    BY <1>1 DEF LinkTask, LinkEnableEchoed, LinkEnableMissed, LinkStart,
                LinkAcked, LinkLost, LinkControl, Next, TaskStep, SomeAck,
                ShouldHandle, AckPayload, PayloadIsNew, HasNullHeader
  <1>2. CASE RadioDelivers \/ CfSend \/ SendPacket
    BY <1>2 DEF RadioDelivers, CfHears, CfSend, SendPacket
  <1>3. CASE LinkUser
    BY <1>3 DEF LinkUser, Next
  <1>4. CASE UNCHANGED linkVars
    BY <1>4 DEF linkVars
  <1> QED
    BY <1>1, <1>2, <1>3, <1>4 DEF LinkNext

\* Every behaviour of the link is one of its control part: what is proved of
\* RadioConnection holds of the link too.
THEOREM LinkIsConnection == LinkSpec => Spec
  <1>1. LinkInit => Init
    BY DEF LinkInit
  <1> QED
    BY <1>1, LinkStepIsStep, PTL DEF LinkSpec, Spec

-----------------------------------------------------------------------------
(* Types *)

LEMMA PacketsTyped ==
    /\ NullPacket \in UpPackets /\ EnablePacket \in UpPackets
    /\ EnablePacket \in Payloads /\ NoPayload \in Payloads
    /\ \A n \in Nat : DataPacket(n) \in UpPackets
  BY DEF NullPacket, EnablePacket, NoPayload, DataPacket, Packet, UpPackets,
         Payloads, Bit

LEMMA OnAirTyped ==
    ASSUME packet \in UpPackets, upCtr \in Bit, downCtr \in Bit
    PROVE  /\ OnAir \in UpPackets
           /\ task = "air" /\ safelink =>
                 /\ OnAir.kind = packet.kind /\ OnAir.id = packet.id
                 /\ OnAir.up = upCtr /\ OnAir.down = downCtr
  BY PacketsTyped DEF OnAir, WithCounters, UpPackets, Bit

LEMMA AnswersTyped ==
    ASSUME cfQueue \in Seq(Nat), NEW down \in Bit,
           NEW answer \in CfAnswers(down)
    PROVE  /\ answer \in Payloads
           /\ answer.down = down
           /\ answer.kind = "data" <=> cfQueue # << >>
           /\ cfQueue # << >> => answer.id = Head(cfQueue)
  <1>1. CASE cfQueue # << >>
    <2>1. answer = Packet("data", Head(cfQueue), 0, down)
      BY <1>1 DEF CfAnswers
    <2>2. Head(cfQueue) \in Nat
      BY <1>1
    <2> QED
      BY <1>1, <2>1, <2>2 DEF Packet, Payloads, Bit
  <1>2. CASE cfQueue = << >>
    <2>1. PICK kind \in CfIdleKinds : answer = Packet(kind, 0, 0, down)
      BY <1>2 DEF CfAnswers
    <2>2. kind \in {"null", "platform", "empty"}
      BY LinkAssumption DEF CfIdleKinds
    <2> QED
      BY <1>2, <2>1, <2>2 DEF Packet, Payloads, Bit
  <1> QED
    BY <1>1, <1>2

LEMMA LinkInitTyped == LinkInit => LinkTypeOK
  <1> SUFFICES ASSUME LinkInit PROVE LinkTypeOK
    OBVIOUS
  <1>1. TypeOK
    BY InitConnInv DEF LinkInit, ConnInv
  <1>2. cfLast \in Payloads /\ cfUp \in Bit /\ cfDown \in Bit
    BY DEF LinkInit, CfLeftovers, EnablePacket, Packet, Payloads, Bit
  <1>3. /\ uplink \in Seq(Nat) /\ cfHeard \in Seq(Nat)
        /\ cfQueue \in Seq(Nat) /\ downlink \in Seq(Nat)
    BY DEF LinkInit
  <1>4. upCtr \in Bit /\ downCtr \in Bit /\ packet \in UpPackets
    BY PacketsTyped DEF LinkInit, Bit
  <1> QED
    BY <1>1, <1>2, <1>3, <1>4 DEF LinkInit, LinkTypeOK

LEMMA LinkStepTyped ==
    ASSUME LinkTypeOK, TypeOK', [LinkNext]_linkVars PROVE LinkTypeOK'
  <1> USE DEF LinkTypeOK, hostVars, cfVars
  <1>1. CASE LinkEnableEchoed
    BY <1>1 DEF LinkEnableEchoed, Bit
  <1>2. CASE LinkEnableMissed \/ LinkControl \/ LinkUser
    <2>1. UNCHANGED <<hostVars, cfVars>> /\ ack' \in {ack, NoAck}
      BY <1>2 DEF LinkEnableMissed, LinkControl, LinkUser
    <2> QED
      BY <2>1
  <1>3. CASE LinkStart
    <2>1. packet' \in UpPackets /\ uplink' \in Seq(Nat)
      <3>1. uplink # << >> => Head(uplink) \in Nat /\ Tail(uplink) \in Seq(Nat)
        OBVIOUS
      <3> QED
        BY <1>3, <3>1, PacketsTyped DEF LinkStart, PickPacket
    <2> QED
      BY <1>3, <2>1 DEF LinkStart
  <1>4. CASE LinkAcked
    <2>1. upCtr' \in Bit /\ downCtr' \in Bit
      BY <1>4 DEF LinkAcked, NextUp, NextDown, Bit
    <2>2. downlink' \in Seq(Nat)
      BY <1>4, PacketsTyped DEF LinkAcked, AckPayload, Payloads, NoAck, Packet
    <2> QED
      BY <1>4, <2>1, <2>2 DEF LinkAcked
  <1>5. CASE LinkLost
    BY <1>5 DEF LinkLost
  <1>6. CASE RadioDelivers
    <2>1. CfHears(OnAir) /\ OnAir \in UpPackets
      BY <1>6, OnAirTyped DEF RadioDelivers
    <2>2. CASE CfEnables
      BY <2>1, <2>2, PacketsTyped DEF CfHears, CfEnables, Bit
    <2>3. CASE CfAccepts(OnAir)
      <3>1. cfUp' \in Bit /\ cfDown' \in Bit
        BY <2>3 DEF CfAccepts, Bit
      <3>2. cfHeard' \in Seq(Nat)
        BY <2>1, <2>3 DEF CfAccepts, UpPackets
      <3>3. cfLast' \in Payloads
        BY <2>3, <3>1, AnswersTyped DEF CfAccepts
      <3>4. cfQueue' \in Seq(Nat)
        <4>1. cfQueue # << >> => Tail(cfQueue) \in Seq(Nat)
          OBVIOUS
        <4> QED
          BY <2>3, <4>1 DEF CfAccepts
      <3> QED
        BY <2>1, <2>3, <3>1, <3>2, <3>3, <3>4 DEF CfHears, CfAccepts
    <2> QED
      BY <2>1, <2>2, <2>3 DEF CfHears
  <1>7. CASE CfSend
    <2>1. cfSent' \in Nat /\ cfQueue' \in Seq(Nat)
      BY <1>7 DEF CfSend
    <2> QED
      BY <1>7, <2>1 DEF CfSend
  <1>8. CASE SendPacket
    <2>1. sent' \in Nat /\ uplink' \in Seq(Nat)
      BY <1>8 DEF SendPacket
    <2> QED
      BY <1>8, <2>1 DEF SendPacket
  <1>9. CASE UNCHANGED linkVars
    BY <1>9 DEF linkVars
  <1> QED
    BY <1>1, <1>2, <1>3, <1>4, <1>5, <1>6, <1>7, <1>8, <1>9
       DEF LinkNext, LinkTask

-----------------------------------------------------------------------------
(* Queues *)

LEMMA FollowsTail ==
    ASSUME NEW q \in Seq(Nat), q # << >>, NEW n \in Nat, Follows(q, n)
    PROVE  /\ Head(q) = n + 1
           /\ Len(q) \in Nat \ {0} /\ Len(Tail(q)) = Len(q) - 1
           /\ Tail(q) \in Seq(Nat) /\ Follows(Tail(q), n + 1)
  <1>1. Len(q) \in Nat \ {0} /\ Tail(q) \in Seq(Nat) /\ Head(q) = q[1]
        /\ Len(Tail(q)) = Len(q) - 1
    OBVIOUS
  <1>2. \A i \in DOMAIN Tail(q) : i + 1 \in DOMAIN q /\ Tail(q)[i] = q[i + 1]
    BY <1>1
  <1> QED
    BY <1>1, <1>2 DEF Follows

LEMMA FollowsAppend ==
    ASSUME NEW q \in Seq(Nat), NEW n \in Nat, Follows(q, n)
    PROVE  /\ Len(Append(q, n + Len(q) + 1)) = Len(q) + 1
           /\ Follows(Append(q, n + Len(q) + 1), n)
  BY DEF Follows

LEMMA QueueStep ==
    ASSUME LinkTypeOK, QueueInv, [LinkNext]_linkVars PROVE QueueInv'
  <1> DEFINE upKept == UNCHANGED <<sent, uplink>>
             downKept == UNCHANGED <<cfSent, cfQueue>>
  <1> USE DEF LinkTypeOK, QueueInv, TakenUp, TakenDown, hostVars, cfVars
  <1>0. TakenUp \in Nat /\ TakenDown \in Nat
    OBVIOUS
  <1>1. CASE upKept /\ downKept
    BY <1>1 DEF Follows
  <1>2. CASE LinkStart
    <2>1. downKept
      BY <1>2 DEF LinkStart
    <2>2. CASE UNCHANGED uplink
      BY <1>1, <1>2, <2>1, <2>2 DEF LinkStart
    <2>3. CASE uplink # << >> /\ uplink' = Tail(uplink)
      <3>1. UNCHANGED sent /\ TakenUp' = TakenUp + 1
        BY <1>0, <1>2, <2>3, FollowsTail DEF LinkStart
      <3>2. Len(uplink') <= sent' /\ Follows(uplink', TakenUp')
        BY <1>0, <2>3, <3>1, FollowsTail
      <3>3. Len(cfQueue') <= cfSent' /\ Follows(cfQueue', TakenDown')
        BY <2>1
      <3> QED
        BY <3>2, <3>3
    <2> QED
      BY <1>2, <2>2, <2>3 DEF LinkStart, PickPacket
  <1>3. CASE RadioDelivers
    <2>1. upKept /\ UNCHANGED cfSent
      BY <1>3 DEF RadioDelivers, CfHears
    <2>2. CASE UNCHANGED cfQueue
      BY <1>1, <2>1, <2>2
    <2>3. CASE cfQueue # << >> /\ cfQueue' = Tail(cfQueue)
      <3>1. TakenDown' = TakenDown + 1
        BY <1>0, <2>1, <2>3, FollowsTail
      <3>2. Len(cfQueue') <= cfSent' /\ Follows(cfQueue', TakenDown')
        BY <1>0, <2>1, <2>3, <3>1, FollowsTail
      <3>3. Len(uplink') <= sent' /\ Follows(uplink', TakenUp')
        BY <2>1
      <3> QED
        BY <3>2, <3>3
    <2> QED
      BY <1>3, <2>2, <2>3
         DEF RadioDelivers, CfHears, CfEnables, CfAccepts
  <1>4. CASE CfSend
    <2>1. upKept /\ cfSent' = cfSent + 1
          /\ cfQueue' = Append(cfQueue, TakenDown + Len(cfQueue) + 1)
      BY <1>4 DEF CfSend
    <2>2. Len(cfQueue') = Len(cfQueue) + 1 /\ TakenDown' = TakenDown
      BY <1>0, <2>1, FollowsAppend
    <2> QED
      BY <1>0, <2>1, <2>2, FollowsAppend DEF Follows
  <1>5. CASE SendPacket
    <2>1. downKept /\ sent' = sent + 1
          /\ uplink' = Append(uplink, TakenUp + Len(uplink) + 1)
      BY <1>5 DEF SendPacket
    <2>2. Len(uplink') = Len(uplink) + 1 /\ TakenUp' = TakenUp
      BY <1>0, <2>1, FollowsAppend
    <2> QED
      BY <1>0, <2>1, <2>2, FollowsAppend DEF Follows
  <1>6. CASE \/ LinkEnableEchoed \/ LinkEnableMissed \/ LinkAcked \/ LinkLost
             \/ LinkControl \/ LinkUser \/ UNCHANGED linkVars
    BY <1>1, <1>6 DEF LinkEnableEchoed, LinkEnableMissed, LinkAcked, LinkLost,
                      LinkControl, LinkUser, linkVars
  <1> QED
    BY <1>2, <1>3, <1>4, <1>5, <1>6 DEF LinkNext, LinkTask

-----------------------------------------------------------------------------
(* Where the task goes *)

\* A step that leaves the packets alone ends no handshake and starts or ends
\* no transaction of a running link.
LEMMA ControlMoves ==
    ASSUME LinkControl \/ LinkUser \/ UNCHANGED linkVars
    PROVE  /\ UNCHANGED <<hostVars, cfVars, ack, safelink>>
           /\ task' = "enable" => task = "enable"
           /\ task' \in Running =>
                 task \in Running /\ (task' = "air" <=> task = "air")
  <1> USE DEF Running, InLoop
  <1>1. CASE LinkControl
    BY <1>1 DEF LinkControl, TaskControl, EnableFailed, AnnounceConnected,
       NotifyOpener, TimeOut, TransactionFailed, CheckDisconnect, ReportError,
       DropChannel, DropTask
  <1>2. CASE LinkUser
    BY <1>2 DEF LinkUser, Tick, UserStep, CallReturns, OpenReturns, OpenPanics,
       CancelOpen, CallClose, CloseReturns, CallWaitClose, WaitWakes,
       WaitReturns, CancelCall, BeginDrop, FinishDrop
  <1>3. CASE UNCHANGED linkVars
    BY <1>3 DEF linkVars, vars
  <1> QED
    BY <1>1, <1>2, <1>3

LEMMA BeforeStep ==
    ASSUME ConnInv, LinkTypeOK, BeforeInv, [LinkNext]_linkVars PROVE BeforeInv'
  <1> SUFFICES ASSUME task' = "enable"
               PROVE  /\ ~safelink' /\ ~needsResend'
                      /\ sent' = 0 /\ uplink' = << >>
                      /\ cfHeard' = << >> /\ downlink' = << >>
                      /\ cfSent' = Len(cfQueue')
                      /\ ack' # NoAck => /\ cfSafelink' /\ cfUp' = 1
                                         /\ cfDown' = 1
                                         /\ cfLast' = EnablePacket
    BY DEF BeforeInv
  <1> USE DEF BeforeInv, hostVars, cfVars
  <1>1. CASE LinkControl \/ LinkUser \/ UNCHANGED linkVars
    BY <1>1, ControlMoves
  <1>2. CASE LinkEnableMissed
    BY <1>2 DEF LinkEnableMissed, EnableMissed
  <1>3. CASE LinkEnableEchoed \/ LinkStart \/ LinkAcked \/ LinkLost
    BY <1>3 DEF LinkEnableEchoed, EnableEchoed, LinkStart, StartTransaction,
                LinkAcked, TransactionAcked, LinkLost, TransactionLost
  <1>4. CASE RadioDelivers
    <2>1. task = "enable" /\ CfEnables /\ UNCHANGED <<vars, hostVars, cfSent>>
      BY <1>4 DEF RadioDelivers, CfHears, OnAir, EnablePacket, Packet, vars
    <2> QED
      BY <2>1 DEF CfEnables, vars
  <1>5. CASE CfSend
    BY <1>5 DEF CfSend, vars, LinkTypeOK
  <1>6. CASE SendPacket
    BY <1>6 DEF SendPacket, vars, ConnInv, HandshakeInv, ObjectInv
  <1> QED
    BY <1>1, <1>2, <1>3, <1>4, <1>5, <1>6 DEF LinkNext, LinkTask

LEMMA PacketStep ==
    ASSUME PacketInv, [LinkNext]_linkVars PROVE PacketInv'
  <1> USE DEF PacketInv, hostVars, cfVars
  <1>1. CASE LinkControl \/ LinkUser \/ UNCHANGED linkVars
    BY <1>1, ControlMoves
  <1>2. CASE LinkEnableEchoed \/ LinkEnableMissed \/ LinkAcked \/ LinkLost
    BY <1>2 DEF LinkEnableEchoed, LinkEnableMissed, LinkAcked, LinkLost
  <1>3. CASE LinkStart
    BY <1>3 DEF LinkStart, StartTransaction, PickPacket, NullPacket, DataPacket,
                Packet, Running, InLoop
  <1>4. CASE RadioDelivers
    BY <1>4 DEF RadioDelivers, CfHears, vars, Running, InLoop
  <1>5. CASE CfSend \/ SendPacket
    BY <1>5 DEF CfSend, SendPacket, vars
  <1> QED
    BY <1>1, <1>2, <1>3, <1>4, <1>5 DEF LinkNext, LinkTask

-----------------------------------------------------------------------------
(* The two directions *)

LEMMA UpStep ==
    ASSUME LinkTypeOK, QueueInv, BeforeInv, PacketInv, UpInv,
           [LinkNext]_linkVars
    PROVE  UpInv'
  <1> USE DEF UpInv, Pending, TakenUp, hostVars, cfVars
  <1>0. /\ TakenUp \in Nat /\ Len(uplink) \in Nat /\ Len(cfHeard) \in Nat
        /\ upCtr \in {0, 1} /\ cfUp \in {0, 1}
    BY DEF LinkTypeOK, QueueInv, Bit
  <1>1. CASE LinkControl \/ LinkUser \/ UNCHANGED linkVars
    BY <1>1, ControlMoves
  <1>2. CASE LinkEnableEchoed
    BY <1>2 DEF LinkEnableEchoed, EnableEchoed, BeforeInv, EnablePacket, NoAck,
                Packet
  <1>3. CASE LinkEnableMissed
    BY <1>3 DEF LinkEnableMissed, EnableMissed, BeforeInv
  <1>4. CASE LinkStart
    <2>1. task = "top" /\ task' = "air"
          /\ UNCHANGED <<safelink, upCtr, needsResend, sent, cfVars, ack>>
      BY <1>4 DEF LinkStart, StartTransaction
    <2>2. CASE needsResend
      BY <1>4, <2>1, <2>2 DEF LinkStart, PickPacket, Running, InLoop
    <2>3. CASE ~needsResend /\ uplink = << >>
      BY <1>4, <2>1, <2>3 DEF LinkStart, PickPacket, NullPacket, Packet,
                              Running, InLoop
    <2>4. CASE ~needsResend /\ uplink # << >>
      <3>1. packet' = DataPacket(Head(uplink)) /\ uplink' = Tail(uplink)
        BY <1>4, <2>4 DEF LinkStart, PickPacket
      <3>2. packet'.kind = "data" /\ packet'.id = TakenUp + 1
            /\ Len(uplink') = Len(uplink) - 1
        BY <1>0, <2>4, <3>1, FollowsTail
           DEF LinkTypeOK, QueueInv, DataPacket, Packet
      <3>3. TakenUp' = TakenUp + 1 /\ TakenUp \in Nat
        BY <1>0, <2>1, <3>2 DEF LinkTypeOK
      <3>4. safelink => /\ cfSafelink /\ cfUp # upCtr /\ ack = NoAck
                        /\ Len(cfHeard) = TakenUp
        BY <2>1, <2>4 DEF Running, InLoop
      <3> HIDE DEF TakenUp
      <3> QED
        BY <2>1, <3>2, <3>3, <3>4
    <2> QED
      BY <2>2, <2>3, <2>4
  <1>5. CASE LinkAcked
    <2>1. task = "air" /\ UNCHANGED safelink /\ task' \notin {"air"}
      BY <1>5 DEF LinkAcked, TransactionAcked
    <2> QED
      BY <1>0, <1>5, <2>1 DEF LinkAcked, NextUp, Running, InLoop
  <1>6. CASE LinkLost
    BY <1>6 DEF LinkLost, TransactionLost, Running, InLoop
  <1>7. CASE RadioDelivers
    <2> SUFFICES ASSUME safelink, task \in Running PROVE UpInv'
      BY <1>7 DEF RadioDelivers, CfHears, vars
    <2>1. /\ task = "air" /\ cfSafelink
          /\ UNCHANGED <<vars, hostVars, cfSent>>
          /\ OnAir.kind = packet.kind /\ OnAir.id = packet.id
          /\ OnAir.up = upCtr /\ OnAir.kind # "enable"
      BY <1>7, OnAirTyped
         DEF RadioDelivers, CfHears, LinkTypeOK, PacketInv, Running, InLoop
    <2>2. CfAccepts(OnAir)
      BY <1>7, <2>1 DEF RadioDelivers, CfHears
    <2>3. CASE cfUp = upCtr
      BY <2>1, <2>2, <2>3 DEF CfAccepts, CfTakes, vars
    <2>4. CASE cfUp # upCtr
      <3>1. cfUp' = upCtr
        BY <1>0, <2>1, <2>2, <2>4 DEF CfAccepts, CfTakes
      <3>2. Len(cfHeard') = IF packet.kind = "data"
                              THEN Len(cfHeard) + 1 ELSE Len(cfHeard)
        BY <2>1, <2>2, <2>4 DEF CfAccepts, CfTakes, LinkTypeOK
      <3>3. Len(cfHeard') = TakenUp
        BY <1>0, <2>1, <2>4, <3>2 DEF Running
      <3> QED
        BY <2>1, <2>2, <3>1, <3>3 DEF CfAccepts, vars
    <2> QED
      BY <2>3, <2>4
  <1>8. CASE CfSend
    BY <1>8 DEF CfSend, vars
  <1>9. CASE SendPacket
    <2>1. Len(uplink') = Len(uplink) + 1 /\ sent' = sent + 1
      BY <1>9 DEF SendPacket, LinkTypeOK
    <2>2. TakenUp' = TakenUp
      BY <1>0, <2>1 DEF LinkTypeOK
    <2> HIDE DEF TakenUp
    <2> QED
      BY <1>9, <2>2 DEF SendPacket, vars
  <1> QED
    BY <1>1, <1>2, <1>3, <1>4, <1>5, <1>6, <1>7, <1>8, <1>9
       DEF LinkNext, LinkTask

\* While the link runs with safelink the payload the task looks at is data
\* only if it is the one still to be delivered.
LEMMA DownStep ==
    ASSUME LinkTypeOK, QueueInv, BeforeInv, PacketInv, UpInv, DownInv,
           [LinkNext]_linkVars
    PROVE  DownInv'
  <1> USE DEF DownInv, TakenDown, hostVars, cfVars
  <1>0. /\ TakenDown \in Nat /\ Len(cfQueue) \in Nat /\ Len(downlink) \in Nat
        /\ downCtr \in {0, 1} /\ cfDown \in {0, 1}
    BY DEF LinkTypeOK, QueueInv, Bit
  <1>1. CASE LinkControl \/ LinkUser \/ UNCHANGED linkVars
    BY <1>1, ControlMoves
  <1>2. CASE LinkEnableEchoed
    <2>1. cfSent - Len(cfQueue) = 0
      BY <1>2 DEF LinkEnableEchoed, EnableEchoed, BeforeInv, LinkTypeOK
    <2> QED
      BY <1>2, <2>1 DEF LinkEnableEchoed, EnableEchoed, BeforeInv,
                EnablePacket, NoAck, Packet
  <1>3. CASE LinkEnableMissed
    BY <1>3 DEF LinkEnableMissed, EnableMissed, BeforeInv
  <1>4. CASE LinkStart
    BY <1>4 DEF LinkStart, StartTransaction, Running, InLoop
  <1>5. CASE LinkAcked
    <2> SUFFICES ASSUME safelink, task' \in Running PROVE DownInv'
      BY <1>5 DEF LinkAcked, TransactionAcked
    <2>1. /\ task = "air" /\ UNCHANGED <<safelink, cfVars>>
          /\ ack # NoAck /\ ack' = NoAck /\ cfDown = downCtr
      BY <1>5 DEF LinkAcked, TransactionAcked, Running, InLoop
    <2>2. CASE PayloadIsNew
      <3>1. downCtr' = 1 - downCtr /\ AckPayload = ack
        BY <1>5, <2>1, <2>2 DEF LinkAcked, NextDown, AckPayload
      <3>2. ack = cfLast
        BY <2>1, <2>2 DEF PayloadIsNew, Running, InLoop
      <3>3. CASE cfLast.kind = "data"
        <4>1. ShouldHandle(AckPayload)
          BY <2>1, <3>1, <3>2, <3>3 DEF ShouldHandle, HasNullHeader
        <4>2. DownlinkOpen
          BY <1>5, <4>1 DEF LinkAcked, TransactionAcked, Running, InLoop
        <4>3. downlink' = Append(downlink, ack.id)
          BY <1>5, <3>1, <3>2, <3>3, <4>1, <4>2 DEF LinkAcked
        <4>4. Len(downlink') = Len(downlink) + 1
          BY <4>3 DEF LinkTypeOK
        <4> QED
          BY <1>0, <2>1, <3>1, <3>3, <4>4 DEF Running, InLoop
      <3>4. CASE cfLast.kind # "data"
        <4>1. UNCHANGED downlink
          BY <1>5, <3>1, <3>2, <3>4 DEF LinkAcked
        <4> QED
          BY <1>0, <2>1, <3>1, <3>4, <4>1 DEF Running, InLoop
      <3> QED
        BY <3>3, <3>4
    <2>3. CASE ~PayloadIsNew
      <3>1. UNCHANGED <<downCtr, downlink>>
        BY <1>5, <2>1, <2>3 DEF LinkAcked, NextDown, AckPayload, ShouldHandle,
                                NoPayload, Packet
      <3> QED
        BY <2>1, <3>1 DEF Running, InLoop
    <2> QED
      BY <2>2, <2>3
  <1>6. CASE LinkLost
    BY <1>6 DEF LinkLost, TransactionLost, Running, InLoop
  <1>7. CASE RadioDelivers
    <2> SUFFICES ASSUME safelink, task \in Running PROVE DownInv'
      BY <1>7 DEF RadioDelivers, CfHears, vars
    <2>1. /\ task = "air" /\ cfSafelink
          /\ UNCHANGED <<vars, hostVars, cfSent>>
          /\ OnAir.down = downCtr /\ OnAir.kind # "enable"
          /\ ack' \in {cfLast, cfLast'}
      BY <1>7, OnAirTyped
         DEF RadioDelivers, CfHears, LinkTypeOK, PacketInv, UpInv, Running,
             InLoop
    <2>2. CfAccepts(OnAir)
      BY <1>7, <2>1 DEF RadioDelivers, CfHears
    <2>3. CASE cfDown = downCtr
      BY <2>1, <2>2, <2>3 DEF CfAccepts, CfMovesOn, vars
    <2>4. CASE cfDown # downCtr
      <3>1. cfDown' = downCtr /\ cfDown' \in Bit
        BY <1>0, <2>1, <2>2, <2>4 DEF CfAccepts, CfMovesOn, Bit
      <3>2. cfLast' \in CfAnswers(cfDown')
            /\ cfQueue' = IF cfQueue = << >> THEN << >> ELSE Tail(cfQueue)
        BY <2>1, <2>2, <2>4 DEF CfAccepts, CfMovesOn
      <3>3. /\ cfLast'.down = cfDown'
            /\ cfLast'.kind = "data" <=> cfQueue # << >>
            /\ cfQueue # << >> => cfLast'.id = Head(cfQueue)
        BY <3>1, <3>2, AnswersTyped DEF LinkTypeOK
      <3>4. /\ Len(downlink) = TakenDown /\ cfLast.down = cfDown
            /\ cfDown \in {0, 1} /\ cfDown # downCtr
        BY <1>0, <2>4
      <3>5. CASE cfQueue = << >>
        BY <1>0, <2>1, <3>1, <3>2, <3>3, <3>4, <3>5 DEF vars
      <3>6. CASE cfQueue # << >>
        <4>1. Head(cfQueue) = TakenDown + 1 /\ TakenDown' = TakenDown + 1
          BY <1>0, <2>1, <3>2, <3>6, FollowsTail DEF LinkTypeOK, QueueInv
        <4> QED
          BY <1>0, <2>1, <3>1, <3>3, <3>4, <3>6, <4>1 DEF vars
      <3> QED
        BY <3>5, <3>6
    <2> QED
      BY <2>3, <2>4
  <1>8. CASE CfSend
    <2>1. Len(cfQueue') = Len(cfQueue) + 1 /\ cfSent' = cfSent + 1
      BY <1>8 DEF CfSend, LinkTypeOK
    <2>2. TakenDown' = TakenDown
      BY <1>0, <2>1 DEF LinkTypeOK
    <2> QED
      BY <1>8, <2>2 DEF CfSend, vars
  <1>9. CASE SendPacket
    BY <1>9 DEF SendPacket, vars
  <1> QED
    BY <1>1, <1>2, <1>3, <1>4, <1>5, <1>6, <1>7, <1>8, <1>9
       DEF LinkNext, LinkTask

-----------------------------------------------------------------------------
(* The invariant and what it shows *)

LEMMA InitLinkInv == LinkInit => LinkInv
  <1> SUFFICES ASSUME LinkInit PROVE LinkInv
    OBVIOUS
  <1>1. ConnInv /\ LinkTypeOK
    BY InitConnInv, LinkInitTyped DEF LinkInit
  <1>2. QueueInv
    BY DEF LinkInit, QueueInv, Follows, TakenUp, TakenDown
  <1>3. BeforeInv /\ PacketInv
    BY DEF LinkInit, Init, BeforeInv, PacketInv, NullPacket, Packet
  <1>4. UpInv /\ DownInv
    BY DEF LinkInit, Init, UpInv, DownInv
  <1> QED
    BY <1>1, <1>2, <1>3, <1>4 DEF LinkInv

LEMMA LinkInvariant == LinkSpec => []LinkInv
  <1>1. LinkInv /\ ConnInv' /\ [LinkNext]_linkVars => LinkInv'
    <2> SUFFICES ASSUME LinkInv, ConnInv', [LinkNext]_linkVars PROVE LinkInv'
      OBVIOUS
    <2>1. LinkTypeOK'
      BY LinkStepTyped DEF LinkInv, ConnInv
    <2>2. QueueInv' /\ BeforeInv' /\ PacketInv'
      BY QueueStep, BeforeStep, PacketStep DEF LinkInv
    <2>3. UpInv' /\ DownInv'
      BY UpStep, DownStep DEF LinkInv
    <2> QED
      BY <2>1, <2>2, <2>3 DEF LinkInv
  <1>2. LinkSpec => []ConnInv
    BY LinkIsConnection, ConnInvariant, PTL
  <1> QED
    BY <1>1, <1>2, InitLinkInv, PTL DEF LinkSpec

\* Counters stay bits and packets stay packets, whatever crosses the link.
THEOREM LinkTypes == LinkSpec => []LinkTypeOK
  <1>1. LinkInv => LinkTypeOK
    BY DEF LinkInv
  <1> QED
    BY <1>1, LinkInvariant, PTL

\* The task never goes on to the next packet before the Crazyflie has taken
\* the last one.
THEOREM AckedMeansTaken == LinkSpec => []AckedIsTaken
  <1>1. LinkInv => AckedIsTaken
    BY DEF LinkInv, UpInv, AckedIsTaken, Pending, TakenUp, Running, InLoop
  <1> QED
    BY <1>1, LinkInvariant, PTL

\* The Crazyflie never lets go of a packet the task has still to deliver.
THEOREM LetGoMeansDelivered == LinkSpec => []LetGoIsDelivered
  <1>1. LinkInv => LetGoIsDelivered
    <2> SUFFICES ASSUME LinkInv, safelink, task \in InLoop
                 PROVE  TakenDown <= Len(downlink)
                          + (IF cfLast.kind = "data" /\ cfDown = downCtr
                               THEN 1 ELSE 0)
      BY DEF LetGoIsDelivered, TakenDown
    <2>1. TakenDown \in Int /\ Len(downlink) \in Nat
      BY DEF LinkInv, LinkTypeOK, TakenDown
    <2>2. /\ cfDown # downCtr => Len(downlink) = TakenDown
          /\ cfDown = downCtr =>
               Len(downlink) = IF cfLast.kind = "data"
                                 THEN TakenDown - 1 ELSE TakenDown
      BY DEF LinkInv, DownInv, Running
    <2> QED
      BY <2>1, <2>2
  <1> QED
    BY <1>1, LinkInvariant, PTL

-----------------------------------------------------------------------------
(* Each direction implements ReliableStream *)

LEMMA UpSteps ==
    ASSUME LinkInv, [LinkNext]_linkVars
    PROVE  [Up!StreamNext]_(Up!streamVars)
  <1> USE DEF Up!StreamNext, Up!streamVars, hostVars, cfVars
  <1>1. CASE LinkEnableEchoed
    BY <1>1 DEF LinkEnableEchoed, EnableEchoed, LinkInv, BeforeInv, Up!Protect
  <1>2. CASE SendPacket
    BY <1>2 DEF SendPacket, vars, Up!Submit
  <1>3. CASE RadioDelivers
    <2>1. UNCHANGED <<safelink, sent>>
      BY <1>3 DEF RadioDelivers, CfHears, vars
    <2>2. CASE ~safelink
      BY <2>1, <2>2 DEF Up!Unprotected
    <2>3. CASE safelink /\ UNCHANGED cfHeard
      BY <2>1, <2>3
    <2>4. CASE safelink /\ cfHeard' # cfHeard
      <3>1. task = "air" /\ task \in Running
        BY <1>3, <2>4 DEF RadioDelivers, LinkInv, BeforeInv, Running, InLoop
      <3>2. OnAir.kind = packet.kind /\ OnAir.id = packet.id /\ OnAir.up = upCtr
        BY <2>4, <3>1, OnAirTyped DEF LinkInv, LinkTypeOK
      <3>3. /\ cfSafelink /\ cfUp # upCtr /\ packet.kind = "data"
            /\ cfHeard' = Append(cfHeard, packet.id)
        BY <1>3, <2>4, <3>1, <3>2 DEF RadioDelivers, CfHears, CfEnables,
           CfAccepts, CfTakes, LinkInv, UpInv
      <3>4. packet.id = TakenUp /\ Len(cfHeard) = TakenUp - 1
        BY <2>4, <3>1, <3>3 DEF LinkInv, UpInv, Pending
      <3>5. TakenUp \in Nat /\ TakenUp <= sent
        BY DEF LinkInv, QueueInv, LinkTypeOK, TakenUp
      <3> QED
        BY <2>1, <3>3, <3>4, <3>5 DEF Up!HandOver, LinkInv, LinkTypeOK
    <2> QED
      BY <2>2, <2>3, <2>4
  <1>4. CASE LinkControl \/ LinkUser \/ UNCHANGED linkVars
    BY <1>4, ControlMoves
  <1>5. CASE LinkEnableMissed \/ LinkStart \/ LinkAcked \/ LinkLost \/ CfSend
    BY <1>5 DEF LinkEnableMissed, EnableMissed, LinkStart, StartTransaction,
                LinkAcked, TransactionAcked, LinkLost, TransactionLost, CfSend,
                vars
  <1> QED
    BY <1>1, <1>2, <1>3, <1>4, <1>5 DEF LinkNext, LinkTask

\* With safelink the Crazyflie takes every packet given to send_packet() at
\* most once, in order, and with none left out, whatever is lost or repeated.
THEOREM UplinkIsReliable == LinkSpec => UplinkReliable
  <1>1. LinkInit => Up!StreamInit
    BY DEF LinkInit, Init, Up!StreamInit
  <1>2. LinkInv /\ [LinkNext]_linkVars => [Up!StreamNext]_(Up!streamVars)
    BY UpSteps
  <1> QED
    BY <1>1, <1>2, LinkInvariant, PTL
       DEF LinkSpec, UplinkReliable, Up!StreamSpec

LEMMA DownSteps ==
    ASSUME LinkInv, [LinkNext]_linkVars
    PROVE  [Down!StreamNext]_(Down!streamVars)
  <1> USE DEF Down!StreamNext, Down!streamVars, hostVars, cfVars
  <1>1. CASE LinkEnableEchoed
    BY <1>1 DEF LinkEnableEchoed, EnableEchoed, LinkInv, BeforeInv, Down!Protect
  <1>2. CASE CfSend
    BY <1>2 DEF CfSend, vars, Down!Submit
  <1>3. CASE LinkAcked
    <2>1. task = "air" /\ task \in Running /\ UNCHANGED <<safelink, cfSent>>
      BY <1>3 DEF LinkAcked, TransactionAcked, Running, InLoop
    <2>2. CASE ~safelink
      BY <2>1, <2>2 DEF Down!Unprotected
    <2>3. CASE safelink /\ UNCHANGED downlink
      BY <2>1, <2>3
    <2>4. CASE safelink /\ downlink' # downlink
      <3>1. /\ PayloadIsNew /\ ack.kind = "data" /\ ack # NoAck
            /\ downlink' = Append(downlink, ack.id)
        BY <1>3, <2>4 DEF LinkAcked, AckPayload, NoPayload, Packet
      <3>2. ack = cfLast /\ cfDown = downCtr
        BY <2>1, <2>4, <3>1 DEF LinkInv, DownInv, PayloadIsNew
      <3>3. cfLast.id = TakenDown /\ Len(downlink) = TakenDown - 1
        BY <2>1, <2>4, <3>1, <3>2 DEF LinkInv, DownInv
      <3>4. TakenDown \in Nat /\ TakenDown <= cfSent
        BY DEF LinkInv, QueueInv, LinkTypeOK, TakenDown
      <3> QED
        BY <2>1, <3>1, <3>2, <3>3, <3>4 DEF Down!HandOver, LinkInv, LinkTypeOK
    <2> QED
      BY <2>2, <2>3, <2>4
  <1>4. CASE LinkControl \/ LinkUser \/ UNCHANGED linkVars
    BY <1>4, ControlMoves
  <1>5. CASE \/ LinkEnableMissed \/ LinkStart \/ LinkLost \/ RadioDelivers
             \/ SendPacket
    BY <1>5 DEF LinkEnableMissed, EnableMissed, LinkStart, StartTransaction,
                LinkLost, TransactionLost, RadioDelivers, CfHears, SendPacket,
                vars
  <1> QED
    BY <1>1, <1>2, <1>3, <1>4, <1>5 DEF LinkNext, LinkTask

\* With safelink every packet the Crazyflie queues comes out of recv_packet()
\* at most once, in order, and with none left out.
THEOREM DownlinkIsReliable == LinkSpec => DownlinkReliable
  <1>1. LinkInit => Down!StreamInit
    BY DEF LinkInit, Init, Down!StreamInit
  <1>2. LinkInv /\ [LinkNext]_linkVars => [Down!StreamNext]_(Down!streamVars)
    BY DownSteps
  <1> QED
    BY <1>1, <1>2, LinkInvariant, PTL
       DEF LinkSpec, DownlinkReliable, Down!StreamSpec

-----------------------------------------------------------------------------
(* Platform commands *)

EnablesAgain == CfEnables /\ UNCHANGED <<vars, hostVars, cfSent, ack>>

\* What the check of platform_command() lets through either enables safelink
\* or is one of the commands that the Crazyflie is taken to answer without
\* touching the streams.
LEMMA CommandEffect == Command => EnablesAgain \/ UNCHANGED linkVars
  <1> SUFFICES ASSUME Command PROVE EnablesAgain \/ UNCHANGED linkVars
    OBVIOUS
  <1>1. PICK c \in Commands :
          /\ ValidCommand(c) /\ CfTakesCommand(c)
          /\ UNCHANGED <<vars, hostVars, cfSent, ack>>
    BY DEF Command
  <1>2. c.kind \in {"enable", "platform"}
    BY <1>1, CommandsAssumption DEF ValidCommand
  <1>3. CASE c.kind = "enable"
    BY <1>1, <1>3 DEF CfTakesCommand, EnablesAgain
  <1>4. CASE c.kind = "platform"
    BY <1>1, <1>4 DEF CfTakesCommand, linkVars, cfVars
  <1> QED
    BY <1>2, <1>3, <1>4

LEMMA PlatformStep ==
    [PlatformNext]_linkVars => [LinkNext]_linkVars \/ EnablesAgain
  BY CommandEffect DEF PlatformNext

\* No platform command reaches the life of a connection: with any of them sent
\* at any time, what is proved of RadioConnection holds of the link.
THEOREM PlatformIsConnection == PlatformSpec => Spec
  <1>1. LinkInit => Init
    BY DEF LinkInit
  <1>2. [PlatformNext]_linkVars => [Next]_vars
    BY PlatformStep, LinkStepIsStep DEF EnablesAgain
  <1> QED
    BY <1>1, <1>2, PTL DEF PlatformSpec, Spec

(***************************************************************************)
(* Without safelink at either end.  The task sends a packet again until it *)
(* is acknowledged, so the last one the Crazyflie took is the last one the *)
(* task took off its channel, or the one before while that is under way.   *)
(***************************************************************************)
LastHeard == IF cfHeard = << >> THEN 0 ELSE cfHeard[Len(cfHeard)]

NoGap(heard) ==
    \A i \in DOMAIN heard :
        heard[i] \in IF i = 1 THEN {1} ELSE {heard[i - 1], heard[i - 1] + 1}

RawInv ==
    ~safelink /\ ~cfSafelink =>
        /\ NoGap(cfHeard)
        /\ task \in Running =>
              IF Pending /\ packet.kind = "data"
                THEN /\ packet.id = TakenUp /\ TakenUp >= 1
                     /\ LastHeard \in {TakenUp - 1, TakenUp}
                     /\ ack # NoAck => LastHeard = TakenUp
                ELSE LastHeard = TakenUp

PlatformInv ==
    ConnInv /\ LinkTypeOK /\ QueueInv /\ BeforeInv /\ PacketInv /\ RawInv

LEMMA NothingHeard == NoGap(<< >>) /\ Len(<< >>) = 0
  <1>1. DOMAIN << >> = 1..Len(<< >>) /\ Len(<< >>) = 0
    OBVIOUS
  <1> QED
    BY <1>1 DEF NoGap

LEMMA NoGapAppend ==
    ASSUME NEW heard \in Seq(Nat), NoGap(heard), NEW n \in Nat,
           IF heard = << >> THEN n = 1
           ELSE n \in {heard[Len(heard)], heard[Len(heard)] + 1}
    PROVE  NoGap(Append(heard, n))
  <1> SUFFICES ASSUME NEW i \in DOMAIN Append(heard, n)
               PROVE  Append(heard, n)[i] \in
                         IF i = 1 THEN {1}
                         ELSE {Append(heard, n)[i - 1],
                               Append(heard, n)[i - 1] + 1}
    BY DEF NoGap
  <1>1. i \in 1..(Len(heard) + 1) /\ Len(heard) \in Nat
    OBVIOUS
  <1>2. CASE i = Len(heard) + 1
    <2>1. Append(heard, n)[i] = n
      BY <1>2
    <2>2. CASE heard = << >>
      BY <1>2, <2>1, <2>2
    <2>3. CASE heard # << >>
      <3>1. i # 1 /\ Append(heard, n)[i - 1] = heard[Len(heard)]
        BY <1>1, <1>2, <2>3
      <3> QED
        BY <2>1, <2>3, <3>1
    <2> QED
      BY <2>2, <2>3
  <1>3. CASE i # Len(heard) + 1
    <2>1. i \in 1..Len(heard) /\ Append(heard, n)[i] = heard[i]
      BY <1>1, <1>3
    <2>2. i # 1 => Append(heard, n)[i - 1] = heard[i - 1]
      BY <2>1
    <2> QED
      BY <2>1, <2>2 DEF NoGap
  <1> QED
    BY <1>2, <1>3

\* A step that changes neither end of the uplink nor what is under way.
LEMMA RawKept ==
    ASSUME RawInv, UNCHANGED <<safelink, cfSafelink, cfHeard, packet,
                               needsResend, sent, uplink, ack>>,
           task' \in Running => task \in Running /\ (task' = "air" <=> task = "air")
    PROVE  RawInv'
  BY DEF RawInv, NoGap, LastHeard, Pending, TakenUp

LEMMA RawStep ==
    ASSUME LinkTypeOK, QueueInv, BeforeInv, PacketInv, RawInv,
           [LinkNext]_linkVars
    PROVE  RawInv'
  <1> USE DEF hostVars, cfVars
  <1>0. /\ Len(uplink) \in Nat /\ sent \in Nat /\ TakenUp \in Nat
        /\ cfHeard \in Seq(Nat)
    BY DEF LinkTypeOK, QueueInv, TakenUp
  <1>1. CASE LinkControl \/ LinkUser \/ UNCHANGED linkVars
    BY <1>1, ControlMoves, RawKept
  <1>2. CASE CfSend
    BY <1>2, RawKept DEF CfSend, vars
  <1>3. CASE LinkEnableEchoed
    BY <1>3 DEF LinkEnableEchoed, EnableEchoed, RawInv
  <1>4. CASE LinkEnableMissed
    <2>1. /\ task = "enable"
          /\ UNCHANGED <<hostVars, cfVars, safelink>>
      BY <1>4 DEF LinkEnableMissed, EnableMissed
    <2>2. /\ task' # "air" /\ ~needsResend' /\ cfHeard' = << >>
          /\ sent' = 0 /\ uplink' = << >>
      BY <1>4, <2>1 DEF LinkEnableMissed, EnableMissed, BeforeInv
    <2>3. NoGap(cfHeard') /\ LastHeard' = 0
      BY <2>2, NothingHeard DEF LastHeard
    <2>4. TakenUp' = 0
      <3>1. sent' = 0 /\ Len(uplink') = 0
        BY <2>2, NothingHeard
      <3> QED
        BY <3>1 DEF TakenUp
    <2> QED
      BY <2>2, <2>3, <2>4 DEF RawInv, Pending
  <1>5. CASE LinkStart
    <2>1. /\ task = "top" /\ task' = "air" /\ PickPacket
          /\ UNCHANGED <<safelink, needsResend, sent, cfVars, ack>>
      BY <1>5 DEF LinkStart, StartTransaction
    <2>2. ack = NoAck /\ task \in Running /\ LastHeard' = LastHeard
      BY <2>1 DEF PacketInv, Running, InLoop, LastHeard
    <2>3. CASE needsResend
      BY <2>1, <2>2, <2>3
         DEF PickPacket, RawInv, NoGap, Pending, TakenUp
    <2>4. CASE ~needsResend /\ uplink = << >>
      BY <2>1, <2>2, <2>4
         DEF PickPacket, RawInv, NoGap, Pending, TakenUp, NullPacket, Packet
    <2>5. CASE ~needsResend /\ uplink # << >>
      <3>1. packet' = DataPacket(Head(uplink)) /\ uplink' = Tail(uplink)
        BY <2>1, <2>5 DEF PickPacket
      <3>2. /\ packet'.kind = "data" /\ packet'.id = TakenUp + 1
            /\ Len(uplink') = Len(uplink) - 1
        BY <1>0, <2>5, <3>1, FollowsTail
           DEF LinkTypeOK, QueueInv, DataPacket, Packet
      <3>3. TakenUp' = TakenUp + 1
        BY <1>0, <2>1, <3>2 DEF TakenUp
      <3>4. ~safelink /\ ~cfSafelink => NoGap(cfHeard) /\ LastHeard = TakenUp
        BY <2>1, <2>2, <2>5 DEF RawInv, Pending
      <3>5. NoGap(cfHeard') <=> NoGap(cfHeard)
        BY <2>1 DEF NoGap
      <3> QED
        BY <1>0, <2>1, <2>2, <3>2, <3>3, <3>4, <3>5 DEF RawInv, Pending
    <2> QED
      BY <2>3, <2>4, <2>5
  <1>6. CASE LinkAcked
    <2>1. /\ task = "air" /\ task' # "air" /\ ~needsResend' /\ ack # NoAck
          /\ UNCHANGED <<safelink, sent, uplink, cfVars>>
      BY <1>6 DEF LinkAcked, TransactionAcked
    <2>2. task \in Running /\ LastHeard' = LastHeard /\ TakenUp' = TakenUp
      BY <2>1 DEF Running, InLoop, LastHeard, TakenUp
    <2>3. NoGap(cfHeard') <=> NoGap(cfHeard)
      BY <2>1 DEF NoGap
    <2> QED
      BY <2>1, <2>2, <2>3 DEF RawInv, Pending
  <1>7. CASE LinkLost
    <2>1. /\ task = "air" /\ task' # "air" /\ needsResend' /\ ack' = NoAck
          /\ UNCHANGED <<safelink, packet, sent, uplink, cfVars>>
      BY <1>7 DEF LinkLost, TransactionLost
    <2>2. task \in Running /\ LastHeard' = LastHeard /\ TakenUp' = TakenUp
      BY <2>1 DEF Running, InLoop, LastHeard, TakenUp
    <2>3. NoGap(cfHeard') <=> NoGap(cfHeard)
      BY <2>1 DEF NoGap
    <2> QED
      BY <2>1, <2>2, <2>3 DEF RawInv, Pending
  <1>8. CASE SendPacket
    <2>1. /\ sent' = sent + 1 /\ Len(uplink') = Len(uplink) + 1
          /\ UNCHANGED <<vars, packet, needsResend, cfVars, ack>>
      BY <1>8 DEF SendPacket, LinkTypeOK
    <2>2. TakenUp' = TakenUp /\ LastHeard' = LastHeard
      BY <1>0, <2>1 DEF TakenUp, LastHeard
    <2>3. NoGap(cfHeard') <=> NoGap(cfHeard)
      BY <2>1 DEF NoGap
    <2> QED
      BY <2>1, <2>2, <2>3 DEF RawInv, Pending, vars
  <1>9. CASE RadioDelivers
    <2> SUFFICES ASSUME ~safelink, ~cfSafelink' PROVE RawInv'
      BY <1>9 DEF RadioDelivers, CfHears, vars, RawInv
    <2>1. /\ task \in {"enable", "air"} /\ UNCHANGED <<vars, hostVars, cfSent>>
          /\ CfAccepts(OnAir) /\ OnAir.kind # "enable"
      BY <1>9 DEF RadioDelivers, CfHears, CfEnables
    <2>2. task = "air" /\ OnAir = packet /\ task \in Running /\ ~cfSafelink
      BY <2>1 DEF OnAir, EnablePacket, Packet, Running, InLoop, CfAccepts
    <2>3. TakenUp' = TakenUp /\ task' = "air"
      BY <2>1, <2>2 DEF TakenUp, vars
    <2>4. cfHeard' = IF packet.kind = "data"
                       THEN Append(cfHeard, packet.id) ELSE cfHeard
      BY <2>1, <2>2 DEF CfAccepts, CfTakes
    <2>5. CASE packet.kind # "data"
      <3>1. NoGap(cfHeard') /\ LastHeard' = TakenUp
        BY <2>2, <2>4, <2>5 DEF RawInv, NoGap, LastHeard, Pending
      <3> QED
        BY <2>1, <2>3, <2>5, <3>1 DEF RawInv
    <2>6. CASE packet.kind = "data"
      <3>1. /\ packet.id = TakenUp /\ TakenUp >= 1
            /\ LastHeard \in {TakenUp - 1, TakenUp} /\ NoGap(cfHeard)
        BY <2>2, <2>6 DEF RawInv, Pending
      <3>2. cfHeard' = Append(cfHeard, TakenUp)
        BY <2>4, <2>6, <3>1
      <3>3. IF cfHeard = << >> THEN TakenUp = 1
            ELSE TakenUp \in {cfHeard[Len(cfHeard)],
                              cfHeard[Len(cfHeard)] + 1}
        BY <1>0, <3>1 DEF LastHeard
      <3>4. NoGap(cfHeard')
        BY <1>0, <3>1, <3>2, <3>3, NoGapAppend
      <3>5. LastHeard' = TakenUp
        BY <1>0, <3>2 DEF LastHeard
      <3> QED
        BY <1>0, <2>1, <2>3, <3>1, <3>4, <3>5 DEF RawInv
    <2> QED
      BY <2>5, <2>6
  <1> QED
    BY <1>1, <1>2, <1>3, <1>4, <1>5, <1>6, <1>7, <1>8, <1>9
       DEF LinkNext, LinkTask

LEMMA EnablesKeepsPlatformInv ==
    ASSUME PlatformInv, EnablesAgain, ConnInv' PROVE PlatformInv'
  <1> USE DEF EnablesAgain, CfEnables, PlatformInv, hostVars
  <1>1. LinkTypeOK'
    BY PacketsTyped DEF LinkTypeOK, ConnInv, Bit
  <1>2. QueueInv'
    BY DEF QueueInv, Follows, TakenUp, TakenDown
  <1>3. BeforeInv' /\ PacketInv'
    BY DEF BeforeInv, PacketInv, Running, InLoop, vars
  <1>4. RawInv'
    BY DEF RawInv
  <1> QED
    BY <1>1, <1>2, <1>3, <1>4

LEMMA PlatformInvariant == PlatformSpec => []PlatformInv
  <1>1. LinkInit => PlatformInv
    <2> SUFFICES ASSUME LinkInit PROVE PlatformInv
      OBVIOUS
    <2>1. LinkInv
      BY InitLinkInv
    <2>2. RawInv
      <3>1. NoGap(cfHeard) /\ LastHeard = 0
        BY NothingHeard DEF LinkInit, LastHeard
      <3>2. TakenUp = 0
        <4>1. sent = 0 /\ Len(uplink) = 0
          BY NothingHeard DEF LinkInit
        <4> QED
          BY <4>1 DEF TakenUp
      <3>3. ~Pending
        BY DEF LinkInit, Init, Pending
      <3> QED
        BY <3>1, <3>2, <3>3 DEF RawInv
    <2> QED
      BY <2>1, <2>2 DEF LinkInv, PlatformInv
  <1>2. PlatformInv /\ ConnInv' /\ [PlatformNext]_linkVars => PlatformInv'
    <2> SUFFICES ASSUME PlatformInv, ConnInv', [PlatformNext]_linkVars
                 PROVE  PlatformInv'
      OBVIOUS
    <2>1. CASE [LinkNext]_linkVars
      <3>1. LinkTypeOK'
        BY <2>1, LinkStepTyped DEF PlatformInv, ConnInv
      <3>2. QueueInv' /\ BeforeInv' /\ PacketInv'
        BY <2>1, QueueStep, BeforeStep, PacketStep DEF PlatformInv
      <3>3. RawInv'
        BY <2>1, RawStep DEF PlatformInv
      <3> QED
        BY <3>1, <3>2, <3>3 DEF PlatformInv
    <2>2. CASE EnablesAgain
      BY <2>2, EnablesKeepsPlatformInv
    <2> QED
      BY <2>1, <2>2, PlatformStep
  <1>3. PlatformSpec => []ConnInv
    BY PlatformIsConnection, ConnInvariant, PTL
  <1> QED
    BY <1>1, <1>2, <1>3, PTL DEF PlatformSpec

\* Every variable of the link keeps its type, whatever commands users send.
THEOREM PlatformTypes == PlatformSpec => []LinkTypeOK
  <1>1. PlatformInv => LinkTypeOK
    BY DEF PlatformInv
  <1> QED
    BY <1>1, PlatformInvariant, PTL

\* Without safelink at either end every packet still arrives, in order, if
\* perhaps several times: neither losses nor repeats leave a gap.
THEOREM RawLinkMissesNothing == PlatformSpec => []RawMissesNothing
  <1>1. PlatformInv => RawMissesNothing
    <2> SUFFICES ASSUME PlatformInv, ~safelink, ~cfSafelink
                 PROVE  /\ NoGap(cfHeard)
                        /\ task = "top" /\ ~needsResend /\ sent > Len(uplink)
                             => /\ cfHeard # << >>
                                /\ cfHeard[Len(cfHeard)] = sent - Len(uplink)
      BY DEF RawMissesNothing, NoGap
    <2>1. NoGap(cfHeard)
      BY DEF PlatformInv, RawInv
    <2>2. task = "top" /\ ~needsResend => LastHeard = sent - Len(uplink)
      BY DEF PlatformInv, RawInv, Running, InLoop, Pending, TakenUp
    <2>3. sent > Len(uplink) => sent - Len(uplink) # 0
      BY DEF PlatformInv, LinkTypeOK
    <2> QED
      BY <2>1, <2>2, <2>3 DEF LastHeard
  <1> QED
    BY <1>1, PlatformInvariant, PTL
=============================================================================
