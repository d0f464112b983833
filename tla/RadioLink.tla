------------------------------ MODULE RadioLink ------------------------------
(***************************************************************************)
(* The packets of a radio connection: the steps of RadioConnection's task  *)
(* with what they send and receive (ConnectionThread in                    *)
(* crazyradio_connection.rs), the radio, and the Crazyflie at the other    *)
(* end.                                                                    *)
(*                                                                         *)
(* The Crazyflie and the radio are not part of the repository.  They are   *)
(* what the task relies on: the Crazyflie echoes the enable packet and     *)
(* starts its counters afresh, takes a packet whose up bit it has not just *)
(* seen, and repeats a payload until the down bit of the task has moved    *)
(* on.  The radio retransmits by itself, so one transaction may reach the  *)
(* Crazyflie any number of times, and it may lose the acknowledgement.     *)
(***************************************************************************)
EXTENDS RadioConnection, Sequences

CONSTANTS
    AckFilter,  \* the ACKFILTER flag of the URI
    MaxUp,      \* bound: packets the user sends
    MaxDown,    \* bound: packets the Crazyflie sends
    MaxHeard,   \* bound: data packets that cross the link in one direction
    IdleKinds   \* what the Crazyflie answers with when it has nothing to send

ASSUME LinkAssumption ==
    /\ AckFilter \in BOOLEAN
    /\ MaxUp \in Nat /\ MaxDown \in Nat /\ MaxHeard \in Nat
    /\ IdleKinds \subseteq {"null", "platform", "empty"} /\ "null" \in IdleKinds

VARIABLES
    upCtr, downCtr,  \* safelink_up_ctr, safelink_down_ctr
    packet,          \* the local of run(): the packet to send
    needsResend,     \* the local of run(): it was not acknowledged
    sent,            \* packets given to send_packet()
    uplink,          \* the uplink channel
    downlink,        \* the data packets put in the downlink channel so far
    cfSafelink,      \* the Crazyflie uses safelink
    cfUp, cfDown,    \* its counters
    cfLast,          \* the payload it answered last
    cfQueue,         \* the data packets it has still to send
    cfSent,          \* data packets queued so far at the Crazyflie
    cfHeard,         \* the data packets it has taken, oldest first
    ack              \* the acknowledgement on its way back, or NoAck

hostVars == <<upCtr, downCtr, packet, needsResend, sent, uplink, downlink>>
cfVars == <<cfSafelink, cfUp, cfDown, cfLast, cfQueue, cfSent, cfHeard>>
linkVars == <<vars, hostVars, cfVars, ack>>

-----------------------------------------------------------------------------
(* Packets: kind stands for the header, id numbers the data packets of each *)
(* direction (0 for any other), up and down are the two safelink bits.      *)

Bit == {0, 1}

Packet(kind, id, up, down) ==
    [kind |-> kind, id |-> id, up |-> up, down |-> down]

NullPacket == Packet("null", 0, 1, 1)      \* [0xff]
EnablePacket == Packet("enable", 0, 1, 1)  \* [0xff, 0x05, 0x01]
NoPayload == Packet("empty", 0, 0, 0)
NoAck == Packet("none", 0, 0, 0)

UpPackets == [kind : {"null", "enable", "data"}, id : Nat, up : Bit, down : Bit]

Payloads == [kind : {"empty", "null", "enable", "platform", "data"},
             id : Nat, up : Bit, down : Bit]

\* Packet::new() leaves the two bits at 0.
DataPacket(id) == Packet("data", id, 0, 0)

\* The null port, whatever follows it: payload[0] & 0xF3 == 0xF3.
HasNullHeader(p) == p.kind \in {"null", "enable", "platform"}

-----------------------------------------------------------------------------
(* The Crazyflie (external) *)

\* A packet whose up bit differs from the last one taken is new.
CfTakes(p) == ~cfSafelink \/ p.up # cfUp

\* The task has accepted the last payload: the next one may follow.
CfMovesOn(p) == ~cfSafelink \/ p.down # cfDown

\* With safelink every answer carries the bit, so none is empty.
CfIdleKinds == IF cfSafelink THEN IdleKinds \ {"empty"} ELSE IdleKinds

CfAnswers(down) ==
    IF cfQueue # << >> THEN {Packet("data", Head(cfQueue), 0, down)}
    ELSE {Packet(kind, 0, 0, down) : kind \in CfIdleKinds}

CfEnables ==
    /\ cfSafelink' = TRUE
    /\ cfUp' = 1 /\ cfDown' = 1
    /\ cfLast' = EnablePacket
    /\ UNCHANGED <<cfQueue, cfHeard>>

CfAccepts(p) ==
    /\ cfUp' = IF cfSafelink /\ CfTakes(p) THEN 1 - cfUp ELSE cfUp
    /\ cfHeard' = IF CfTakes(p) /\ p.kind = "data"
                    THEN Append(cfHeard, p.id) ELSE cfHeard
    /\ IF CfMovesOn(p)
         THEN /\ cfDown' = IF cfSafelink THEN 1 - cfDown ELSE cfDown
              /\ cfLast' \in CfAnswers(cfDown')
              /\ cfQueue' = IF cfQueue = << >> THEN << >> ELSE Tail(cfQueue)
         ELSE UNCHANGED <<cfDown, cfLast, cfQueue>>
    /\ UNCHANGED cfSafelink

\* The payload of the acknowledgement may have been loaded before the packet
\* came: then it repeats the previous answer.
CfHears(p) ==
    /\ Len(cfHeard) < MaxHeard /\ Len(downlink) < MaxHeard
    /\ IF p.kind = "enable" THEN CfEnables ELSE CfAccepts(p)
    /\ ack' \in {cfLast, cfLast'}
    /\ UNCHANGED <<vars, hostVars, cfSent>>

CfSend ==
    /\ cfSent < MaxDown
    /\ cfSent' = cfSent + 1
    /\ cfQueue' = Append(cfQueue, cfSent')
    /\ UNCHANGED <<vars, hostVars, cfSafelink, cfUp, cfDown, cfLast, cfHeard,
                   ack>>

-----------------------------------------------------------------------------
(* The task *)

\* send_packet_safe() overwrites the two bits; send_packet() leaves them.
WithCounters(p) == [p EXCEPT !.up = upCtr, !.down = downCtr]

OnAir ==
    IF task = "enable" THEN EnablePacket
    ELSE IF safelink THEN WithCounters(packet) ELSE packet

RadioDelivers == task \in {"enable", "air"} /\ CfHears(OnAir)

\* What send_packet() returns as the payload: with safelink, nothing unless
\* the down bit is the one expected.
PayloadIsNew == ack.kind # "empty" /\ ack.down = downCtr

\* Faulty form: the down bit is not compared.
AnyPayload == IF safelink /\ ack.kind = "empty" THEN NoPayload ELSE ack
AckPayload == IF safelink /\ ~PayloadIsNew THEN NoPayload ELSE ack

\* preprocess_ack(): the payload goes to the user.
ShouldHandle(p) ==
    IF safelink THEN p.kind # "empty" /\ ~HasNullHeader(p)
                ELSE p.kind # "empty" \/ ~AckFilter

LinkEnableEchoed ==
    /\ ack = EnablePacket
    /\ EnableEchoed
    /\ upCtr' = 0 /\ downCtr' = 0
    /\ ack' = NoAck
    /\ UNCHANGED <<packet, needsResend, sent, uplink, downlink, cfVars>>

LinkEnableMissed ==
    /\ EnableMissed
    /\ ack' = NoAck
    /\ UNCHANGED <<hostVars, cfVars>>

\* Faulty form: a packet that was not acknowledged is replaced.
PickAlways ==
    IF uplink = << >>
      THEN packet' = NullPacket /\ UNCHANGED uplink
      ELSE packet' = DataPacket(Head(uplink)) /\ uplink' = Tail(uplink)
PickPacket ==
    IF needsResend THEN UNCHANGED <<packet, uplink>>
    ELSE IF uplink = << >>
      THEN packet' = NullPacket /\ UNCHANGED uplink
      ELSE packet' = DataPacket(Head(uplink)) /\ uplink' = Tail(uplink)

LinkStart ==
    /\ StartTransaction
    /\ PickPacket
    /\ UNCHANGED <<upCtr, downCtr, needsResend, sent, downlink, cfVars, ack>>

NextUp == IF safelink THEN 1 - upCtr ELSE upCtr

\* Faulty form: the down counter moves with every acknowledgement.
NextDownAlways == IF safelink THEN 1 - downCtr ELSE downCtr
NextDown == IF safelink /\ PayloadIsNew THEN 1 - downCtr ELSE downCtr

LinkAcked ==
    /\ ack # NoAck
    /\ TransactionAcked(ShouldHandle(AckPayload))
    /\ upCtr' = NextUp
    /\ downCtr' = NextDown
    /\ needsResend' = FALSE
    /\ downlink' = IF ShouldHandle(AckPayload) /\ DownlinkOpen
                                /\ AckPayload.kind = "data"
                     THEN Append(downlink, AckPayload.id) ELSE downlink
    /\ ack' = NoAck
    /\ UNCHANGED <<packet, sent, uplink, cfVars>>

LinkLost ==
    /\ TransactionLost
    /\ needsResend' = TRUE
    /\ ack' = NoAck
    /\ UNCHANGED <<upCtr, downCtr, packet, sent, uplink, downlink, cfVars>>

\* Handshake or not, a step that leaves the packets alone.
LinkControl ==
    /\ TaskControl
    /\ UNCHANGED <<hostVars, cfVars, ack>>

LinkTask ==
    \/ LinkEnableEchoed \/ LinkEnableMissed
    \/ LinkStart \/ LinkAcked \/ LinkLost
    \/ LinkControl

-----------------------------------------------------------------------------
(* The user *)

\* send_packet() on the connection object; it succeeds as long as the task
\* holds the Receiver of the uplink channel.
SendPacket ==
    /\ handle = "live"
    /\ task # "stopped"
    /\ sent < MaxUp
    /\ sent' = sent + 1
    /\ uplink' = Append(uplink, sent')
    /\ UNCHANGED <<vars, upCtr, downCtr, packet, needsResend, downlink, cfVars,
                   ack>>

LinkUser ==
    /\ Tick \/ UserStep
    /\ UNCHANGED <<hostVars, cfVars, ack>>

-----------------------------------------------------------------------------

\* What an earlier connection may have left in the Crazyflie.
CfLeftovers == {EnablePacket, Packet("data", 0, 0, 0)}

LinkInit ==
    /\ Init
    /\ upCtr = 0 /\ downCtr = 0
    /\ packet = NullPacket
    /\ needsResend = FALSE
    /\ sent = 0
    /\ uplink = << >>
    /\ downlink = << >>
    /\ cfSafelink \in BOOLEAN
    /\ cfUp \in (IF cfSafelink THEN Bit ELSE {1})
    /\ cfDown \in (IF cfSafelink THEN Bit ELSE {1})
    /\ cfLast \in CfLeftovers
    /\ cfQueue = << >>
    /\ cfSent = 0
    /\ cfHeard = << >>
    /\ ack = NoAck

LinkNext ==
    \/ LinkTask
    \/ RadioDelivers
    \/ CfSend
    \/ SendPacket
    \/ LinkUser

LinkSpec == LinkInit /\ [][LinkNext]_linkVars

LinkFairSpec ==
    /\ LinkSpec
    /\ WF_linkVars(LinkTask)
    /\ WF_linkVars(Tick /\ LinkUser)

-----------------------------------------------------------------------------
(* Properties *)

\* Every variable of the link stays in the set of values it should have.
LinkTypeOK ==
    /\ TypeOK
    /\ upCtr \in Bit /\ downCtr \in Bit
    /\ packet \in UpPackets
    /\ needsResend \in BOOLEAN
    /\ sent \in Nat /\ cfSent \in Nat
    /\ uplink \in Seq(Nat) /\ cfHeard \in Seq(Nat)
    /\ cfQueue \in Seq(Nat) /\ downlink \in Seq(Nat)
    /\ cfSafelink \in BOOLEAN
    /\ cfUp \in Bit /\ cfDown \in Bit
    /\ cfLast \in Payloads
    /\ ack \in Payloads \cup {NoAck}

\* With safelink the task goes on to another packet only when the Crazyflie
\* has taken all it took off the uplink channel before.
AckedIsTaken ==
    safelink /\ task = "top" /\ ~needsResend
        => Len(cfHeard) = sent - Len(uplink)

\* With safelink the Crazyflie lets go of a packet only when the task has put
\* it in the downlink channel: at most the last one is still to come.
LetGoIsDelivered ==
    safelink /\ task \in InLoop
        => cfSent - Len(cfQueue)
             <= Len(downlink) + (IF cfLast.kind = "data" /\ cfDown = downCtr
                                   THEN 1 ELSE 0)

\* Without safelink at either end every packet still arrives, in order, if
\* perhaps several times.
RawMissesNothing ==
    ~safelink /\ ~cfSafelink
        => /\ \A i \in DOMAIN cfHeard :
                cfHeard[i] \in IF i = 1 THEN {1}
                               ELSE {cfHeard[i - 1], cfHeard[i - 1] + 1}
           /\ task = "top" /\ ~needsResend /\ sent > Len(uplink)
                => cfHeard # << >> /\ cfHeard[Len(cfHeard)] = sent - Len(uplink)

\* Both directions implement the reliable stream.
Up == INSTANCE ReliableStream
        WITH protected <- safelink, submitted <- sent, handedOver <- cfHeard
Down == INSTANCE ReliableStream
        WITH protected <- safelink, submitted <- cfSent, handedOver <- downlink

UplinkReliable == Up!StreamSpec
DownlinkReliable == Down!StreamSpec

\* A packet handed to a protected connection reaches the Crazyflie or the
\* connection ends: there is no third outcome.
DeliveredOrEnded ==
    \A n \in 1..MaxUp :
        (safelink /\ sent >= n) ~> (Len(cfHeard) >= n \/ task = "stopped")

(* A comment that the code does not follow *)

\* crazyradio_connection.rs:457: "In safelink we deem a payload empty if it
\* only containx 0xF3".  A payload of the null port with more bytes is not.
OnlyBareNullIsEmpty ==
    safelink /\ task = "air" /\ AckPayload.kind = "platform"
        => ShouldHandle(AckPayload)
=============================================================================
