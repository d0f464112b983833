----------------------------- MODULE CrtpPacket -----------------------------
(***************************************************************************)
(* The header byte of a CRTP packet, pppp00cc, on its way through the      *)
(* library: Packet (packet.rs), the bits safelink writes into it and what  *)
(* is done to the payload of an acknowledgement before it is handed over   *)
(* (crazyradio_connection.rs).  Bytes are numbers; a mask is a division.   *)
(***************************************************************************)
EXTENDS Integers, Sequences

CONSTANTS
    PortArgs, ChannelArgs,  \* arguments of Packet::new()
    Datas,                  \* data bytes
    Payloads                \* payloads of acknowledgements, empty ones included

Octet == 0..255

ASSUME PacketAssumption ==
    /\ PortArgs \subseteq Octet /\ ChannelArgs \subseteq Octet
    /\ Datas \subseteq Seq(Octet)
    /\ Payloads \subseteq Seq(Octet)

-----------------------------------------------------------------------------
(* Packet *)

PortOf(header) == header \div 16
ChannelOf(header) == header % 4

\* Faulty form: a channel that is too large runs into the other bits.
HeaderUnmasked(port, channel) == channel + 16 * (port % 16)
HeaderOf(port, channel) == (channel % 4) + 16 * (port % 16)

NewPacket(port, channel, data) ==
    [header |-> HeaderOf(port, channel), port |-> port, channel |-> channel,
     data |-> data]

\* The vector must not be empty: v[0] panics.
FromVec(v) ==
    [header |-> v[1], port |-> PortOf(v[1]), channel |-> ChannelOf(v[1]),
     data |-> Tail(v)]

ToVec(packet) == <<packet.header>> \o packet.data

-----------------------------------------------------------------------------
(* Safelink *)

DownBit(header) == (header \div 4) % 2
UpBit(header) == (header \div 8) % 2

\* header & 0xF3.  Faulty form: only one of the two bits is masked.
MaskedOnce(header) == header - 4 * DownBit(header)
Masked(header) == header - 4 * DownBit(header) - 8 * UpBit(header)

\* send_packet_safe()
Stamped(v, up, down) == [v EXCEPT ![1] = Masked(@) + 8 * up + 4 * down]

\* What send_packet() leaves of the payload.
Fresh(payload, safelink, down) ==
    IF safelink /\ ~(payload # << >> /\ DownBit(payload[1]) = down)
      THEN << >> ELSE payload

\* preprocess_ack(): whether the payload is handed over.
Handled(payload, safelink, ackfilter) ==
    IF safelink THEN payload # << >> /\ Masked(payload[1]) # 243
    ELSE payload # << >> \/ ~ackfilter

\* preprocess_ack(): the payload that is handed over.
Handed(payload, safelink) ==
    IF payload = << >> THEN <<255>>
    ELSE IF safelink THEN [payload EXCEPT ![1] = Masked(@)] ELSE payload

-----------------------------------------------------------------------------
(* The way of a packet: made by the user and sent, or answered by the       *)
(* Crazyflie and handed to the user.                                        *)

VARIABLES
    stage,   \* "made", "air"; "acked", "handed", "dropped"
    bytes,   \* the packet as a vector
    source,  \* what it was made from
    flags    \* safelink, the filter, and the counters of the link

vars == <<stage, bytes, source, flags>>

Flags == [safelink : BOOLEAN, ackfilter : BOOLEAN, up : {0, 1}, down : {0, 1}]

Init ==
    /\ flags \in Flags
    /\ \/ \E port \in PortArgs, channel \in ChannelArgs, data \in Datas :
            /\ stage = "made"
            /\ source = NewPacket(port, channel, data)
            /\ bytes = ToVec(source)
       \/ \E payload \in Payloads :
            /\ stage = "acked"
            /\ source = payload
            /\ bytes = payload

Send ==
    /\ stage = "made"
    /\ stage' = "air"
    /\ bytes' = IF flags.safelink THEN Stamped(bytes, flags.up, flags.down)
                ELSE bytes
    /\ UNCHANGED <<source, flags>>

HandOver ==
    LET payload == Fresh(bytes, flags.safelink, flags.down)
    IN  /\ stage = "acked"
        /\ IF Handled(payload, flags.safelink, flags.ackfilter)
             THEN /\ stage' = "handed"
                  /\ bytes' = Handed(payload, flags.safelink)
             ELSE /\ stage' = "dropped"
                  /\ bytes' = payload
        /\ UNCHANGED <<source, flags>>

\* The user sends a packet back that was received.
SendBack ==
    /\ stage = "handed"
    /\ stage' = "made"
    /\ source' = FromVec(bytes)
    /\ bytes' = ToVec(FromVec(bytes))
    /\ UNCHANGED flags

Next == Send \/ HandOver \/ SendBack

Spec == Init /\ [][Next]_vars

-----------------------------------------------------------------------------
(* Properties *)

\* The Crazyflie reads the port and the channel the user asked for (of numbers
\* that are too large the lowest bits), whatever safelink writes between them;
\* without safelink the two bits are those of the packet.
AddressedRight ==
    stage = "air" =>
        /\ PortOf(bytes[1]) = source.port % 16
        /\ ChannelOf(bytes[1]) = source.channel % 4
        /\ Tail(bytes) = source.data
        /\ IF flags.safelink
             THEN <<UpBit(bytes[1]), DownBit(bytes[1])>> = <<flags.up, flags.down>>
             ELSE bytes[1] = source.header

\* What is handed over has a header at least, or Packet::from() would panic.
\* With safelink the user sees none of its bits, and no keepalive; without it
\* every payload as it came.
HandedIsClean ==
    stage = "handed" =>
        /\ bytes # << >>
        /\ IF flags.safelink
             THEN /\ UpBit(bytes[1]) = 0 /\ DownBit(bytes[1]) = 0
                  /\ PortOf(bytes[1]) = PortOf(source[1])
                  /\ ChannelOf(bytes[1]) = ChannelOf(source[1])
                  /\ ~(PortOf(bytes[1]) = 15 /\ ChannelOf(bytes[1]) = 3)
             ELSE bytes = IF source = << >> THEN <<255>> ELSE source
=============================================================================
