---------------------------- MODULE RadioPlatform ----------------------------
(***************************************************************************)
(* Platform commands during a connection: LinkContext::platform_command()  *)
(* (context.rs) sends a packet of its own to the Crazyflie a RadioLink is  *)
(* connected to.  The radio runs one transaction at a time, so a command   *)
(* falls before or after a transaction of the link, never inside.          *)
(*                                                                         *)
(* The Crazyflie is external.  That its radio chip answers a command       *)
(* itself and leaves the CRTP streams alone is taken from                  *)
(* context.rs:110-113: it is an assumption here, not a result.  The        *)
(* exception is in crazyradio_connection.rs:389: the command that enables  *)
(* safelink starts the counters afresh, whoever sends it.  What the code   *)
(* does is to check which packets may go out.                              *)
(***************************************************************************)
EXTENDS RadioLink

CONSTANT Commands  \* the data users pass: [kind, length], the kind as in Packet

\* Only the null packet is nothing but the header of the null port.
ASSUME CommandsAssumption ==
    /\ Commands \subseteq [kind : {"null", "enable", "platform", "data"},
                           length : Nat \ {0}]
    /\ \A c \in Commands : c.kind = "null" => c.length = 1

\* Faulty form: the header is not looked at.
LongEnough(c) == c.length >= 2
ValidCommand(c) ==
    c.length >= 2 /\ c.kind \in {"null", "enable", "platform"}

CommandPacket(c) ==
    IF c.kind = "data" THEN DataPacket(0) ELSE Packet(c.kind, 0, 1, 1)

\* A command reaches the Crazyflie; its acknowledgement goes to its caller.
\* That a platform command changes nothing here is the assumption.
CfTakesCommand(c) ==
    CASE c.kind = "enable" -> CfEnables
      [] c.kind = "platform" ->
           UNCHANGED <<cfSafelink, cfUp, cfDown, cfLast, cfQueue, cfHeard>>
      [] OTHER -> CfAccepts(CommandPacket(c))

Command ==
    \E c \in Commands :
        /\ ValidCommand(c)
        /\ Len(cfHeard) < MaxHeard
        /\ CfTakesCommand(c)
        /\ UNCHANGED <<vars, hostVars, cfSent, ack>>

PlatformNext == LinkNext \/ Command

PlatformSpec == LinkInit /\ [][PlatformNext]_linkVars

\* As LinkFairSpec; nothing makes a user send a command.
PlatformFairSpec ==
    /\ PlatformSpec
    /\ WF_linkVars(LinkTask)
    /\ WF_linkVars(Tick /\ LinkUser)

-----------------------------------------------------------------------------
(* Properties.  Those of the streams are RadioLink's: the check of           *)
(* platform_command() lets no packet of a user's data through beside the    *)
(* link.  They do not show that a platform command leaves the streams alone.*)

(* A statement of the documentation that the code breaks *)

\* context.rs:112: the accepted commands "cannot interfere with the CRTP data
\* stream".  With safelink the stream is every packet once and in order.
CommandsDoNotInterfere ==
    safelink => \A i \in DOMAIN cfHeard : cfHeard[i] = i
=============================================================================
