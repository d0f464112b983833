-------------------------- MODULE MCRadioPlatform --------------------------
(***************************************************************************)
(* RadioPlatform for the model checker: the commands users try.            *)
(***************************************************************************)
EXTENDS RadioPlatform

HarmlessCommands ==
    {[kind |-> "platform", length |-> 2], [kind |-> "null", length |-> 1],
     [kind |-> "data", length |-> 2]}
EnableCommand == {[kind |-> "enable", length |-> 3]}
=============================================================================
