------------------------------ MODULE MCUsbBus ------------------------------
(***************************************************************************)
(* UsbBus for the model checker: three Crazyflies on the bus, so that one  *)
(* is in the middle of the list.  The sessions are interchangeable.        *)
(***************************************************************************)
EXTENDS UsbBus, TLC

CONSTANTS First, Second, Third

BusCrazyflies == {First, Second, Third}
BusOrder == <<First, Second, Third>>

SessionsAlike == Permutations(Sessions)
=============================================================================
