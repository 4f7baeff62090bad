-------------------------- MODULE MCDeviceRegistry --------------------------
(***************************************************************************)
(* A device and a user.  The threads may be late by one unit; the bound of  *)
(* silence is six units, and the clocks run two units further.             *)
(***************************************************************************)
EXTENDS DeviceRegistry

CONSTANTS dev, usr

MCDevice == {dev}
MCUser == {usr}
==============================================================================
