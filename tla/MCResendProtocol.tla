-------------------------- MODULE MCResendProtocol --------------------------
(***************************************************************************)
(* One dialog, with an INVITE and the INFO and the BYE that replace it in  *)
(* the map: dialogs share nothing but the time of the scans.  A unit of    *)
(* time is half of Base, so a request may be recorded between two scans,   *)
(* and a scan may be late by one unit.                                     *)
(***************************************************************************)
EXTENDS ResendProtocol

CONSTANTS d1, invite1, info1, bye1

MCCallOf == [m \in {invite1, info1, bye1} |-> d1]
==============================================================================
