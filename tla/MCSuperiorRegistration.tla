----------------------- MODULE MCSuperiorRegistration -----------------------
(***************************************************************************)
(* Two superiors, one of which asks for authentication.                    *)
(***************************************************************************)
EXTENDS SuperiorRegistration

CONSTANTS sup1, sup2

MCSuperior == {sup1, sup2}
MCNeedsAuth == {sup1}
==============================================================================
