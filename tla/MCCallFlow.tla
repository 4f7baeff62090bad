----------------------------- MODULE MCCallFlow -----------------------------
(***************************************************************************)
(* Instances of the call handling.  The calls of one camera share its      *)
(* stream; the decoder call and the SDK camera take the branches of their  *)
(* own.                                                                    *)
(***************************************************************************)
EXTENDS CallFlow, TLC

CONSTANTS s1, cam1, sdk1, c1, c2, c3, e1, e2

Live1 == [c \in Call |-> "play"]

OneCamera == [c \in Call |-> cam1]

\* The last call plays the SDK camera.
SdkLast == [c \in Call |-> IF c = c3 THEN sdk1 ELSE cam1]

TwoCalls == {c1, c2}
ThreeCalls == {c1, c2, c3}
OneServer == {s1}
TwoEntries == {e1, e2}

\* What ends calls one by one beside the worker; what the code answers for
\* several calls at once, or for none.
BesideOrBehind == {{"outage", "mediaend"}, {"reject", "hangup2", "withdraw", "repeat"}}

HangUps == {{"absent", "hangup"}}

Symmetry == Permutations(Entry)
==============================================================================
