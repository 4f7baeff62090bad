---------------------------- MODULE MCStreamTable ----------------------------
(***************************************************************************)
(* Two relaying servers and a file server, two cameras, three calls: enough *)
(* for a stream shared by three, a camera played through two servers after  *)
(* an outage, and a tie and a difference of loads.                          *)
(***************************************************************************)
EXTENDS TablePlacement, TLC

CONSTANTS s1, s2, fs, cam1, cam2, c1, c2, c3, e1, e2, e3

MCServer == {s1, s2, fs}
MCFileServer == {fs}
MCCamera == {cam1, cam2}
MCCall == {c1, c2, c3}
MCEntry == {e1, e2, e3}

Symmetry ==
    Permutations({s1, s2}) \cup Permutations(MCCamera) \cup
    Permutations(MCCall) \cup Permutations(MCEntry)
==============================================================================
