--------------------------- MODULE MCUserSessions ---------------------------
(***************************************************************************)
(* Two users, one with two calls, so that a logout finds more than one and *)
(* a stream may be shared with the other; two levels of priority.          *)
(***************************************************************************)
EXTENDS UserSessions, TLC

CONSTANTS s1, cam1, c1, c2, c3, e1, e2, u1, u2

MCServer == {s1}
MCFileServer == {}
MCCamera == {cam1}
MCCall == {c1, c2, c3}
MCEntry == {e1, e2}
MCUser == {u1, u2}
MCUserOf == (c1 :> u1) @@ (c2 :> u1) @@ (c3 :> u2)
MCLevel == {1, 2}

==============================================================================
