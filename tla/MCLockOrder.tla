----------------------------- MODULE MCLockOrder -----------------------------
(***************************************************************************)
(* Three threads, so that a circle of three sections can close.            *)
(***************************************************************************)
EXTENDS LockOrder, TLC

CONSTANTS t1, t2, t3

MCThread == {t1, t2, t3}

Symmetry == Permutations(MCThread)
==============================================================================
