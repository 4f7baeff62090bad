----------------------------- MODULE MCDataBase -----------------------------
(***************************************************************************)
(* One thread that executes statements beside the reading of the database. *)
(***************************************************************************)
EXTENDS DataBase, TLC

CONSTANTS t1
=============================================================================
