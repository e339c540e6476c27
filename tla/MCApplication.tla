--------------------------- MODULE MCApplication ---------------------------
(***************************************************************************)
(* Small instances of Application for TLC.                                 *)
(***************************************************************************)
EXTENDS Application

CONSTANTS t1, t2, t3, g1
=============================================================================
