---------------------------- MODULE MCStateStore ----------------------------
(***************************************************************************)
(* Small instances of StateStore for TLC.                                  *)
(***************************************************************************)
EXTENDS StateStore, TLC

CONSTANTS p1, p2, c1, c2, c3

Interchangeable == Permutations(Procs) \cup Permutations(Changes)
=============================================================================
