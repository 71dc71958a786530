------------------------- MODULE MCGracefulRestart -------------------------
(***************************************************************************)
(* GracefulRestart for TLC: process ids and clients are interchangeable,   *)
(* which only the run without temporal properties may use.                 *)
(***************************************************************************)
EXTENDS GracefulRestart, TLC

Symmetry == Permutations(Pids) \cup Permutations(Clients)
=============================================================================
