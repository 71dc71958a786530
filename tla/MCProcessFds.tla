--------------------------- MODULE MCProcessFds ---------------------------
(***************************************************************************)
(* ProcessFds for TLC.                                                     *)
(***************************************************************************)
EXTENDS ProcessFds
=============================================================================
