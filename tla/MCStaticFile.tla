--------------------------- MODULE MCStaticFile ---------------------------
(***************************************************************************)
(* StaticFile for TLC: files up to three pipes long.                       *)
(***************************************************************************)
EXTENDS StaticFile
=============================================================================
