----------------------------- MODULE MCUpstream -----------------------------
(***************************************************************************)
(* Upstream for TLC, with the nodes of config.ini.example.                 *)
(***************************************************************************)
EXTENDS Upstream

MCWeight == <<3, 2, 1>>
=============================================================================
