---------------------------- MODULE MCAdmission ----------------------------
(***************************************************************************)
(* Admission for TLC: a blacklist longer than the list, whose second       *)
(* mention of an address takes the place the last one would have had.      *)
(***************************************************************************)
EXTENDS Admission

CONSTANTS a1, a2, a3, bad, worse

Listed == <<bad, bad, worse, a3>>
=============================================================================
