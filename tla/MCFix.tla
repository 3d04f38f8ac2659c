-------------------------------- MODULE MCFix -------------------------------
(* Small instances of Fix for TLC, without its fairness. *)
EXTENDS Fix

CONSTANTS k1, k2
=============================================================================
