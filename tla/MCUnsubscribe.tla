---------------------------- MODULE MCUnsubscribe ---------------------------
(* Small instances of Unsubscribe for TLC. *)
EXTENDS Unsubscribe

CONSTANTS j1, j2, u1, u2
=============================================================================
