------------------------------ MODULE MCStreams -----------------------------
(* Small instances of Streams for TLC. *)
EXTENDS Streams
=============================================================================
