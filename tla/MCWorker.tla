------------------------------ MODULE MCWorker ------------------------------
(* A small instance of Worker for TLC. *)
EXTENDS Worker

ASSUME WorkerAssumption
=============================================================================
