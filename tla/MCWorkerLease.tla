---------------------------- MODULE MCWorkerLease ----------------------------
(* WorkerLease for TLC. *)
EXTENDS WorkerLease
=============================================================================
