---------------------------- MODULE MCWorkerLocks ----------------------------
(* Instance: named workers. *)
EXTENDS WorkerLocks
=============================================================================
