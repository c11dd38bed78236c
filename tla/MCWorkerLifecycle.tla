------------------------- MODULE MCWorkerLifecycle -------------------------
(* Two queues; any order of start and stop commands. *)
EXTENDS WorkerLifecycle
=============================================================================
