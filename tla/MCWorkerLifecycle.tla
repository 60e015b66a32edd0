-------------------------- MODULE MCWorkerLifecycle --------------------------
(* Small instances of WorkerLifecycle for TLC.                             *)
EXTENDS WorkerLifecycle

CONSTANTS a1, p1, s1
=============================================================================
