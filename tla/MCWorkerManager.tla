-------------------------- MODULE MCWorkerManager --------------------------
(* A small instance of WorkerManager.                                      *)
EXTENDS WorkerManager, TLC

CONSTANTS t1, t2, w1
=============================================================================
