---------------------------- MODULE MCWorkerPool ----------------------------
(* WorkerPool for TLC: the values of the constants are in WorkerPool.cfg.    *)
EXTENDS WorkerPool
=============================================================================
