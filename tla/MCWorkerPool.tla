---------------------------- MODULE MCWorkerPool ----------------------------
(* Instance of WorkerPool for TLC.  No symmetry: the runs check liveness.   *)
EXTENDS WorkerPool
=============================================================================
