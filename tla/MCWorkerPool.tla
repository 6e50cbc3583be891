---------------------------- MODULE MCWorkerPool ----------------------------
(* WorkerPool on a small instance, with what its proofs assume.             *)
EXTENDS WorkerPoolProofs
=============================================================================
