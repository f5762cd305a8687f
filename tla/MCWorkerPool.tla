----------------------------- MODULE MCWorkerPool -----------------------------
(* WorkerPool, for TLC; no symmetry, for the run checks a liveness property. *)
EXTENDS WorkerPool, TLC

CONSTANTS r1, r2
=============================================================================
