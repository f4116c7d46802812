---------------------------- MODULE MCWorkerPool ----------------------------
(***************************************************************************)
(* WorkerPool for TLC.                                                     *)
(***************************************************************************)
EXTENDS WorkerPool

CONSTANTS r1, r2, r3, h1, h2
=============================================================================
