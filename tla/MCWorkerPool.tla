---------------------------- MODULE MCWorkerPool ----------------------------
(***************************************************************************)
(* Small pools for TLC. Workers, callers and observations are             *)
(* interchangeable; the symmetry is used where no liveness is checked.    *)
(***************************************************************************)
EXTENDS WorkerPool, TLC

Interchangeable ==
  Permutations(Workers) \cup Permutations(Callers) \cup Permutations(Observations)
=============================================================================
