--------------------------- MODULE MCWorkerPool ---------------------------
(* WorkerPool for TLC. *)
EXTENDS WorkerPool, TLC

Symmetry == Permutations(Tasks) \cup Permutations(Workers) \cup Permutations(Closers)
=============================================================================
