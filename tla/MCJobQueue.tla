------------------------------ MODULE MCJobQueue ------------------------------
(* Small instances of JobQueue for TLC. *)
EXTENDS JobQueue, TLC

CONSTANTS k1, k2, w1, w2

\* k1 has two attempts, every other job one: both sides of fail() are reached.
MCMaxAttempts == [k \in Keys |-> IF k = k1 THEN 2 ELSE 1]

WorkerSymmetry == Permutations(Workers)
=============================================================================
