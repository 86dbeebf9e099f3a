----------------------------- MODULE MCMyKernel -----------------------------
(* Instances of MyKernel for TLC.                                          *)
EXTENDS MyKernel

Symmetry == Permutations(Threads) \cup Permutations(Locks)
=============================================================================
