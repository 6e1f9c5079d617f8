---------------------------- MODULE MCMemoryPools ---------------------------
(* An instance of MemoryPools.                                              *)
EXTENDS MemoryPools

Symmetry == Permutations(Threads)
=============================================================================
