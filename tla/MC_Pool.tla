------------------------------ MODULE MC_Pool ------------------------------
(* Symmetry for the runs of CephPool.                                       *)
EXTENDS CephPool, TLC

Symmetry == Permutations(Threads) \cup Permutations(Files)
=============================================================================
