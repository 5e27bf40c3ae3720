---------------------------- MODULE MC_FileTable ----------------------------
(* Model values and symmetry for the runs of CephFileTable, with the history *)
(* of its stats.                                                             *)
EXTENDS CephStatHistory, TLC

Symmetry == Permutations(Handles) \cup Permutations(Names)
=============================================================================
