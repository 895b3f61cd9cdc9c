--------------------------- MODULE MCConcurrentMap ---------------------------
(* ConcurrentMap for TLC.                                                   *)
EXTENDS ConcurrentMap, TLC

Symmetry == Permutations(Thread) \cup Permutations(Node)
==============================================================================
