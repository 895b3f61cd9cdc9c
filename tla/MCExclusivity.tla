---------------------------- MODULE MCExclusivity ----------------------------
(* Exclusivity for TLC.                                                     *)
EXTENDS Exclusivity, TLC

Symmetry == Permutations(Thread) \cup Permutations(Variable) \cup Permutations(Buffer)
==============================================================================
