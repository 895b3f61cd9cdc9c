----------------------------- MODULE MCRefCount -----------------------------
(* RefCount with threads, slots and entries that TLC may permute.          *)
EXTENDS RefCountLifecycle, TLC

Symmetry ==
  Permutations(Thread) \cup Permutations(Slot) \cup Permutations(Entry)
=============================================================================
