------------------------- MODULE MCMetadataAllocator -------------------------
(* MetadataAllocator for TLC.                                               *)
EXTENDS MetadataAllocator, TLC

Symmetry == Permutations(Thread)
==============================================================================
