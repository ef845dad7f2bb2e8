--------------------------- MODULE MCLookupCache ---------------------------
(* Small instances of LookupCache for TLC.                                  *)
EXTENDS LookupCache, TLC
Symmetry == Permutations(Thread) \cup Permutations(Key)
ThreadSymmetry == Permutations(Thread)
=============================================================================
