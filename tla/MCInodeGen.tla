----------------------------- MODULE MCInodeGen -----------------------------
(* Small instances of InodeGen for TLC.                                     *)
EXTENDS InodeGen, TLC
Symmetry == Permutations(Client)
=============================================================================
