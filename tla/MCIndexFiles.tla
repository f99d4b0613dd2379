---------------------------- MODULE MCIndexFiles ----------------------------
(* A small instance of IndexFiles.                                         *)
EXTENDS IndexFiles, TLC

Symmetry == Permutations(Keys) \cup Permutations(Ids)
=============================================================================
