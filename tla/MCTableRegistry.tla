-------------------------- MODULE MCTableRegistry --------------------------
(* Small instances of TableRegistry.                                       *)
EXTENDS TableRegistry, TLC

Symmetry == Permutations(Servers) \cup Permutations(Submissions)
=============================================================================
