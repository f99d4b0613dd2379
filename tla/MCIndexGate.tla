---------------------------- MODULE MCIndexGate ----------------------------
(* Instances of IndexGate for TLC.                                         *)
EXTENDS IndexGate, TLC
Symmetry == Permutations(Workers)
=============================================================================
