------------------------------- MODULE At24MC -------------------------------
(* Instances of At24 for TLC.                                              *)
EXTENDS At24, TLC
Symmetry == Permutations(Procs)
=============================================================================
