------------------------------ MODULE ButtonsMC ------------------------------
(* Instances of Buttons for TLC.                                           *)
EXTENDS Buttons, TLC
Symmetry == Permutations(Procs)
=============================================================================
