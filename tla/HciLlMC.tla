------------------------------- MODULE HciLlMC -------------------------------
(* Instances of HciLl for TLC.                                             *)
EXTENDS HciLl, TLC
=============================================================================
