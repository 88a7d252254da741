------------------------------ MODULE HciBcspMC ------------------------------
(* Instances of HciBcsp for TLC.                                           *)
EXTENDS HciBcsp, TLC
=============================================================================
