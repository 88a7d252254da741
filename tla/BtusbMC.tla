------------------------------- MODULE BtusbMC -------------------------------
(* Instances of Btusb for TLC.                                             *)
EXTENDS Btusb, TLC
=============================================================================
