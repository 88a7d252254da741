-------------------------- MODULE BulkTransportMC --------------------------
(* Instances of BulkTransport for TLC.                                     *)
EXTENDS BulkTransport
=============================================================================
