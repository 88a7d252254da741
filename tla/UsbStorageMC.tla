---------------------------- MODULE UsbStorageMC ----------------------------
(* Model-checking instances of UsbStorage.                                 *)
EXTENDS UsbStorage
=============================================================================
