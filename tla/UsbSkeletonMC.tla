--------------------------- MODULE UsbSkeletonMC ---------------------------
(* Instances of UsbSkeleton for TLC.                                       *)
EXTENDS UsbSkeleton, TLC
CONSTANTS p1, p2
Symmetry == Permutations(Procs)
=============================================================================
