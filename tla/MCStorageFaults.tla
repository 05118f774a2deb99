--------------------------- MODULE MCStorageFaults --------------------------
(* Instances of StorageFaults for TLC. *)
EXTENDS StorageFaults, TLC

RunSymmetry == Permutations(Runs)
=============================================================================
