---------------------------- MODULE MCSignedRelease ----------------------------
(* Instances of SignedRelease for TLC. *)
EXTENDS SignedRelease, TLC

(* Neither the code nor the properties tell one Python cell from another.  *)
CellSymmetry == Permutations(Cells)
================================================================================
