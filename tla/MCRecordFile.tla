------------------------------ MODULE MCRecordFile ------------------------------
(* Instances of RecordFile: four calls.                                    *)
EXTENDS RecordFile, TLC

Symmetries == Permutations(Writers)
================================================================================
