------------------------------ MODULE MCTestShard ------------------------------
(* Instances of TestShard: a heavy file (three units of ten minutes, more  *)
(* than the bound of two) and a light one.                                 *)
EXTENDS TestShard, TLC

CONSTANTS heavy, light

TakesWhole == heavy :> 3 @@ light :> 1
================================================================================
