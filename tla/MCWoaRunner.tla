------------------------------ MODULE MCWoaRunner ------------------------------
(* Instance of WoaRunner for TLC.                                          *)
EXTENDS WoaRunner
================================================================================
