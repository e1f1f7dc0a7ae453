---------------------------- MODULE MCShardEvidence ----------------------------
(* Instances of ShardEvidence: a file with two tests whose progress lines  *)
(* are in the log, and one with a test, seen in XML only, that is run      *)
(* twice.                                                                  *)
EXTENDS ShardEvidence, TLC

CONSTANTS loud, quiet

Counts == loud :> 2 @@ quiet :> 1
HowHard == loud :> 2 @@ quiet :> 1
HowOften == loud :> 1 @@ quiet :> 2
================================================================================
