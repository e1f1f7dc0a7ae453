-------------------------------- MODULE MCPrGate --------------------------------
(* Instances of PrGate: one PR, whose runs contend for one group.  Runs of *)
(* different PRs share no state but PR_CI_MODE.                            *)
EXTENDS PrGate, TLC

CONSTANTS p1, alice, rtx, woa, ann, ben

OneAuthor == p1 :> alice

(* Nothing tells the pipelines, or the reviewers, from one another.        *)
Symmetries == Permutations(Pipelines) \union Permutations(Reviewers)
================================================================================
