------------------------------ MODULE MCNightlyRun ------------------------------
(* Instances of NightlyRun: a shard leaves a report in which its one test  *)
(* passed, or one in which it failed, or none.                             *)
EXTENDS NightlyRun, TLC

MCTests == {Key("test_ops", "test_add")}

Tree(kind) ==
    [suites |-> {[id |-> 1, ts |-> 1, declared |-> IF kind = "passed" THEN 0 ELSE 1,
                  cases |-> {[no |-> 1, key |-> Key("test_ops", "test_add"),
                              kind |-> kind]},
                  key |-> Key(NoFile, "pytest"), child |-> FALSE]},
     broken |-> {}, log |-> <<>>, logs |-> 0]

MCTrees == {Tree("passed"), Tree("failure")}

CONSTANTS m1, m2

Nightlies == <<NoSource, m1, m2>>

Symmetries == Permutations(Cells) \union Permutations(Shards)
================================================================================
