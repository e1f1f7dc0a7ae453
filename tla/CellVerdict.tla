------------------------------ MODULE CellVerdict ------------------------------
(***************************************************************************)
(* What a row of the HUD says of the cells it stands for:                  *)
(* scripts/crcr/resolve_cell_conclusion.py reduces the conclusions of      *)
(* their jobs, scripts/crcr/build_test_results.py the reports their shards *)
(* left, and a step of report-test-crcr combines the two.                  *)
(*                                                                         *)
(* A listing is a set of jobs [cell, conclusion, ...], where the cell      *)
(* stands for the `<cell>' or `<cell> / ' that the job's name begins with  *)
(* and the conclusion is Null while the job has none.  A directory is a    *)
(* record [group, tree, ...], one per downloaded artifact, where the group *)
(* is Unmatched when the grouping pattern does not match its name.         *)
(*                                                                         *)
(* An operator named ...Mutant is a plausible bug of the definition that   *)
(* follows it; no specification uses it.                                   *)
(***************************************************************************)
EXTENDS ReportScan

CONSTANTS Null, Unmatched

(* No conclusion is none of the conclusions GitHub reports.                *)
ASSUME NullAssumption == Null \notin {"success", "neutral", "skipped", "cancelled"}

(***************************************************************************)
(* The jobs' side.                                                         *)
(***************************************************************************)
Conclusions == {"failure", "cancelled", "success", "skipped"}

(* What GitHub reports beyond these, and nothing at all, is a failure.     *)
Normalize(conclusion) ==
    CASE conclusion \in {"success", "neutral"}   -> "success"
      [] conclusion \in {"skipped", "cancelled"} -> conclusion
      [] OTHER                                   -> "failure"

CellJobs(jobs, cell) == {j \in jobs : j.cell = cell}

(* The first of _PRECEDENCE that is there: a failure outranks a            *)
(* cancellation, both outrank a success, and anything a skipped job.       *)
Worst(conclusions) ==
    CASE "failure" \in conclusions   -> "failure"
      [] "failure" \notin conclusions /\ "cancelled" \in conclusions -> "cancelled"
      [] conclusions \cap {"failure", "cancelled"} = {} /\ "success" \in conclusions
                                     -> "success"
      [] OTHER                       -> "skipped"

(* resolve_cells: LookupError when no cell is named or one has no job.     *)
Resolvable(jobs, cells) == cells # {} /\ \A c \in cells : CellJobs(jobs, c) # {}

ResolveCells(jobs, cells) ==
    Worst({Normalize(j.conclusion) : j \in UNION {CellJobs(jobs, c) : c \in cells}})

ShouldReport(conclusion) == conclusion # "skipped"

(***************************************************************************)
(* The reports' side.  `crashes' and `unparsable' say whether there are    *)
(* any: how many is shown and not acted on.                                *)
(***************************************************************************)
Shortfall(expected, found) ==
    IF expected > 0 THEN AtLeastZero(expected - found) ELSE 0

CollectCell(dirs, expected) ==
    LET failed == UNION {FailedKeys(d.tree) : d \in dirs}
        passed == UNION {PassedKeys(d.tree) : d \in dirs}
        skipped == UNION {SkippedKeys(d.tree) : d \in dirs}
    IN  [shards     |-> Cardinality(dirs),
         missing    |-> Shortfall(expected, Cardinality(dirs)),
         failed     |-> failed,
         passed     |-> passed \ failed,
         skipped    |-> skipped \ (failed \union passed),
         crashes    |-> \E d \in dirs : MissingItemization(d.tree) > 0,
         unparsable |-> \E d \in dirs : d.tree.broken # {}]

GroupsOf(dirs) == {d.group : d \in dirs}

OfGroup(dirs, g) == {d \in dirs : d.group = g}

CollectGroupsMutant(dirs, expectedShards, expectedGroups) ==
    LET groups == GroupsOf(dirs)
        all    == CollectCell(dirs, expectedShards * expectedGroups)
    IN  [shards        |-> all.shards,
         missing       |-> all.missing,
         failed        |-> all.failed,
         passed        |-> all.passed,
         skipped       |-> all.skipped,
         crashes       |-> all.crashes,
         unparsable    |-> all.unparsable,
         missingGroups |-> Shortfall(expectedGroups, Cardinality(groups)),
         short         |-> FALSE,
         unmatched     |-> Unmatched \in groups]

(* Each group is collected on its own, and the counts are added up: the    *)
(* groups run the same tests, so a test counts once per group.             *)
CollectGroups(dirs, expectedShards, expectedGroups) ==
    LET groups  == GroupsOf(dirs)
        Cell(g) == CollectCell(OfGroup(dirs, g), expectedShards)
        larger  == IF Cardinality(groups) > expectedGroups THEN Cardinality(groups)
                   ELSE expectedGroups
    IN  [shards        |-> Cardinality(dirs),
         missing       |-> Shortfall(expectedShards * larger, Cardinality(dirs)),
         failed        |-> UNION {{<<g, k>> : k \in Cell(g).failed} : g \in groups},
         passed        |-> UNION {{<<g, k>> : k \in Cell(g).passed} : g \in groups},
         skipped       |-> UNION {{<<g, k>> : k \in Cell(g).skipped} : g \in groups},
         crashes       |-> \E g \in groups : Cell(g).crashes,
         unparsable    |-> \E g \in groups : Cell(g).unparsable,
         missingGroups |-> Shortfall(expectedGroups, Cardinality(groups)),
         short         |-> \E g \in groups : Cell(g).missing > 0,
         unmatched     |-> Unmatched \in groups]

(* The property `conclusion' of CellResults.                               *)
Evidence(r) ==
    IF \/ r.shards = 0 \/ r.missing > 0 \/ r.failed # {}
       \/ r.crashes \/ r.unparsable
       \/ r.missingGroups > 0 \/ r.short \/ r.unmatched
    THEN "failure" ELSE "success"

(* The payload: how many tests passed, failed, were skipped, and in all.   *)
TestResults(r) ==
    LET p == Cardinality(r.passed)
        f == Cardinality(r.failed)
        s == Cardinality(r.skipped)
    IN  [passed |-> p, failed |-> f, skipped |-> s, total |-> p + f + s]

(***************************************************************************)
(* The step "Combine conclusions": both signals must agree on a success.   *)
(***************************************************************************)
Combine(jobs, reports) ==
    CASE jobs = "cancelled"                          -> "cancelled"
      [] jobs = "success" /\ reports = "success"     -> "success"
      [] OTHER                                       -> "failure"
================================================================================
