---------------------------- MODULE NightlyRun_proofs ----------------------------
(***************************************************************************)
(* Theorems about NightlyRun, for any number of cells, shards and attempts.*)
(***************************************************************************)
EXTENDS NightlyRun, FiniteSetTheorems, TLAPS

USE DEF run, builds, tests, reports

(***************************************************************************)
(* Operators.                                                              *)
(***************************************************************************)
(* What Combine, ResolveCells and Evidence may say.                        *)
LEMMA VerdictTypes ==
    /\ \A j, e : Combine(j, e) \in Conclusions
    /\ \A l, c : ResolveCells(l, c) \in Conclusions
    /\ \A r : Evidence(r) \in {"success", "failure"}
  BY DEF Combine, ResolveCells, Worst, Evidence, Conclusions

(* The counts that are sent are numbers when the sets are finite.          *)
LEMMA CountTypes ==
  ASSUME NEW r, IsFiniteSet(r.passed), IsFiniteSet(r.failed), IsFiniteSet(r.skipped)
  PROVE  TestResults(r) \in TestResultsType
  BY FS_CardinalityType DEF TestResults, TestResultsType

(* Directories of reports: what is downloaded.                             *)
Directories == [group : Cells, shard : Shards, tree : Trees]

(* The sets that are counted hold tests, tagged with their cell.           *)
LEMMA CountedSets ==
  ASSUME NEW dirs \in SUBSET Directories, NEW n, NEW m
  PROVE  LET r == CollectGroups(dirs, n, m)
         IN  /\ r.passed \subseteq Cells \X Tests
             /\ r.failed \subseteq Cells \X Tests
             /\ r.skipped \subseteq Cells \X Tests
  <1>1. \A d \in dirs : /\ d.group \in Cells
                        /\ PassedKeys(d.tree) \subseteq Tests
                        /\ FailedKeys(d.tree) \subseteq Tests
                        /\ SkippedKeys(d.tree) \subseteq Tests
    BY NightlyAssumption DEF Directories
  <1>2. GroupsOf(dirs) \subseteq Cells
    BY <1>1 DEF GroupsOf
  <1>3. \A g : /\ CollectCell(OfGroup(dirs, g), n).passed \subseteq Tests
               /\ CollectCell(OfGroup(dirs, g), n).failed \subseteq Tests
               /\ CollectCell(OfGroup(dirs, g), n).skipped \subseteq Tests
    BY <1>1 DEF CollectCell, OfGroup
  <1>4. QED
    BY <1>2, <1>3 DEF CollectGroups

(* So the counts are numbers.                                              *)
LEMMA SummaryTypes ==
  ASSUME NEW dirs \in SUBSET Directories, NEW n, NEW m
  PROVE  TestResults(CollectGroups(dirs, n, m)) \in TestResultsType
  <1>1. IsFiniteSet(Cells \X Tests)
    BY FS_Product, NightlyAssumption
  <1>2. QED
    BY <1>1, CountedSets, FS_Subset, CountTypes

(* A report that has not begun is of its type.                             *)
LEMMA NewReportType == NewReport \in JobType
  <1>1. IsFiniteSet({})
    BY FS_EmptySet
  <1>2. TestResults([passed |-> {}, failed |-> {}, skipped |-> {}]) \in TestResultsType
    BY <1>1, CountTypes
  <1>3. QED
    BY <1>2 DEF NewReport, JobType

(***************************************************************************)
(* Types.                                                                  *)
(***************************************************************************)
(* The run starts with every variable in its type.                         *)
LEMMA TypeInit == Init => TypeOK
  BY NewReportType, NightlyAssumption DEF Init, TypeOK, Results

(* A step of the branch, a new attempt or a cancellation keeps the types.  *)
LEMMA TypeAttempts ==
  ASSUME TypeOK, PublishNightly \/ StartRun \/ RerunAll \/ RerunFailed \/ Cancel
  PROVE  TypeOK'
  <1>1. CASE PublishNightly
    BY <1>1, NightlyAssumption DEF PublishNightly, TypeOK
  <1>2. CASE StartRun
    BY <1>2, NewReportType DEF StartRun, AllDue, TypeOK, Results
  <1>3. CASE RerunAll
    BY <1>3, NewReportType DEF RerunAll, AllDue, TypeOK, Results
  <1>4. CASE RerunFailed
    <2>1. /\ build' \in [Cells -> Results] /\ test' \in [AllShards -> Results]
          /\ report' \in [Rows -> Results]
      BY <1>4 DEF RerunFailed, TypeOK, Results, Again
    <2>2. job' \in [Rows -> JobType]
      BY <1>4, NewReportType DEF RerunFailed, TypeOK
    <2>3. attempt' \in Nat
      BY <1>4 DEF RerunFailed, TypeOK
    <2>4. QED
      BY <1>4, <2>1, <2>2, <2>3 DEF RerunFailed, TypeOK
  <1>5. CASE Cancel
    <2>1. build' \in [Cells -> Results] /\ test' \in [AllShards -> Results]
      BY <1>5 DEF Cancel, TypeOK, Results
    <2>2. faults' \in Nat
      BY <1>5, NightlyAssumption DEF Cancel, Faulty, TypeOK
    <2>3. QED
      BY <1>5, <2>1, <2>2 DEF Cancel, TypeOK
  <1>6. QED
    BY <1>1, <1>2, <1>3, <1>4, <1>5

(* A fault more is still a number.                                         *)
LEMMA FaultType ==
  ASSUME TypeOK, (UNCHANGED faults) \/ Faulty(1)
  PROVE  faults' \in Nat
  BY DEF Faulty, TypeOK

(* Resolving, building and testing keep the types.                         *)
LEMMA TypeWork ==
  ASSUME TypeOK,
         \/ \E n \in 1..clock : Resolve(n)
         \/ PrepFails
         \/ \E c \in Cells, r \in {"success", "failure"}, u \in BOOLEAN : EndBuild(c, r, u)
         \/ \E x \in AllShards, r \in TestEnds, t \in Trees \union {NoTree} :
                EndTest(x, r, t)
  PROVE  TypeOK'
  <1>1. CASE \E n \in 1..clock : Resolve(n)
    <2>1. PICK n \in 1..clock : Resolve(n)
      BY <1>1
    <2>2. SourceAt[n] \in Sources \union {NoSource}
      BY NightlyAssumption DEF TypeOK
    <2>3. QED
      BY <2>1, <2>2 DEF Resolve, TypeOK, Results
  <1>2. CASE PrepFails
    <2>1. faults' \in Nat
      BY <1>2, FaultType DEF PrepFails
    <2>2. QED
      BY <1>2, <2>1 DEF PrepFails, TypeOK, Results
  <1>3. CASE \E c \in Cells, r \in {"success", "failure"}, u \in BOOLEAN : EndBuild(c, r, u)
    <2>1. PICK c \in Cells, r \in {"success", "failure"}, u \in BOOLEAN : EndBuild(c, r, u)
      BY <1>3
    <2>2. faults' \in Nat
      BY <2>1, FaultType DEF EndBuild
    <2>3. build' \in [Cells -> Results] /\ wheel' \in [Cells -> Sources \union {NoSource}]
      BY <2>1 DEF EndBuild, TypeOK, Results
    <2>4. QED
      BY <2>1, <2>2, <2>3 DEF EndBuild, TypeOK
  <1>4. CASE \E x \in AllShards, r \in TestEnds, t \in Trees \union {NoTree} : EndTest(x, r, t)
    <2>1. PICK x \in AllShards, r \in TestEnds, t \in Trees \union {NoTree} : EndTest(x, r, t)
      BY <1>4
    <2>2. faults' \in Nat
      BY <2>1, FaultType DEF EndTest
    <2>3. r \in Results /\ x[1] \in Cells /\ x[2] \in Shards
      BY NightlyAssumption DEF Results, AllShards
    <2>4. test' \in [AllShards -> Results]
      BY <2>1, <2>3 DEF EndTest, TypeOK
    <2>5. tested' \subseteq TestedType
      BY <2>1, <2>3 DEF EndTest, TypeOK, TestedType
    <2>6. QED
      BY <2>1, <2>2, <2>4, <2>5 DEF EndTest, TypeOK
  <1>5. QED
    BY <1>1, <1>2, <1>3, <1>4

(* What is downloaded are directories of reports.                          *)
LEMMA DownloadType ==
  ASSUME TypeOK, NEW missed
  PROVE  {DirectoryOf(t) : t \in Artifacts \ missed} \subseteq Directories
  BY DEF TypeOK, TestedType, Artifacts, DirectoryOf, Directories

(* The reporting jobs keep the types.                                      *)
LEMMA TypeReports ==
  ASSUME TypeOK,
         \/ \E row \in Rows :
               \/ SkipReport(row)
               \/ \E u \in SUBSET JobsOf(row) : ResolveRow(row, u)
               \/ \E o \in Outcomes : Post(row, o)
               \/ LoseReport(row)
         \/ \E m \in SUBSET Artifacts : Summarize(m)
  PROVE  TypeOK'
  <1>1. CASE \E m \in SUBSET Artifacts : Summarize(m)
    <2>1. PICK m \in SUBSET Artifacts : Summarize(m)
      BY <1>1
    <2> DEFINE r == CollectGroups({DirectoryOf(t) : t \in Artifacts \ m},
                                  Cardinality(Shards), Cardinality(Cells))
    <2>2. faults' \in Nat
      BY <2>1, FaultType DEF Summarize
    <2>3. TestResults(r) \in TestResultsType
      BY DownloadType, SummaryTypes
    <2>4. Evidence(r) \in {"success", "failure"}
      BY VerdictTypes
    <2>5. Combine(job["test"].verdict, Evidence(r)) \in Conclusions
      BY VerdictTypes
    <2> DEFINE j == [job["test"] EXCEPT !.at = "post", !.reports = Evidence(r),
                                        !.results = TestResults(r),
                                        !.verdict = Combine(job["test"].verdict, Evidence(r))]
    <2>6. job' = [job EXCEPT !["test"] = j]
      BY <2>1 DEF Summarize
    <2> HIDE DEF r
    <2>a. j \in JobType
      BY <2>3, <2>4, <2>5 DEF TypeOK, JobType, Rows
    <2> HIDE DEF j
    <2>7. job' \in [Rows -> JobType]
      BY <2>a, <2>6 DEF TypeOK
    <2>8. QED
      BY <2>1, <2>2, <2>7 DEF Summarize, TypeOK
  <1>2. ASSUME NEW row \in Rows, SkipReport(row) PROVE TypeOK'
    BY <1>2 DEF SkipReport, TypeOK, Results
  <1>3. ASSUME NEW row \in Rows, NEW u \in SUBSET JobsOf(row), ResolveRow(row, u)
        PROVE  TypeOK'
    <2> DEFINE c == ResolveCells(Listing(row, u), Cells)
    <2>1. faults' \in Nat
      BY <1>3, FaultType DEF ResolveRow
    <2>2. c \in Conclusions
      BY VerdictTypes
    <2> DEFINE j == [job[row] EXCEPT !.at = IF row = "test" THEN "download" ELSE "post",
                                     !.jobs = c, !.verdict = c, !.late = u # {}]
    <2>3. \/ /\ job' = [job EXCEPT ![row] = j]
             /\ UNCHANGED report
          \/ /\ report' \in {[report EXCEPT ![row] = "success"],
                             [report EXCEPT ![row] = "failure"]}
             /\ UNCHANGED job
      BY <1>3 DEF ResolveRow
    <2>4. UNCHANGED <<clock, run, prep, commit, builds, tests, hud>>
      BY <1>3 DEF ResolveRow
    <2> HIDE DEF c
    <2>a. j \in JobType
      <3>1. (u # {}) \in BOOLEAN
        OBVIOUS
      <3>2. job[row] \in JobType
        BY DEF TypeOK
      <3> DEFINE late == u # {}
                 at == IF row = "test" THEN "download" ELSE "post"
      <3>3. late \in BOOLEAN /\ at \in {"download", "post"}
        BY <3>1
      <3>4. j = [job[row] EXCEPT !.at = at, !.jobs = c, !.verdict = c, !.late = late]
        OBVIOUS
      <3> HIDE DEF j, late, at
      <3>5. QED
        BY <2>2, <3>2, <3>3, <3>4 DEF JobType
    <2> HIDE DEF j
    <2>5. job' \in [Rows -> JobType] /\ report' \in [Rows -> Results]
      BY <2>3, <2>a DEF TypeOK, Results
    <2>6. QED
      BY <2>1, <2>4, <2>5 DEF TypeOK
  <1>4. ASSUME NEW row \in Rows, NEW o \in Outcomes, Post(row, o) PROVE TypeOK'
    <2>1. faults' \in Nat
      BY <1>4, FaultType DEF Post
    <2>2. Row(row) \in RowType
      BY DEF Row, TypeOK, JobType, RowType
    <2>3. hud' \subseteq RowType
      BY <1>4, <2>2 DEF Post, Refile, TypeOK
    <2> DEFINE j == [job[row] EXCEPT !.tries = job[row].tries + 1]
    <2>a. j \in JobType
      BY DEF TypeOK, JobType
    <2>b. job' = [job EXCEPT ![row] = j]
      BY <1>4 DEF Post
    <2> HIDE DEF j
    <2>4. job' \in [Rows -> JobType]
      BY <2>a, <2>b DEF TypeOK
    <2>5. report' \in [Rows -> Results]
      BY <1>4 DEF Post, TypeOK, Results, Match
    <2>6. QED
      BY <1>4, <2>1, <2>3, <2>4, <2>5 DEF Post, TypeOK
  <1>5. ASSUME NEW row \in Rows, LoseReport(row) PROVE TypeOK'
    <2>1. faults' \in Nat
      BY <1>5, FaultType DEF LoseReport
    <2>2. QED
      BY <1>5, <2>1 DEF LoseReport, TypeOK, Results
  <1>6. QED
    BY <1>1, <1>2, <1>3, <1>4, <1>5

(* Every step keeps the types.                                             *)
LEMMA TypeNext == TypeOK /\ [Next]_vars => TypeOK'
  <1> SUFFICES ASSUME TypeOK, [Next]_vars PROVE TypeOK'
    OBVIOUS
  <1>1. CASE UNCHANGED vars \/ Over
    BY <1>1 DEF vars, Over, TypeOK
  <1>2. CASE PublishNightly \/ StartRun \/ RerunAll \/ RerunFailed \/ Cancel
    BY <1>2, TypeAttempts
  <1>3. CASE Progress
    BY <1>3, TypeWork, TypeReports DEF Progress
  <1>4. QED
    BY <1>1, <1>2, <1>3 DEF Next

(* Every variable keeps to its type, and a row holds a conclusion the HUD  *)
(* understands and counts that are numbers.                                *)
THEOREM TypeCorrect == Spec => []TypeOK
  BY TypeInit, TypeNext, PTL DEF Spec

(***************************************************************************)
(* The commit of the run.                                                  *)
(***************************************************************************)
(* What the run was first started on, or nothing yet.                      *)
Pinned == {NoSource, SourceAt[started]}

(* Nothing is resolved, built, tested or reported before the run, and      *)
(* nothing but the pinned commit after that.                               *)
PinInv ==
    /\ attempt > 0 => started \in 1..clock
    /\ attempt = 0 => /\ prep = "skipped" /\ commit = NoSource /\ tested = {} /\ hud = {}
                      /\ \A c \in Cells : wheel[c] = NoSource
    /\ commit \in Pinned
    /\ prep = "success" => commit # NoSource
    /\ \A c \in Cells : wheel[c] \in Pinned
    /\ \A t \in tested : t.commit \in Pinned
    /\ \A h \in hud : h.commit = SourceAt[started]

(* The run starts with nothing of any commit.                              *)
LEMMA PinInit == Init => PinInv
  BY DEF Init, PinInv, Pinned

(* Whatever became of the branch, the newest candidate is the nightly that *)
(* was in effect at the start, or there is none.                           *)
LEMMA PinResolve ==
  ASSUME TypeOK, PinInv, NEW n \in 1..clock, Resolve(n)
  PROVE  n = started
  <1>1. attempt > 0
    BY DEF Resolve, PinInv, TypeOK
  <1>2. started \in 1..clock
    BY <1>1 DEF PinInv
  <1>3. n \in Candidates /\ \A m \in Candidates : m <= n
    BY DEF Resolve, NewestOf
  <1>4. clock \in Int /\ Window \in Int /\ n \in Int /\ started \in Int
    BY NightlyAssumption DEF TypeOK
  <1>5. n <= started /\ n > clock - Window
    BY <1>3 DEF Candidates, Fetched
  <1>6. started > clock - Window
    BY <1>4, <1>5
  <1>7. started \in Candidates
    BY <1>2, <1>4, <1>6 DEF Candidates, Fetched
  <1>8. QED
    BY <1>3, <1>4, <1>5, <1>7

(* Every step keeps to the pinned commit.                                  *)
LEMMA PinNext == TypeOK /\ PinInv /\ [Next]_vars => PinInv'
  <1> SUFFICES ASSUME TypeOK, PinInv, [Next]_vars PROVE PinInv'
    OBVIOUS
  <1>1. CASE UNCHANGED vars \/ Over
    BY <1>1 DEF vars, Over, PinInv, Pinned
  <1>2. CASE PublishNightly
    BY <1>2 DEF PublishNightly, PinInv, Pinned, TypeOK
  <1>3. CASE StartRun
    BY <1>3 DEF StartRun, AllDue, PinInv, Pinned, TypeOK
  <1>4. CASE RerunAll
    BY <1>4 DEF RerunAll, AllDue, PinInv, Pinned, TypeOK
  <1>5. CASE RerunFailed
    BY <1>5 DEF RerunFailed, PinInv, Pinned, TypeOK
  <1>6. CASE Cancel
    BY <1>6 DEF Cancel, PinInv, Pinned
  <1>7. ASSUME NEW n \in 1..clock, Resolve(n) PROVE PinInv'
    <2>1. n = started
      BY <1>7, PinResolve
    <2>2. QED
      BY <1>7, <2>1 DEF Resolve, PinInv, Pinned
  <1>8. CASE PrepFails
    BY <1>8 DEF PrepFails, PinInv, Pinned
  <1>9. ASSUME NEW c \in Cells, NEW r, NEW u, EndBuild(c, r, u) PROVE PinInv'
    <2>1. \A d \in Cells : wheel'[d] \in Pinned
      BY <1>9 DEF EndBuild, PinInv, TypeOK
    <2>2. prep = "success"
      BY <1>9 DEF EndBuild
    <2>3. QED
      BY <1>9, <2>1, <2>2 DEF EndBuild, PinInv, Pinned
  <1>10. ASSUME NEW x \in AllShards, NEW r, NEW t, EndTest(x, r, t) PROVE PinInv'
    <2>1. x[1] \in Cells /\ prep = "success"
      BY <1>10 DEF EndTest, BuildsOver, AllShards
    <2>2. \A q \in tested' : q.commit \in Pinned
      BY <1>10, <2>1 DEF EndTest, PinInv
    <2>3. QED
      BY <1>10, <2>1, <2>2 DEF EndTest, PinInv, Pinned
  <1>11. ASSUME NEW row \in Rows, NEW o, Post(row, o) PROVE PinInv'
    <2>1. prep = "success" /\ commit = SourceAt[started]
      BY <1>11 DEF Post, Ready, TestsOver, BuildsOver, PinInv, Pinned
    <2>2. \A h \in hud' : h.commit = SourceAt[started]
      <3>1. hud' \subseteq hud \union {Row(row)}
        BY <1>11 DEF Post, Refile
      <3>2. Row(row).commit = SourceAt[started]
        BY <2>1 DEF Row
      <3>3. started' = started
        BY <1>11 DEF Post
      <3>4. QED
        BY <3>1, <3>2, <3>3 DEF PinInv
    <2>3. QED
      BY <1>11, <2>1, <2>2 DEF Post, PinInv, Pinned
  <1>12. ASSUME NEW row \in Rows,
                SkipReport(row) \/ LoseReport(row) \/ \E u : ResolveRow(row, u)
         PROVE  PinInv'
    BY <1>12 DEF SkipReport, LoseReport, ResolveRow, PinInv, Pinned
  <1>13. ASSUME NEW m, Summarize(m) PROVE PinInv'
    BY <1>13 DEF Summarize, PinInv, Pinned
  <1>14. QED
    BY <1>1, <1>2, <1>3, <1>4, <1>5, <1>6, <1>7, <1>8, <1>9, <1>10, <1>11, <1>12, <1>13
    DEF Next, Progress

(* Every attempt builds, tests and reports the commit that was the nightly *)
(* when the run was first started, wherever the branch has moved since.    *)
THEOREM ReportedIsTestedHolds == Spec => []ReportedIsTested
  <1>1. PinInv => ReportedIsTested
    BY DEF PinInv, Pinned, ReportedIsTested
  <1>2. QED
    BY <1>1, PinInit, PinNext, TypeInit, TypeNext, PTL DEF Spec

(***************************************************************************)
(* What a green verdict stands on.                                         *)
(***************************************************************************)
(* When the reports of a run are evidence of a success, every group is     *)
(* there, with the shards that were expected of it, and each of them is    *)
(* green: two directories of one shard of one group are the same.          *)
LEMMA EvidenceStands ==
  ASSUME NEW dirs \in SUBSET Directories,
         \A d, e \in dirs : d.group = e.group /\ d.shard = e.shard => d = e,
         Evidence(CollectGroups(dirs, Cardinality(Shards), Cardinality(Cells))) = "success"
  PROVE  \A c \in Cells, s \in Shards :
            \E d \in dirs : d.group = c /\ d.shard = s /\ Green(d.tree)
  <1> DEFINE n == Cardinality(Shards)
             r == CollectGroups(dirs, n, Cardinality(Cells))
             cell(g) == CollectCell(OfGroup(dirs, g), n)
  <1>1. /\ r.failed = {} /\ ~r.crashes /\ ~r.unparsable
        /\ ~(r.missingGroups > 0) /\ ~r.short
    BY DEF Evidence
  <1>2. /\ Cardinality(Cells) \in Nat \ {0} /\ n \in Nat \ {0}
    BY FS_EmptySet, FS_CardinalityType, NightlyAssumption
  <1>3. GroupsOf(dirs) = Cells
    <2>1. GroupsOf(dirs) \subseteq Cells
      BY DEF GroupsOf, Directories
    <2>2. /\ IsFiniteSet(GroupsOf(dirs)) /\ Cardinality(GroupsOf(dirs)) \in Nat
          /\ Cardinality(GroupsOf(dirs)) <= Cardinality(Cells)
      BY <2>1, FS_Subset, FS_CardinalityType, NightlyAssumption
    <2>3. ~(Shortfall(Cardinality(Cells), Cardinality(GroupsOf(dirs))) > 0)
      BY <1>1 DEF CollectGroups
    <2>4. Cardinality(Cells) = Cardinality(GroupsOf(dirs))
      BY <1>2, <2>2, <2>3 DEF Shortfall, AtLeastZero
    <2>5. QED
      BY <2>1, <2>4, FS_Subset, NightlyAssumption
  <1>4. \A g \in Cells : /\ cell(g).failed = {} /\ ~cell(g).crashes
                         /\ ~cell(g).unparsable /\ ~(cell(g).missing > 0)
    <2>1. /\ r.failed = UNION {{<<g, k>> : k \in cell(g).failed} : g \in Cells}
          /\ r.crashes <=> \E g \in Cells : cell(g).crashes
          /\ r.unparsable <=> \E g \in Cells : cell(g).unparsable
          /\ r.short <=> \E g \in Cells : cell(g).missing > 0
      BY <1>3 DEF CollectGroups
    <2> HIDE DEF r, cell
    <2>2. ASSUME NEW g \in Cells, NEW k \in cell(g).failed PROVE FALSE
      <3>1. <<g, k>> \in r.failed
        BY <2>1
      <3>2. QED
        BY <1>1, <3>1
    <2>3. QED
      BY <1>1, <2>1, <2>2
  <1>5. ASSUME NEW c \in Cells, NEW s \in Shards
        PROVE  \E d \in dirs : d.group = c /\ d.shard = s /\ Green(d.tree)
    <2> DEFINE own == OfGroup(dirs, c)
               f == [d \in own |-> d.shard]
    <2>1. f \in Injection(own, Shards)
      <3>1. f \in [own -> Shards]
        BY DEF OfGroup, Directories
      <3>2. \A d, e \in own : f[d] = f[e] => d = e
        BY DEF OfGroup
      <3>3. QED
        BY <3>1, <3>2 DEF Injection, IsInjective
    <2>2. IsFiniteSet(own) /\ Cardinality(own) <= n
      BY <2>1, FS_Injection, NightlyAssumption
    <2>3. ~(Shortfall(n, Cardinality(own)) > 0)
      BY <1>4 DEF CollectCell
    <2>4. Cardinality(own) \in Nat
      BY <2>2, FS_CardinalityType
    <2>5. Cardinality(own) = n
      BY <1>2, <2>2, <2>3, <2>4 DEF Shortfall, AtLeastZero
    <2>6. f \in Surjection(own, Shards)
      BY <2>1, <2>5, FS_Injection, NightlyAssumption
    <2>7. PICK d \in own : f[d] = s
      BY <2>6 DEF Surjection
    <2>8. d \in dirs /\ d.group = c /\ d.shard = s
      BY <2>7 DEF OfGroup
    <2>9. FailedKeys(d.tree) = {}
      BY <1>4, <2>7 DEF CollectCell
    <2>10. ~(MissingItemization(d.tree) > 0) /\ d.tree.broken = {}
      BY <1>4, <2>7 DEF CollectCell
    <2>11. MissingItemization(d.tree) = 0
      BY <2>10 DEF MissingItemization, AtLeastZero
    <2>12. QED
      BY <2>8, <2>9, <2>10, <2>11 DEF Green
  <1>6. QED
    BY <1>5

(* When the jobs of a row resolve to a success, each of them succeeded or  *)
(* was skipped; one whose conclusion is not known yet counts as failed.    *)
LEMMA JobsStand ==
  ASSUME TypeOK, NEW row \in Rows, NEW u \in SUBSET JobsOf(row),
         ResolveCells(Listing(row, u), Cells) = "success"
  PROVE  \A x \in JobsOf(row) :
            (IF row = "build" THEN build[x] ELSE test[x]) \in {"success", "skipped"}
  <1> DEFINE ends == {Normalize(j.conclusion) :
                        j \in UNION {CellJobs(Listing(row, u), c) : c \in Cells}}
  <1>1. "failure" \notin ends /\ "cancelled" \notin ends
    BY DEF ResolveCells, Worst
  <1>2. ASSUME NEW x \in JobsOf(row)
        PROVE  (IF row = "build" THEN build[x] ELSE test[x]) \in {"success", "skipped"}
    <2> DEFINE result == IF row = "build" THEN build[x] ELSE test[x]
               j == [job |-> x, cell |-> IF row = "build" THEN x ELSE x[1],
                     conclusion |-> IF x \in u THEN Null ELSE result]
    <2>1. j \in Listing(row, u)
      BY DEF Listing
    <2>2. j.cell \in Cells
      BY DEF JobsOf, AllShards
    <2>3. Normalize(j.conclusion) \in ends
      BY <2>1, <2>2 DEF CellJobs
    <2>4. Normalize(j.conclusion) \notin {"failure", "cancelled"}
      BY <1>1, <2>3
    <2>5. x \notin u /\ Normalize(result) \notin {"failure", "cancelled"}
      BY <2>4, NullAssumption DEF Normalize
    <2>6. result \in Results
      BY DEF TypeOK, JobsOf, AllShards
    <2>7. QED
      BY <2>5, <2>6 DEF Normalize, Results
  <1>3. QED
    BY <1>2

(***************************************************************************)
(* Green rows.                                                             *)
(***************************************************************************)
(* The stages of an attempt follow each other: while prep or a build is    *)
(* due, so is every test; a build is not skipped behind a resolved commit, *)
(* and one that succeeded has left its wheels.                             *)
StageInv ==
    /\ prep = "due" => \A c \in Cells : build[c] = "due"
    /\ prep = "due" \/ (\E c \in Cells : build[c] = "due") =>
          \A x \in AllShards : test[x] = "due"
    /\ prep = "success" => \A c \in Cells : build[c] # "skipped"
    /\ \A c \in Cells : build[c] = "success" => wheel[c] # NoSource

(* A shard ran at most once in an attempt, and in the present one its job  *)
(* has the result the shard ended with.                                    *)
ShardInv ==
    /\ \A t \in tested : /\ t.attempt <= attempt
                         /\ t.result \notin {"due", "skipped"}
                         /\ t.attempt = attempt => test[<<t.cell, t.shard>>] = t.result
    /\ \A t, v \in tested :
          t.cell = v.cell /\ t.shard = v.shard /\ t.attempt = v.attempt => t = v

(* A reporting job that is past its first step reads what can no longer    *)
(* change, and a success it is about to file was earned.                   *)
JobInv ==
    \A row \in Rows :
        report[row] = "due" /\ job[row].at # "resolve" =>
            /\ TestsOver
            /\ job[row].at = "download" => row = "test"
            /\ job[row].verdict = "success" =>
                  IF row = "build" THEN \A c \in Cells : build[c] = "success"
                  ELSE IF job[row].at = "download"
                       THEN \A x \in AllShards : test[x] \in {"success", "skipped"}
                       ELSE \A x \in AllShards : EarnedBy(x, attempt)

(* Every row was filed by an attempt there was.                            *)
HudInv == HudNotBetter /\ \A h \in hud : h.attempt <= attempt

(* All of it holds at the start.                                           *)
LEMMA GreenInit == Init => StageInv /\ ShardInv /\ JobInv /\ HudInv
  BY DEF Init, StageInv, ShardInv, JobInv, HudInv, HudNotBetter

(* The stages follow each other.                                           *)
LEMMA StageNext == TypeOK /\ PinInv /\ StageInv /\ [Next]_vars => StageInv'
  <1> SUFFICES ASSUME TypeOK, PinInv, StageInv, [Next]_vars PROVE StageInv'
    OBVIOUS
  <1>1. CASE UNCHANGED <<prep, build, wheel, test>>
    BY <1>1 DEF StageInv
  <1>2. CASE StartRun \/ RerunAll
    BY <1>2 DEF StartRun, RerunAll, AllDue, StageInv
  <1>3. CASE RerunFailed
    BY <1>3 DEF RerunFailed, Again, StageInv
  <1>4. CASE Cancel
    BY <1>4 DEF Cancel, StageInv
  <1>5. ASSUME NEW n \in 1..clock, Resolve(n) PROVE StageInv'
    BY <1>5 DEF Resolve, StageInv
  <1>6. CASE PrepFails
    BY <1>6 DEF PrepFails, StageInv
  <1>7. ASSUME NEW c \in Cells, NEW r \in {"success", "failure"}, NEW u \in BOOLEAN,
               EndBuild(c, r, u)
        PROVE  StageInv'
    <2>1. prep = "success" /\ commit # NoSource /\ build[c] = "due" /\ prep' = prep
      BY <1>7 DEF EndBuild, PinInv
    <2>2. \A d \in Cells : build'[d] = IF d = c THEN r ELSE build[d]
      BY <1>7 DEF EndBuild, TypeOK
    <2>3. \A d \in Cells : wheel'[d] = IF d = c /\ u THEN commit ELSE wheel[d]
      BY <1>7 DEF EndBuild, TypeOK
    <2>4. r = "success" => u
      BY <1>7 DEF EndBuild
    <2>5. test' = test
      BY <1>7 DEF EndBuild
    <2>6. QED
      BY <2>1, <2>2, <2>3, <2>4, <2>5 DEF StageInv
  <1>8. ASSUME NEW x \in AllShards, NEW r, NEW t, EndTest(x, r, t) PROVE StageInv'
    BY <1>8 DEF EndTest, BuildsOver, StageInv
  <1>9. CASE \E row \in Rows :
               \/ SkipReport(row)
               \/ \E u \in SUBSET JobsOf(row) : ResolveRow(row, u)
               \/ \E o \in Outcomes : Post(row, o)
               \/ LoseReport(row)
    <2>1. UNCHANGED <<prep, build, wheel, test>>
      BY <1>9 DEF SkipReport, ResolveRow, Post, LoseReport
    <2>2. QED
      BY <1>1, <2>1
  <1>10. CASE \E m \in SUBSET Artifacts : Summarize(m)
    <2>1. UNCHANGED <<prep, build, wheel, test>>
      BY <1>10 DEF Summarize
    <2>2. QED
      BY <1>1, <2>1
  <1>11. QED
    BY <1>1, <1>2, <1>3, <1>4, <1>5, <1>6, <1>7, <1>8, <1>9, <1>10
    DEF Next, Progress, PublishNightly, Over, vars

(* A shard runs once in an attempt.                                        *)
LEMMA ShardNext == TypeOK /\ StageInv /\ ShardInv /\ [Next]_vars => ShardInv'
  <1> SUFFICES ASSUME TypeOK, StageInv, ShardInv, [Next]_vars PROVE ShardInv'
    OBVIOUS
  <1>1. CASE UNCHANGED <<attempt, test, tested>>
    BY <1>1 DEF ShardInv
  <1>2. CASE tested' = tested /\ attempt' = attempt + 1
    <2>1. \A t \in tested : t.attempt \in Nat /\ t.attempt <= attempt
      BY DEF ShardInv, TypeOK, TestedType
    <2>2. attempt \in Nat
      BY DEF TypeOK
    <2>3. QED
      BY <1>2, <2>1, <2>2 DEF ShardInv
  <1>3. ASSUME UNCHANGED <<attempt, tested>>,
               \A x \in AllShards : test'[x] # test[x] => test[x] = "due"
        PROVE  ShardInv'
    <2>1. ASSUME NEW t \in tested, t.attempt = attempt
          PROVE  test'[<<t.cell, t.shard>>] = t.result
      <3>1. <<t.cell, t.shard>> \in AllShards
        BY DEF TypeOK, TestedType, AllShards
      <3>2. test[<<t.cell, t.shard>>] # "due"
        BY <2>1 DEF ShardInv
      <3>3. QED
        BY <1>3, <2>1, <3>1, <3>2 DEF ShardInv
    <2>2. QED
      BY <1>3, <2>1 DEF ShardInv
  <1>4. CASE Cancel
    <2>1. \A x \in AllShards : test'[x] # test[x] => test[x] = "due"
      BY <1>4 DEF Cancel, StageInv
    <2>2. QED
      BY <1>3, <1>4, <2>1 DEF Cancel
  <1>5. CASE PrepFails
    BY <1>3, <1>5 DEF PrepFails, StageInv
  <1>6. ASSUME NEW x \in AllShards, NEW r \in TestEnds, NEW tree \in Trees \union {NoTree},
               EndTest(x, r, tree)
        PROVE  ShardInv'
    <2> DEFINE n == [cell |-> x[1], shard |-> x[2], attempt |-> attempt,
                     commit |-> wheel[x[1]], result |-> r, tree |-> tree]
    <2>1. /\ tested' = tested \union {n} /\ attempt' = attempt /\ test[x] = "due"
          /\ \A y \in AllShards : test'[y] = IF y = x THEN r ELSE test[y]
      BY <1>6 DEF EndTest, TypeOK
    <2>2. x = <<n.cell, n.shard>> /\ x \in AllShards /\ attempt \in Nat
      BY DEF AllShards, TypeOK
    <2>3. r \notin {"due", "skipped"}
      BY NightlyAssumption
    <2>4. \A t \in tested : /\ <<t.cell, t.shard>> \in AllShards
                            /\ <<t.cell, t.shard>> = x => t.attempt # attempt
      <3>1. TAKE t \in tested
      <3>2. t.cell \in Cells /\ t.shard \in Shards
        BY DEF TypeOK, TestedType
      <3>3. <<t.cell, t.shard>> \in AllShards
        BY <3>2 DEF AllShards
      <3>4. t.result # "due" /\ (t.attempt = attempt => test[<<t.cell, t.shard>>] = t.result)
        BY DEF ShardInv
      <3>5. QED
        BY <2>1, <3>3, <3>4
    <2>5. n.attempt = attempt /\ n.result = r
      OBVIOUS
    <2> HIDE DEF n
    <2>6. ASSUME NEW t \in tested
          PROVE  /\ t.attempt <= attempt' /\ t.result \notin {"due", "skipped"}
                 /\ t.attempt = attempt' => test'[<<t.cell, t.shard>>] = t.result
      <3>1. <<t.cell, t.shard>> \in AllShards
        BY <2>4
      <3>2. <<t.cell, t.shard>> = x => t.attempt # attempt
        BY <2>4
      <3>3. /\ t.attempt <= attempt /\ t.result \notin {"due", "skipped"}
            /\ t.attempt = attempt => test[<<t.cell, t.shard>>] = t.result
        BY DEF ShardInv
      <3>4. QED
        BY <2>1, <3>1, <3>2, <3>3
    <2>7. /\ n.attempt <= attempt' /\ n.result \notin {"due", "skipped"}
          /\ n.attempt = attempt' => test'[<<n.cell, n.shard>>] = n.result
      BY <2>1, <2>2, <2>3, <2>5
    <2>8. ASSUME NEW t \in tested', NEW v \in tested', t.cell = v.cell,
                 t.shard = v.shard, t.attempt = v.attempt
          PROVE  t = v
      BY <2>1, <2>2, <2>4, <2>5, <2>8 DEF ShardInv
    <2>9. \A t, v \in tested' :
             t.cell = v.cell /\ t.shard = v.shard /\ t.attempt = v.attempt => t = v
      BY <2>8
    <2>10. QED
      BY <2>1, <2>6, <2>7, <2>9 DEF ShardInv
  <1>7. CASE StartRun \/ RerunAll \/ RerunFailed
    BY <1>2, <1>7 DEF StartRun, RerunAll, RerunFailed, TypeOK
  <1>8. CASE PublishNightly \/ UNCHANGED vars \/ Over
    BY <1>1, <1>8 DEF PublishNightly, Over, vars
  <1>9. CASE \/ \E n \in 1..clock : Resolve(n)
             \/ \E c \in Cells, r \in {"success", "failure"}, u \in BOOLEAN : EndBuild(c, r, u)
    BY <1>1, <1>9 DEF Resolve, EndBuild
  <1>10. CASE \/ \E row \in Rows :
                   \/ SkipReport(row)
                   \/ \E u \in SUBSET JobsOf(row) : ResolveRow(row, u)
                   \/ \E o \in Outcomes : Post(row, o)
                   \/ LoseReport(row)
              \/ \E m \in SUBSET Artifacts : Summarize(m)
    <2>1. UNCHANGED <<attempt, test, tested>>
      BY <1>10 DEF SkipReport, ResolveRow, Post, LoseReport, Summarize
    <2>2. QED
      BY <1>1, <2>1
  <1>11. QED
    BY <1>4, <1>5, <1>6, <1>7, <1>8, <1>9, <1>10 DEF Next, Progress

(* What a reporting job has read stays, and what it files was earned.      *)
LEMMA JobNext ==
  ASSUME TypeOK, StageInv, ShardInv, JobInv, [Next]_vars PROVE JobInv'
  <1>1. CASE UNCHANGED vars \/ Over \/ PublishNightly
    <2>1. UNCHANGED <<prep, build, test, tested, attempt, report, job>>
      BY <1>1 DEF vars, Over, PublishNightly
    <2>2. TestsOver' <=> TestsOver
      BY <2>1 DEF TestsOver, BuildsOver
    <2>3. \A x : EarnedBy(x, attempt)' <=> EarnedBy(x, attempt)
      BY <2>1 DEF EarnedBy
    <2>4. QED
      BY <2>1, <2>2, <2>3 DEF JobInv
  <1>2. CASE StartRun \/ RerunAll
    BY <1>2 DEF StartRun, RerunAll, AllDue, NewReport, JobInv
  <1>3. CASE RerunFailed
    <2>1. \A r \in Rows : report'[r] = "due" => job'[r] = NewReport
      BY <1>3 DEF RerunFailed
    <2>2. QED
      BY <2>1 DEF JobInv, NewReport
  <1>4. CASE ~TestsOver /\ UNCHANGED <<report, job>>
    BY <1>4 DEF JobInv
  <1>5. CASE \/ Cancel
             \/ \E n \in 1..clock : Resolve(n)
             \/ \E c \in Cells, r \in {"success", "failure"}, u \in BOOLEAN : EndBuild(c, r, u)
             \/ \E x \in AllShards, r \in TestEnds, t \in Trees \union {NoTree} :
                    EndTest(x, r, t)
    <2>1. ~TestsOver /\ UNCHANGED <<report, job>>
      BY <1>5 DEF Cancel, Resolve, EndBuild, EndTest, TestsOver, BuildsOver
    <2>2. QED
      BY <1>4, <2>1
  <1>6. CASE PrepFails
    BY <1>6 DEF PrepFails, JobInv
  <1>7. ASSUME NEW row \in Rows, SkipReport(row) \/ LoseReport(row) PROVE JobInv'
    <2>1. /\ report' \in {[report EXCEPT ![row] = "skipped"], [report EXCEPT ![row] = "failure"]}
          /\ UNCHANGED <<prep, build, test, tested, attempt, job>>
      BY <1>7 DEF SkipReport, LoseReport
    <2>2. \A r \in Rows : report'[r] = "due" => report[r] = "due"
      BY <2>1 DEF TypeOK
    <2>3. TestsOver' <=> TestsOver
      BY <2>1 DEF TestsOver, BuildsOver
    <2>4. \A x : EarnedBy(x, attempt)' <=> EarnedBy(x, attempt)
      BY <2>1 DEF EarnedBy
    <2>5. QED
      BY <2>1, <2>2, <2>3, <2>4 DEF JobInv
  <1>8. ASSUME NEW row \in Rows, NEW u \in SUBSET JobsOf(row), ResolveRow(row, u)
        PROVE  JobInv'
    <2> DEFINE c == ResolveCells(Listing(row, u), Cells)
               j == [job[row] EXCEPT !.at = IF row = "test" THEN "download" ELSE "post",
                                     !.jobs = c, !.verdict = c, !.late = u # {}]
    <2>1. /\ TestsOver /\ job[row].at = "resolve"
          /\ UNCHANGED <<prep, build, test, tested, attempt>>
          /\ \/ job' = [job EXCEPT ![row] = j] /\ UNCHANGED report
             \/ /\ report' \in {[report EXCEPT ![row] = "success"],
                                [report EXCEPT ![row] = "failure"]}
                /\ UNCHANGED job
      BY <1>8 DEF ResolveRow, Ready
    <2>2. TestsOver'
      BY <2>1 DEF TestsOver, BuildsOver
    <2>3. \A x : EarnedBy(x, attempt)' <=> EarnedBy(x, attempt)
      BY <2>1 DEF EarnedBy
    <2>4. j.at = (IF row = "test" THEN "download" ELSE "post") /\ j.verdict = c
      BY DEF TypeOK, JobType
    <2>5. c = "success" /\ row = "build" => \A d \in Cells : build[d] = "success"
      <3>1. c = "success" /\ row = "build" => \A d \in Cells : build[d] \in {"success", "skipped"}
        BY JobsStand DEF JobsOf
      <3>2. QED
        BY <2>1, <3>1 DEF StageInv, TestsOver, BuildsOver
    <2>6. c = "success" /\ row = "test" => \A x \in AllShards : test[x] \in {"success", "skipped"}
      BY JobsStand DEF JobsOf
    <2>7. row = "build" \/ row = "test"
      BY DEF Rows
    <2> HIDE DEF c, j
    <2>8. ASSUME NEW r \in Rows, report'[r] = "due", job'[r].at # "resolve"
          PROVE  \/ r = row /\ job'[r] = j
                 \/ job'[r] = job[r] /\ report[r] = "due"
      BY <2>1, <2>8 DEF TypeOK
    <2>9. QED
      BY <2>1, <2>2, <2>3, <2>4, <2>5, <2>6, <2>7, <2>8 DEF JobInv
  <1>9. ASSUME NEW row \in Rows, NEW o \in Outcomes, Post(row, o) PROVE JobInv'
    <2> DEFINE j == [job[row] EXCEPT !.tries = job[row].tries + 1]
    <2>1. /\ UNCHANGED <<prep, build, test, tested, attempt>>
          /\ job' = [job EXCEPT ![row] = j]
          /\ report[row] = "due"
          /\ \A r \in Rows : r # row => report'[r] = report[r]
      BY <1>9 DEF Post, Ready, TypeOK
    <2>2. j.at = job[row].at /\ j.verdict = job[row].verdict
      BY DEF TypeOK, JobType
    <2> HIDE DEF j
    <2>3. \A r \in Rows : /\ report'[r] = "due" => report[r] = "due"
                          /\ job'[r].at = job[r].at /\ job'[r].verdict = job[r].verdict
      BY <2>1, <2>2 DEF TypeOK
    <2>4. TestsOver' <=> TestsOver
      BY <2>1 DEF TestsOver, BuildsOver
    <2>5. \A x : EarnedBy(x, attempt)' <=> EarnedBy(x, attempt)
      BY <2>1 DEF EarnedBy
    <2>6. QED
      BY <2>1, <2>3, <2>4, <2>5 DEF JobInv
  <1>10. ASSUME NEW m \in SUBSET Artifacts, Summarize(m) PROVE JobInv'
    <2> DEFINE dirs == {DirectoryOf(t) : t \in Artifacts \ m}
               e == Evidence(CollectGroups(dirs, Cardinality(Shards), Cardinality(Cells)))
               v == Combine(job["test"].verdict, e)
               j == [job["test"] EXCEPT !.at = "post", !.reports = e,
                        !.results = TestResults(CollectGroups(dirs, Cardinality(Shards),
                                                              Cardinality(Cells))),
                        !.verdict = v]
    <2>1. /\ UNCHANGED <<prep, build, test, tested, attempt, report>>
          /\ TestsOver /\ report["test"] = "due" /\ job["test"].at = "download"
          /\ job' = [job EXCEPT !["test"] = j]
      BY <1>10 DEF Summarize, Ready
    <2>2. j.at = "post" /\ j.verdict = v
      BY DEF TypeOK, JobType, Rows
    <2>3. v = "success" => job["test"].verdict = "success" /\ e = "success"
      BY DEF Combine
    <2>4. ASSUME e = "success", job["test"].verdict = "success", NEW x \in AllShards
          PROVE  EarnedBy(x, attempt)
      <3>1. dirs \in SUBSET Directories
        BY DownloadType
      <3>2. \A d, f \in dirs : d.group = f.group /\ d.shard = f.shard => d = f
        BY DEF Artifacts, DirectoryOf, ShardInv
      <3>3. x[1] \in Cells /\ x[2] \in Shards /\ x = <<x[1], x[2]>>
        BY DEF AllShards
      <3>4. PICK d \in dirs : d.group = x[1] /\ d.shard = x[2] /\ Green(d.tree)
        BY <2>4, <3>1, <3>2, <3>3, EvidenceStands
      <3>5. PICK t \in Artifacts : d = DirectoryOf(t)
        BY <3>4
      <3>6. /\ t \in tested /\ t.attempt = attempt /\ t.tree # NoTree
            /\ t.cell = x[1] /\ t.shard = x[2] /\ Green(t.tree)
        BY <3>4, <3>5 DEF Artifacts, DirectoryOf
      <3>7. test[x] = t.result /\ t.result # "skipped"
        BY <3>3, <3>6 DEF ShardInv
      <3>8. test[x] \in {"success", "skipped"}
        BY <2>1, <2>4 DEF JobInv, Rows
      <3>9. QED
        BY <3>6, <3>7, <3>8 DEF EarnedBy
    <2> HIDE DEF dirs, e, v, j
    <2>5. TestsOver'
      BY <2>1 DEF TestsOver, BuildsOver
    <2>6. \A x : EarnedBy(x, attempt)' <=> EarnedBy(x, attempt)
      BY <2>1 DEF EarnedBy
    <2>7. job'["test"] = j /\ job'["build"] = job["build"]
      BY <2>1 DEF TypeOK, Rows
    <2>8. QED
      BY <2>1, <2>2, <2>3, <2>4, <2>5, <2>6, <2>7 DEF JobInv, Rows
  <1>11. QED
    BY <1>1, <1>2, <1>3, <1>5, <1>6, <1>7, <1>8, <1>9, <1>10 DEF Next, Progress

(* Rows stay earned while their attempt goes on.                           *)
LEMMA HudKeep ==
  ASSUME HudInv, UNCHANGED <<attempt, hud>>, tested \subseteq tested',
         \A c \in Cells : /\ wheel[c] # NoSource => wheel'[c] # NoSource
                          /\ build[c] = "success" => build'[c] = "success"
  PROVE  HudInv'
  <1>1. \A x, n : EarnedBy(x, n) => EarnedBy(x, n)'
    BY DEF EarnedBy
  <1>2. QED
    BY <1>1 DEF HudInv, HudNotBetter

(* Every row was earned by the attempt that filed it.                      *)
LEMMA HudNext ==
  ASSUME TypeOK, PinInv, StageInv, JobInv, HudInv, [Next]_vars PROVE HudInv'
  <1>1. CASE StartRun \/ RerunAll \/ RerunFailed
    <2>1. attempt' = attempt + 1 /\ UNCHANGED <<wheel, tested, hud>> /\ attempt \in Nat
      BY <1>1 DEF StartRun, RerunAll, RerunFailed, TypeOK
    <2>2. \A h \in hud : h.attempt \in Nat /\ h.attempt <= attempt
      BY DEF TypeOK, RowType, HudInv
    <2>3. \A x, n : EarnedBy(x, n)' <=> EarnedBy(x, n)
      BY <2>1 DEF EarnedBy
    <2>4. QED
      BY <2>1, <2>2, <2>3 DEF HudInv, HudNotBetter
  <1>2. CASE \/ PublishNightly \/ Over \/ UNCHANGED vars \/ Cancel
             \/ (\E n \in 1..clock : Resolve(n))
             \/ \E x \in AllShards, r \in TestEnds, t \in Trees \union {NoTree} :
                   EndTest(x, r, t)
    <2>1. /\ UNCHANGED <<attempt, hud, wheel>> /\ tested \subseteq tested'
          /\ \A c \in Cells : build[c] = "success" => build'[c] = "success"
      BY <1>2 DEF PublishNightly, Over, vars, Cancel, Resolve, EndTest
    <2>2. QED
      BY <2>1, HudKeep
  <1>3. CASE PrepFails
    BY <1>3, HudKeep DEF PrepFails, StageInv
  <1>4. ASSUME NEW c \in Cells, NEW r, NEW u, EndBuild(c, r, u) PROVE HudInv'
    <2>1. commit # NoSource /\ build[c] = "due"
      BY <1>4 DEF EndBuild, PinInv
    <2>2. \A d \in Cells : /\ build[d] = "success" => build'[d] = "success"
                           /\ wheel[d] # NoSource => wheel'[d] # NoSource
      BY <1>4, <2>1 DEF EndBuild, TypeOK
    <2>3. QED
      BY <1>4, <2>2, HudKeep DEF EndBuild
  <1>5. CASE \/ \E row \in Rows :
                  \/ SkipReport(row)
                  \/ \E u \in SUBSET JobsOf(row) : ResolveRow(row, u)
                  \/ LoseReport(row)
             \/ \E m \in SUBSET Artifacts : Summarize(m)
    <2>1. UNCHANGED <<attempt, hud, wheel, build, tested>>
      BY <1>5 DEF SkipReport, ResolveRow, LoseReport, Summarize
    <2>2. QED
      BY <2>1, HudKeep
  <1>6. ASSUME NEW row \in Rows, NEW o \in Outcomes, Post(row, o) PROVE HudInv'
    <2>1. /\ UNCHANGED <<prep, attempt, build, wheel, tested>> /\ TestsOver
          /\ report[row] = "due" /\ job[row].at = "post" /\ attempt \in Nat
      BY <1>6 DEF Post, Ready, TypeOK
    <2>2. hud' \subseteq hud \union {Row(row)}
      BY <1>6 DEF Post, Refile
    <2>3. /\ Row(row).row = row /\ Row(row).attempt = attempt
          /\ Row(row).conclusion = job[row].verdict
      BY DEF Row
    <2>4. job[row].verdict = "success" =>
             IF row = "test" THEN \A x \in AllShards : EarnedBy(x, attempt)
             ELSE \A c \in Cells : build[c] = "success" /\ wheel[c] # NoSource
      BY <2>1 DEF JobInv, StageInv, Rows
    <2>5. \A x, n : EarnedBy(x, n)' <=> EarnedBy(x, n)
      BY <2>1 DEF EarnedBy
    <2>6. ASSUME NEW h \in hud', h.conclusion = "success"
          PROVE  IF h.row = "test" THEN \A x \in AllShards : EarnedBy(x, h.attempt)
                 ELSE \A c \in Cells : /\ wheel[c] # NoSource
                                       /\ h.attempt = attempt => build[c] = "success"
      <3>1. CASE h \in hud
        BY <2>6, <3>1 DEF HudInv, HudNotBetter
      <3>2. CASE h = Row(row)
        BY <2>3, <2>4, <2>6, <3>2
      <3>3. QED
        BY <2>2, <3>1, <3>2
    <2>7. \A h \in hud' : h.attempt <= attempt
      BY <2>1, <2>2, <2>3 DEF HudInv
    <2>8. QED
      BY <2>1, <2>5, <2>6, <2>7 DEF HudInv, HudNotBetter
  <1>7. QED
    BY <1>1, <1>2, <1>3, <1>4, <1>5, <1>6 DEF Next, Progress

(* What the HUD shows as green was built, or tested in every shard of      *)
(* every cell with a report that shows no failure, whatever was cancelled, *)
(* re-run, lost, or missing when the reporting job looked.                 *)
THEOREM HudNotBetterHolds == Spec => []HudNotBetter
  <1> DEFINE Inv == TypeOK /\ PinInv /\ StageInv /\ ShardInv /\ JobInv /\ HudInv
  <1>1. Init => Inv
    BY TypeInit, PinInit, GreenInit
  <1>2. Inv /\ [Next]_vars => Inv'
    BY TypeNext, PinNext, StageNext, ShardNext, JobNext, HudNext
  <1>3. Inv => HudNotBetter
    BY DEF HudInv
  <1>4. QED
    BY <1>1, <1>2, <1>3, PTL DEF Spec

(***************************************************************************)
(* The HUD and GitHub agree.                                               *)
(***************************************************************************)
(* Nothing in the run but the reporting jobs keeps this row from green.    *)
Behind(row) ==
    /\ prep = "success" /\ \A c \in Cells : build[c] = "success"
    /\ row = "test" => \A x \in AllShards : test[x] = "success"

(* A reporting job waits for what it reports: none is over before it.      *)
DueInv ==
    /\ prep = "due" => \A r \in Rows : report[r] = "due"
    /\ (\E c \in Cells : build[c] = "due") => \A r \in Rows : report[r] = "due"
    /\ (\E x \in AllShards : test[x] = "due") => report["test"] = "due"

(* A reporting job that looked in time knows when all jobs succeeded, and  *)
(* then only the reports of the tests can turn its verdict.                *)
TruthInv ==
    \A row \in Rows :
        report[row] = "due" /\ job[row].at # "resolve" =>
            /\ Behind(row) /\ ~job[row].late => job[row].jobs = "success"
            /\ job[row].jobs = "success" =>
                  job[row].verdict \in IF row = "test" THEN {"success", "failure"}
                                       ELSE {"success"}

(* A reporting job that is green behind green jobs has its green row on    *)
(* the HUD, or one filed on a late listing.                                *)
AgreeInv ==
    \A row \in Rows :
        Behind(row) /\ report[row] = "success" =>
            \E h \in hud : h.row = row /\ h.commit = commit
                           /\ (h.conclusion = "success" \/ h.late)

(***************************************************************************)
(* What the tests of an attempt add up to.                                 *)
(***************************************************************************)
(* The tests that ran in attempt n, once for each cell they ran in.        *)
RanIn(n) ==
    UNION {{<<t.cell, k>> : k \in Ran(t.tree)} :
               t \in {u \in tested : u.attempt = n /\ u.tree # NoTree}}

(* A row of this attempt stands on tests that are all over; what a green   *)
(* verdict on the tests counts is what ran.                                *)
CountInv ==
    /\ \A h \in hud : h.attempt = attempt => TestsOver
    /\ report["test"] = "due" /\ job["test"].at = "post" /\ job["test"].verdict = "success"
          => job["test"].results.total = Cardinality(RanIn(attempt))
    /\ EveryVersionCounts

(* When nothing failed, the counts of the groups add up to the pairs of a  *)
(* group and a test that a report of the group says was run.               *)
LEMMA CountedOnce ==
  ASSUME NEW dirs \in SUBSET Directories, NEW n, NEW m,
         Evidence(CollectGroups(dirs, n, m)) = "success"
  PROVE  TestResults(CollectGroups(dirs, n, m)).total =
            Cardinality(UNION {{<<d.group, k>> : k \in Ran(d.tree)} : d \in dirs})
  <1> DEFINE r == CollectGroups(dirs, n, m)
             cell(g) == CollectCell(OfGroup(dirs, g), n)
             all == UNION {{<<d.group, k>> : k \in Ran(d.tree)} : d \in dirs}
  <1>1. /\ r.failed = UNION {{<<g, k>> : k \in cell(g).failed} : g \in GroupsOf(dirs)}
        /\ r.passed = UNION {{<<g, k>> : k \in cell(g).passed} : g \in GroupsOf(dirs)}
        /\ r.skipped = UNION {{<<g, k>> : k \in cell(g).skipped} : g \in GroupsOf(dirs)}
    BY DEF CollectGroups
  <1>2. r.failed = {}
    BY DEF Evidence
  <1> DEFINE F(g) == UNION {FailedKeys(d.tree) : d \in OfGroup(dirs, g)}
             P(g) == UNION {PassedKeys(d.tree) : d \in OfGroup(dirs, g)}
             S(g) == UNION {SkippedKeys(d.tree) : d \in OfGroup(dirs, g)}
  <1>3. \A g : /\ cell(g).failed = F(g)
               /\ cell(g).passed = P(g) \ F(g)
               /\ cell(g).skipped = S(g) \ (F(g) \union P(g))
    <2> TAKE g
    <2>1. cell(g) = [shards     |-> Cardinality(OfGroup(dirs, g)),
                     missing    |-> Shortfall(n, Cardinality(OfGroup(dirs, g))),
                     failed     |-> F(g),
                     passed     |-> P(g) \ F(g),
                     skipped    |-> S(g) \ (F(g) \union P(g)),
                     crashes    |-> \E d \in OfGroup(dirs, g) : MissingItemization(d.tree) > 0,
                     unparsable |-> \E d \in OfGroup(dirs, g) : d.tree.broken # {}]
      BY Zenon DEF CollectCell
    <2> HIDE DEF cell, F, P, S
    <2>2. QED
      BY <2>1
  <1>4. r.passed \subseteq Cells \X Tests /\ r.skipped \subseteq Cells \X Tests
    BY CountedSets
  <1>5. TestResults(r).total =
           Cardinality(r.passed) + Cardinality(r.failed) + Cardinality(r.skipped)
    BY DEF TestResults
  <1> HIDE DEF r, cell, F, P, S
  <1>6. \A g \in GroupsOf(dirs) : cell(g).failed = {}
    <2> SUFFICES ASSUME NEW g \in GroupsOf(dirs), NEW k \in cell(g).failed PROVE FALSE
      OBVIOUS
    <2>1. <<g, k>> \in r.failed
      BY <1>1
    <2>2. QED
      BY <1>2, <2>1
  <1>7. r.passed \cap r.skipped = {}
    <2> SUFFICES ASSUME NEW x \in r.passed, x \in r.skipped PROVE FALSE
      OBVIOUS
    <2>1. PICK g \in GroupsOf(dirs) : \E k \in cell(g).passed : x = <<g, k>>
      BY <1>1
    <2>2. PICK k \in cell(g).passed : x = <<g, k>>
      BY <2>1
    <2>3. PICK h \in GroupsOf(dirs) : \E l \in cell(h).skipped : x = <<h, l>>
      BY <1>1
    <2>4. k \in cell(g).skipped
      BY <2>2, <2>3
    <2>5. k \notin F(g) \union P(g) /\ k \in P(g)
      BY <1>3, <2>2, <2>4
    <2>6. QED
      BY <2>5
  <1>8. r.passed \union r.skipped = all
    <2>1. ASSUME NEW g \in GroupsOf(dirs)
          PROVE  cell(g).passed \union cell(g).skipped =
                    UNION {Ran(d.tree) : d \in OfGroup(dirs, g)}
      <3>1. cell(g).passed \union cell(g).skipped = P(g) \union S(g)
        BY <1>3, <1>6
      <3>2. P(g) \union S(g) = UNION {Ran(d.tree) : d \in OfGroup(dirs, g)}
        BY DEF P, S, Ran
      <3>3. QED
        BY <3>1, <3>2
    <2>2. ASSUME NEW x \in r.passed \union r.skipped PROVE x \in all
      <3>1. PICK g \in GroupsOf(dirs) :
               \E k \in cell(g).passed \union cell(g).skipped : x = <<g, k>>
        BY <1>1, <2>2
      <3>2. PICK k \in cell(g).passed \union cell(g).skipped : x = <<g, k>>
        BY <3>1
      <3>3. PICK d \in OfGroup(dirs, g) : k \in Ran(d.tree)
        BY <2>1, <3>2
      <3>4. d \in dirs /\ d.group = g
        BY <3>3 DEF OfGroup
      <3>5. QED
        BY <3>2, <3>3, <3>4
    <2>3. ASSUME NEW x \in all PROVE x \in r.passed \union r.skipped
      <3>1. PICK d \in dirs : \E k \in Ran(d.tree) : x = <<d.group, k>>
        BY <2>3
      <3>2. PICK k \in Ran(d.tree) : x = <<d.group, k>>
        BY <3>1
      <3>3. d.group \in GroupsOf(dirs) /\ d \in OfGroup(dirs, d.group)
        BY DEF GroupsOf, OfGroup
      <3>4. k \in cell(d.group).passed \union cell(d.group).skipped
        BY <2>1, <3>2, <3>3
      <3>5. QED
        BY <1>1, <3>2, <3>3, <3>4
    <2>4. QED
      BY <2>2, <2>3
  <1> HIDE DEF all
  <1>9. /\ IsFiniteSet(r.passed) /\ IsFiniteSet(r.skipped)
    BY <1>4, FS_Product, FS_Subset, NightlyAssumption
  <1>10. /\ Cardinality(all) =
               Cardinality(r.passed) + Cardinality(r.skipped) - Cardinality({})
         /\ Cardinality({}) = 0
    BY <1>7, <1>8, <1>9, FS_Union, FS_EmptySet
  <1>11. Cardinality(r.passed) \in Nat /\ Cardinality(r.skipped) \in Nat
    BY <1>9, FS_CardinalityType
  <1>12. QED
    BY <1>2, <1>5, <1>10, <1>11 DEF all, r

(* A summary that finds evidence of a success has missed no report, and    *)
(* counts what ran in this attempt.                                        *)
LEMMA SummaryCounts ==
  ASSUME TypeOK, ShardInv, NEW m \in SUBSET Artifacts,
         Evidence(CollectGroups({DirectoryOf(t) : t \in Artifacts \ m},
                                Cardinality(Shards), Cardinality(Cells))) = "success"
  PROVE  TestResults(CollectGroups({DirectoryOf(t) : t \in Artifacts \ m},
                                   Cardinality(Shards), Cardinality(Cells))).total
            = Cardinality(RanIn(attempt))
  <1> DEFINE dirs == {DirectoryOf(t) : t \in Artifacts \ m}
  <1>1. dirs \in SUBSET Directories
    BY DownloadType
  <1>2. \A d, f \in dirs : d.group = f.group /\ d.shard = f.shard => d = f
    BY DEF Artifacts, DirectoryOf, ShardInv
  <1>3. \A c \in Cells, s \in Shards :
           \E d \in dirs : d.group = c /\ d.shard = s /\ Green(d.tree)
    BY <1>1, <1>2, EvidenceStands
  <1>4. ASSUME NEW t \in Artifacts PROVE t \notin m
    <2>1. t.cell \in Cells /\ t.shard \in Shards
      BY DEF Artifacts, TypeOK, TestedType
    <2>2. PICK d \in dirs : d.group = t.cell /\ d.shard = t.shard
      BY <1>3, <2>1
    <2>3. PICK v \in Artifacts \ m : d = DirectoryOf(v)
      BY <2>2
    <2>4. v.cell = t.cell /\ v.shard = t.shard
      BY <2>2, <2>3 DEF DirectoryOf
    <2>5. v = t
      BY <2>4 DEF Artifacts, ShardInv
    <2>6. QED
      BY <2>3, <2>5
  <1>5. dirs = {DirectoryOf(t) : t \in Artifacts}
    BY <1>4
  <1>6. UNION {{<<d.group, k>> : k \in Ran(d.tree)} : d \in dirs} = RanIn(attempt)
    <2>1. \A t : DirectoryOf(t).group = t.cell /\ DirectoryOf(t).tree = t.tree
      BY DEF DirectoryOf
    <2> HIDE DEF dirs
    <2>2. \A x : x \in UNION {{<<d.group, k>> : k \in Ran(d.tree)} : d \in dirs}
                    <=> \E t \in Artifacts : \E k \in Ran(t.tree) : x = <<t.cell, k>>
      BY <1>5, <2>1
    <2>3. \A x : x \in RanIn(attempt)
                    <=> \E t \in Artifacts : \E k \in Ran(t.tree) : x = <<t.cell, k>>
      BY DEF RanIn, Artifacts
    <2>4. QED
      BY <2>2, <2>3
  <1>7. QED
    BY <1>1, <1>6, CountedOnce

(* All of it holds at the start.                                           *)
LEMMA AgreeInit == Init => DueInv /\ TruthInv /\ AgreeInv /\ CountInv
  BY DEF Init, DueInv, TruthInv, AgreeInv, CountInv, Behind, EveryVersionCounts, Rows

(* The reporting jobs change nothing they report on.                       *)
LEMMA ReportsOnly ==
  ASSUME \/ \E row \in Rows :
               \/ SkipReport(row)
               \/ \E u \in SUBSET JobsOf(row) : ResolveRow(row, u)
               \/ \E o \in Outcomes : Post(row, o)
               \/ LoseReport(row)
         \/ \E m \in SUBSET Artifacts : Summarize(m)
  PROVE  /\ UNCHANGED <<prep, commit, build, wheel, test, tested, attempt>> /\ TestsOver
         /\ TestsOver' <=> TestsOver
         /\ \A r : Behind(r)' <=> Behind(r)
         /\ \A n : RanIn(n)' = RanIn(n)
  <1>1. UNCHANGED <<prep, commit, build, wheel, test, tested, attempt>> /\ TestsOver
    BY DEF SkipReport, ResolveRow, Post, LoseReport, Summarize, Ready
  <1>2. QED
    BY <1>1 DEF TestsOver, BuildsOver, Behind, RanIn

(* The result of a reporting job changes for its own row, and only when    *)
(* the job can run.                                                        *)
LEMMA OneReport ==
  ASSUME TypeOK, NEW row \in Rows,
         \/ SkipReport(row)
         \/ \E u \in SUBSET JobsOf(row) : ResolveRow(row, u)
         \/ \E o \in Outcomes : Post(row, o)
         \/ LoseReport(row)
  PROVE  /\ report[row] = "due" /\ \A r \in Rows \ {row} : report'[r] = report[r]
         /\ \A r \in Rows \ {row} : job'[r] = job[r]
  BY DEF SkipReport, ResolveRow, Post, LoseReport, Ready, TypeOK

(* No reporting job is over before what it reports.                        *)
LEMMA DueNext == TypeOK /\ StageInv /\ DueInv /\ [Next]_vars => DueInv'
  <1> SUFFICES ASSUME TypeOK, StageInv, DueInv, [Next]_vars PROVE DueInv'
    OBVIOUS
  <1>1. CASE UNCHANGED vars \/ Over \/ PublishNightly
    BY <1>1 DEF vars, Over, PublishNightly, DueInv
  <1>2. CASE StartRun \/ RerunAll
    BY <1>2 DEF StartRun, RerunAll, AllDue, DueInv, Rows
  <1>3. CASE RerunFailed
    <2> DEFINE rebuild == \E c \in Cells : build[c] # "success"
    <2>1. /\ prep' = prep /\ prep = "success"
          /\ \A c \in Cells : build'[c] = Again(build[c])
          /\ \A x \in AllShards : test'[x] = IF rebuild THEN "due" ELSE Again(test[x])
          /\ rebuild => \A r \in Rows : report'[r] = "due"
          /\ (\E x \in AllShards : test[x] # "success") => report'["test"] = "due"
      BY <1>3 DEF RerunFailed, Rows
    <2>2. QED
      BY <2>1 DEF DueInv, Again, Rows
  <1>4. CASE Cancel
    BY <1>4 DEF Cancel, DueInv
  <1>5. ASSUME NEW n \in 1..clock, Resolve(n) PROVE DueInv'
    BY <1>5 DEF Resolve, DueInv
  <1>6. CASE PrepFails
    BY <1>6 DEF PrepFails, DueInv
  <1>7. ASSUME NEW c \in Cells, NEW r \in {"success", "failure"}, NEW u, EndBuild(c, r, u)
        PROVE  DueInv'
    <2>1. /\ UNCHANGED <<prep, test, report>> /\ build[c] = "due"
          /\ \A d \in Cells : build'[d] = IF d = c THEN r ELSE build[d]
      BY <1>7 DEF EndBuild, TypeOK
    <2>2. QED
      BY <2>1 DEF DueInv
  <1>8. ASSUME NEW x \in AllShards, NEW r \in TestEnds, NEW t, EndTest(x, r, t)
        PROVE  DueInv'
    <2>1. /\ UNCHANGED <<prep, build, report>> /\ test[x] = "due"
          /\ \A y \in AllShards : test'[y] = IF y = x THEN r ELSE test[y]
      BY <1>8 DEF EndTest, TypeOK
    <2>2. QED
      BY <2>1 DEF DueInv
  <1>9. CASE \/ \E row \in Rows :
                  \/ SkipReport(row)
                  \/ \E u \in SUBSET JobsOf(row) : ResolveRow(row, u)
                  \/ \E o \in Outcomes : Post(row, o)
                  \/ LoseReport(row)
             \/ \E m \in SUBSET Artifacts : Summarize(m)
    <2>1. TestsOver /\ UNCHANGED <<prep, build, test>>
      BY <1>9, ReportsOnly
    <2>2. QED
      BY <2>1 DEF TestsOver, BuildsOver, DueInv
  <1>10. QED
    BY <1>1, <1>2, <1>3, <1>4, <1>5, <1>6, <1>7, <1>8, <1>9 DEF Next, Progress

(* When every job of a row succeeded, they do not resolve to skipped, and  *)
(* resolve to a success if the listing was complete.                       *)
LEMMA JobsKnown ==
  ASSUME NEW row \in Rows, NEW u \in SUBSET JobsOf(row), Behind(row)
  PROVE  /\ ResolveCells(Listing(row, u), Cells) # "skipped"
         /\ u = {} => ResolveCells(Listing(row, u), Cells) = "success"
  <1> DEFINE ends == {Normalize(j.conclusion) :
                        j \in UNION {CellJobs(Listing(row, u), c) : c \in Cells}}
  <1>1. PICK x : x \in JobsOf(row)
    <2>1. PICK c \in Cells : TRUE
      BY NightlyAssumption
    <2>2. PICK s \in Shards : TRUE
      BY NightlyAssumption
    <2>3. <<c, s>> \in AllShards
      BY DEF AllShards
    <2>4. QED
      BY <2>1, <2>3 DEF JobsOf
  <1>2. \A j \in Listing(row, u) : j.conclusion = "success" \/ (j.conclusion = Null /\ u # {})
    BY DEF Listing, Behind, JobsOf, Rows
  <1>3. \A e \in ends : e = "success" \/ (e = "failure" /\ u # {})
    BY <1>2, NullAssumption DEF Normalize, CellJobs
  <1>4. ends # {}
    <2> DEFINE j == [job |-> x, cell |-> IF row = "build" THEN x ELSE x[1],
                     conclusion |-> IF x \in u THEN Null
                                    ELSE IF row = "build" THEN build[x] ELSE test[x]]
    <2>1. j \in Listing(row, u)
      BY <1>1 DEF Listing
    <2>2. j.cell \in Cells
      BY <1>1 DEF JobsOf, AllShards
    <2>3. Normalize(j.conclusion) \in ends
      BY <2>1, <2>2 DEF CellJobs
    <2>4. QED
      BY <2>3
  <1>5. ResolveCells(Listing(row, u), Cells) = Worst(ends)
    BY DEF ResolveCells
  <1> HIDE DEF ends
  <1>6. QED
    BY <1>3, <1>4, <1>5 DEF Worst

(* A reporting job that looked in time knows what it reports.              *)
LEMMA TruthNext ==
  ASSUME TypeOK, DueInv, JobInv, TruthInv, [Next]_vars PROVE TruthInv'
  <1>1. CASE UNCHANGED vars \/ Over \/ PublishNightly
    <2>1. UNCHANGED <<prep, build, test, report, job>>
      BY <1>1 DEF vars, Over, PublishNightly
    <2>2. QED
      BY <2>1 DEF TruthInv, Behind
  <1>2. CASE StartRun \/ RerunAll \/ RerunFailed
    <2>1. \A r \in Rows : report'[r] = "due" => job'[r] = NewReport
      BY <1>2 DEF StartRun, RerunAll, AllDue, RerunFailed
    <2>2. QED
      BY <2>1 DEF TruthInv, NewReport
  <1>3. CASE PrepFails
    BY <1>3 DEF PrepFails, TruthInv
  <1>4. CASE \/ Cancel
             \/ \E n \in 1..clock : Resolve(n)
             \/ \E c \in Cells, r \in {"success", "failure"}, u \in BOOLEAN : EndBuild(c, r, u)
             \/ \E x \in AllShards, r \in TestEnds, t \in Trees \union {NoTree} :
                    EndTest(x, r, t)
    <2>1. ~TestsOver /\ UNCHANGED <<report, job>>
      BY <1>4 DEF Cancel, Resolve, EndBuild, EndTest, TestsOver, BuildsOver
    <2>2. QED
      BY <2>1 DEF TruthInv, JobInv
  <1>5. ASSUME NEW row \in Rows, SkipReport(row) \/ LoseReport(row) PROVE TruthInv'
    <2>1. /\ \A r \in Rows : report'[r] = "due" => report[r] = "due"
          /\ UNCHANGED job
      BY <1>5 DEF SkipReport, LoseReport, TypeOK
    <2>2. \A r : Behind(r)' <=> Behind(r)
      BY <1>5, ReportsOnly
    <2>3. QED
      BY <2>1, <2>2 DEF TruthInv
  <1>6. ASSUME NEW row \in Rows, NEW u \in SUBSET JobsOf(row), ResolveRow(row, u)
        PROVE  TruthInv'
    <2> DEFINE c == ResolveCells(Listing(row, u), Cells)
               j == [job[row] EXCEPT !.at = IF row = "test" THEN "download" ELSE "post",
                                     !.jobs = c, !.verdict = c, !.late = u # {}]
    <2>1. /\ job[row].at = "resolve"
          /\ \/ job' = [job EXCEPT ![row] = j] /\ UNCHANGED report
             \/ /\ report' \in {[report EXCEPT ![row] = "success"],
                                [report EXCEPT ![row] = "failure"]}
                /\ UNCHANGED job
      BY <1>6 DEF ResolveRow
    <2>2. j.verdict = c /\ j.jobs = c /\ j.late = (u # {})
      BY DEF TypeOK, JobType
    <2>3. Behind(row) /\ u = {} => c = "success"
      BY JobsKnown
    <2>4. \A r : Behind(r)' <=> Behind(r)
      BY <1>6, ReportsOnly
    <2> HIDE DEF c, j
    <2>5. ASSUME NEW r \in Rows, report'[r] = "due", job'[r].at # "resolve"
          PROVE  \/ r = row /\ job'[r] = j
                 \/ job'[r] = job[r] /\ report[r] = "due"
      BY <2>1, <2>5 DEF TypeOK
    <2>6. QED
      BY <2>2, <2>3, <2>4, <2>5 DEF TruthInv
  <1>7. ASSUME NEW row \in Rows, NEW o \in Outcomes, Post(row, o) PROVE TruthInv'
    <2> DEFINE j == [job[row] EXCEPT !.tries = job[row].tries + 1]
    <2>1. job' = [job EXCEPT ![row] = j] /\ report[row] = "due"
      BY <1>7 DEF Post, Ready
    <2>2. j.at = job[row].at /\ j.verdict = job[row].verdict
          /\ j.jobs = job[row].jobs /\ j.late = job[row].late
      BY DEF TypeOK, JobType
    <2>3. \A r \in Rows : report'[r] = "due" => report[r] = "due"
      BY <1>7, OneReport
    <2>4. \A r : Behind(r)' <=> Behind(r)
      BY <1>7, ReportsOnly
    <2> HIDE DEF j
    <2>5. \A r \in Rows : /\ job'[r].at = job[r].at /\ job'[r].verdict = job[r].verdict
                          /\ job'[r].jobs = job[r].jobs /\ job'[r].late = job[r].late
      BY <2>1, <2>2 DEF TypeOK
    <2>6. QED
      BY <2>3, <2>4, <2>5 DEF TruthInv
  <1>8. ASSUME NEW m \in SUBSET Artifacts, Summarize(m) PROVE TruthInv'
    <2>1. PICK e : \E res : job' = [job EXCEPT !["test"] =
             [job["test"] EXCEPT !.at = "post", !.reports = e, !.results = res,
                                 !.verdict = Combine(job["test"].verdict, e)]]
      BY <1>8 DEF Summarize
    <2>2. PICK res : job' = [job EXCEPT !["test"] =
             [job["test"] EXCEPT !.at = "post", !.reports = e, !.results = res,
                                 !.verdict = Combine(job["test"].verdict, e)]]
      BY <2>1
    <2>3. /\ UNCHANGED report /\ report["test"] = "due" /\ job["test"].at = "download"
      BY <1>8 DEF Summarize, Ready
    <2>4. PICK v : v = Combine(job["test"].verdict, e)
      OBVIOUS
    <2>5. job["test"].verdict \in {"success", "failure"} => v \in {"success", "failure"}
      BY <2>4 DEF Combine
    <2>6. /\ job'["test"].jobs = job["test"].jobs /\ job'["test"].late = job["test"].late
          /\ job'["test"].verdict = v /\ job'["build"] = job["build"]
      BY <2>2, <2>4 DEF TypeOK, JobType, Rows
    <2>7. \A r : Behind(r)' <=> Behind(r)
      BY <1>8, ReportsOnly
    <2>8. QED
      BY <2>3, <2>5, <2>6, <2>7 DEF TruthInv, Rows
  <1>9. QED
    BY <1>1, <1>2, <1>3, <1>4, <1>5, <1>6, <1>7, <1>8 DEF Next, Progress

(* A green job behind green jobs has its row.                              *)
LEMMA AgreeNext ==
  ASSUME TypeOK, DueInv, TruthInv, AgreeInv, [Next]_vars PROVE AgreeInv'
  <1>1. CASE UNCHANGED vars \/ Over \/ PublishNightly
    <2>1. UNCHANGED <<prep, commit, build, test, report, hud>>
      BY <1>1 DEF vars, Over, PublishNightly
    <2>2. QED
      BY <2>1 DEF AgreeInv, Behind
  <1>2. CASE StartRun \/ RerunAll
    BY <1>2 DEF StartRun, RerunAll, AllDue, AgreeInv
  <1>3. CASE RerunFailed
    <2>1. /\ UNCHANGED <<prep, commit, hud>>
          /\ \A r \in Rows : report'[r] = "success" =>
                /\ report[r] = "success"
                /\ \A c \in Cells : build[c] = "success"
                /\ r = "test" => \A x \in AllShards : test[x] = "success"
      BY <1>3 DEF RerunFailed, Rows
    <2>2. QED
      BY <2>1 DEF AgreeInv, Behind
  <1>4. CASE Cancel
    <2>1. UNCHANGED <<prep, commit, report, hud>>
      BY <1>4 DEF Cancel
    <2>2. ASSUME NEW r \in Rows, Behind(r)' PROVE Behind(r)
      BY <1>4, <2>2 DEF Cancel, Behind, Rows
    <2>3. QED
      BY <2>1, <2>2 DEF AgreeInv
  <1>5. ASSUME NEW n \in 1..clock, Resolve(n) PROVE AgreeInv'
    <2>1. \A r \in Rows : report'[r] = "due"
      BY <1>5 DEF Resolve, DueInv
    <2>2. QED
      BY <2>1 DEF AgreeInv
  <1>6. CASE PrepFails
    BY <1>6 DEF PrepFails, AgreeInv, Behind
  <1>7. ASSUME NEW c \in Cells, NEW r, NEW u, EndBuild(c, r, u) PROVE AgreeInv'
    <2>1. \A row \in Rows : report'[row] = "due"
      BY <1>7 DEF EndBuild, DueInv
    <2>2. QED
      BY <2>1 DEF AgreeInv
  <1>8. ASSUME NEW x \in AllShards, NEW r, NEW t, EndTest(x, r, t) PROVE AgreeInv'
    <2>1. report'["test"] = "due" /\ UNCHANGED <<prep, commit, build, report, hud>>
      BY <1>8 DEF EndTest, DueInv
    <2>2. QED
      BY <2>1 DEF AgreeInv, Behind, Rows
  <1>9. ASSUME NEW row \in Rows, SkipReport(row) \/ LoseReport(row) PROVE AgreeInv'
    <2>1. /\ \A r \in Rows : report'[r] = "success" => report[r] = "success"
          /\ UNCHANGED <<commit, hud>>
      BY <1>9 DEF SkipReport, LoseReport, TypeOK
    <2>2. \A r : Behind(r)' <=> Behind(r)
      BY <1>9, ReportsOnly
    <2>3. QED
      BY <2>1, <2>2 DEF AgreeInv
  <1>10. ASSUME NEW row \in Rows, NEW u \in SUBSET JobsOf(row), ResolveRow(row, u)
         PROVE  AgreeInv'
    <2>1. UNCHANGED <<commit, hud>>
      BY <1>10 DEF ResolveRow
    <2>2. \A r : Behind(r)' <=> Behind(r)
      BY <1>10, ReportsOnly
    <2>3. ASSUME NEW r \in Rows, Behind(r), report'[r] = "success"
          PROVE  report[r] = "success"
      <3>1. CASE r # row
        BY <1>10, <2>3, <3>1, OneReport
      <3>2. CASE r = row /\ report' # report
        <4>1. \/ ~Resolvable(Listing(row, u), Cells)
              \/ ResolveCells(Listing(row, u), Cells) = "skipped"
          BY <1>10, <3>2 DEF ResolveRow, ShouldReport
        <4>2. report'[row] = IF Resolvable(Listing(row, u), Cells)
                             THEN "success" ELSE "failure"
          BY <1>10, <3>2 DEF ResolveRow, TypeOK
        <4>3. ResolveCells(Listing(row, u), Cells) = "skipped"
          BY <2>3, <3>2, <4>1, <4>2
        <4>4. QED
          BY <2>3, <3>2, <4>3, JobsKnown
      <3>3. CASE report' = report
        BY <2>3, <3>3
      <3>4. QED
        BY <3>1, <3>2, <3>3
    <2>4. QED
      BY <2>1, <2>2, <2>3 DEF AgreeInv
  <1>11. ASSUME NEW row \in Rows, NEW o \in Outcomes, Post(row, o) PROVE AgreeInv'
    <2>1. commit' = commit /\ report[row] = "due" /\ job[row].at = "post"
      BY <1>11 DEF Post, Ready
    <2>2. \A r : Behind(r)' <=> Behind(r)
      BY <1>11, ReportsOnly
    <2>3. \A h \in hud : h.row # row => h \in hud'
      BY <1>11 DEF Post, Refile
    <2>4. ASSUME NEW r \in Rows, r # row, Behind(r), report'[r] = "success"
          PROVE  \E h \in hud' : h.row = r /\ h.commit = commit
                                 /\ (h.conclusion = "success" \/ h.late)
      <3>1. report[r] = "success"
        BY <1>11, <2>4, OneReport
      <3>2. QED
        BY <2>3, <2>4, <3>1 DEF AgreeInv
    <2>5. ASSUME Behind(row), report'[row] = "success"
          PROVE  \E h \in hud' : h.row = row /\ h.commit = commit
                                 /\ (h.conclusion = "success" \/ h.late)
      <3>1. o = "accepted" /\ Match(row) = "success"
        BY <1>11, <2>5 DEF Post, TypeOK
      <3>2. Row(row) \in hud'
        BY <1>11, <3>1 DEF Post, Refile
      <3>3. job[row].late \/ job[row].jobs = "success"
        BY <2>1, <2>5 DEF TruthInv
      <3>4. job[row].jobs = "success" =>
               job[row].verdict \in IF row = "test" THEN {"success", "failure"}
                                    ELSE {"success"}
        BY <2>1 DEF TruthInv
      <3>5. job[row].late \/ job[row].verdict = "success"
        BY <3>1, <3>3, <3>4 DEF Match, Rows
      <3>6. /\ Row(row).row = row /\ Row(row).commit = commit
            /\ Row(row).conclusion = job[row].verdict /\ Row(row).late = job[row].late
        BY DEF Row
      <3>7. QED
        BY <3>2, <3>5, <3>6
    <2>6. QED
      BY <2>1, <2>2, <2>4, <2>5 DEF AgreeInv
  <1>12. ASSUME NEW m \in SUBSET Artifacts, Summarize(m) PROVE AgreeInv'
    <2>1. UNCHANGED <<commit, hud, report>>
      BY <1>12 DEF Summarize
    <2>2. \A r : Behind(r)' <=> Behind(r)
      BY <1>12, ReportsOnly
    <2>3. QED
      BY <2>1, <2>2 DEF AgreeInv
  <1>13. QED
    BY <1>1, <1>2, <1>3, <1>4, <1>5, <1>6, <1>7, <1>8, <1>9, <1>10, <1>11, <1>12
    DEF Next, Progress

(* The counts of a row stand while the tests of its attempt do.            *)
LEMMA CountKeep ==
  ASSUME CountInv, UNCHANGED <<attempt, hud>>, TestsOver => TestsOver',
         \A n : (n = attempt => TestsOver) => RanIn(n)' = RanIn(n),
         \/ report'["test"] # "due"
         \/ job'["test"].at # "post"
         \/ UNCHANGED job /\ report["test"] = "due" /\ TestsOver
  PROVE  CountInv'
  <1>1. \A h \in hud : RanIn(h.attempt)' = RanIn(h.attempt)
    BY DEF CountInv
  <1>2. EveryVersionCounts'
    BY <1>1 DEF CountInv, EveryVersionCounts, RanIn
  <1>3. QED
    BY <1>2 DEF CountInv

(* What a green row counts is what ran.                                    *)
LEMMA CountNext ==
  ASSUME TypeOK, PinInv, StageInv, ShardInv, DueInv, JobInv, HudInv, CountInv, [Next]_vars
  PROVE  CountInv'
  <1> DEFINE EveryOther == \A h \in hud :
               h.row = "test" /\ h.conclusion = "success" =>
                  h.results.total = Cardinality(RanIn(h.attempt))
  <1>1. EveryOther
    BY DEF CountInv, EveryVersionCounts, RanIn
  <1>2. CASE UNCHANGED vars \/ Over \/ PublishNightly
    <2>1. UNCHANGED <<prep, build, test, tested, attempt, report, job, hud>>
      BY <1>2 DEF vars, Over, PublishNightly
    <2>2. (TestsOver' <=> TestsOver) /\ \A n : RanIn(n)' = RanIn(n)
      BY <2>1 DEF TestsOver, BuildsOver, RanIn
    <2>3. EveryVersionCounts'
      BY <2>1 DEF CountInv, EveryVersionCounts
    <2>4. QED
      BY <2>1, <2>2, <2>3 DEF CountInv
  <1>3. CASE StartRun \/ RerunAll \/ RerunFailed
    <2>1. attempt' = attempt + 1 /\ UNCHANGED <<tested, hud>> /\ attempt \in Nat
      BY <1>3 DEF StartRun, RerunAll, RerunFailed, TypeOK
    <2>2. \A h \in hud : h.attempt \in Nat /\ h.attempt <= attempt
      BY DEF TypeOK, RowType, HudInv
    <2>3. \A h \in hud' : h.attempt # attempt'
      BY <2>1, <2>2
    <2>4. report'["test"] = "due" => job'["test"].at = "resolve"
      BY <1>3 DEF StartRun, RerunAll, AllDue, RerunFailed, NewReport, Rows
    <2>5. EveryVersionCounts'
      BY <2>1 DEF CountInv, EveryVersionCounts
    <2>6. QED
      BY <2>3, <2>4, <2>5 DEF CountInv
  <1>4. CASE \/ Cancel
             \/ PrepFails
             \/ \E n \in 1..clock : Resolve(n)
             \/ \E c \in Cells, r \in {"success", "failure"}, u \in BOOLEAN : EndBuild(c, r, u)
             \/ \E x \in AllShards, r \in TestEnds, t \in Trees \union {NoTree} :
                    EndTest(x, r, t)
    <2>1. ~TestsOver /\ UNCHANGED <<attempt, hud>>
      BY <1>4 DEF Cancel, PrepFails, Resolve, EndBuild, EndTest, TestsOver, BuildsOver
    <2>2. \A n : n # attempt => RanIn(n)' = RanIn(n)
      <3>1. tested \subseteq tested' /\ \A t \in tested' \ tested : t.attempt = attempt
        BY <1>4 DEF Cancel, PrepFails, Resolve, EndBuild, EndTest
      <3>2. \A n : n # attempt =>
               {t \in tested' : t.attempt = n /\ t.tree # NoTree}
                  = {t \in tested : t.attempt = n /\ t.tree # NoTree}
        BY <3>1
      <3>3. QED
        BY <3>2 DEF RanIn
    <2>3. report'["test"] # "due" \/ job'["test"].at # "post"
      <3>1. CASE PrepFails
        BY <3>1 DEF PrepFails, Rows
      <3>2. CASE ~PrepFails
        <4>1. UNCHANGED <<report, job>>
          BY <1>4, <3>2 DEF Cancel, Resolve, EndBuild, EndTest
        <4>2. QED
          BY <2>1, <4>1 DEF JobInv, Rows
      <3>3. QED
        BY <3>1, <3>2
    <2>4. QED
      BY <2>1, <2>2, <2>3, CountKeep
  <1>5. ASSUME NEW row \in Rows,
               SkipReport(row) \/ LoseReport(row) \/ \E u \in SUBSET JobsOf(row) : ResolveRow(row, u)
        PROVE  CountInv'
    <2>1. /\ TestsOver /\ TestsOver' /\ UNCHANGED <<attempt, hud>>
          /\ \A n : RanIn(n)' = RanIn(n)
      <3>1. TestsOver /\ TestsOver' /\ attempt' = attempt /\ \A n : RanIn(n)' = RanIn(n)
        BY <1>5, ReportsOnly
      <3>2. hud' = hud
        BY <1>5 DEF SkipReport, LoseReport, ResolveRow
      <3>3. QED
        BY <3>1, <3>2
    <2>2. \/ report'["test"] # "due" \/ job'["test"].at # "post"
          \/ job'["test"] = job["test"] /\ report["test"] = "due"
      <3>1. CASE row # "test"
        BY <1>5, <3>1, OneReport DEF Rows
      <3>2. CASE row = "test" /\ (SkipReport(row) \/ LoseReport(row))
        BY <3>2 DEF SkipReport, LoseReport, TypeOK, Rows
      <3>3. ASSUME row = "test", NEW u \in SUBSET JobsOf(row), ResolveRow(row, u)
            PROVE  report'["test"] # "due" \/ job'["test"].at # "post"
        <4> DEFINE c == ResolveCells(Listing(row, u), Cells)
                   j == [job[row] EXCEPT !.at = IF row = "test" THEN "download" ELSE "post",
                                         !.jobs = c, !.verdict = c, !.late = u # {}]
        <4>1. \/ job' = [job EXCEPT ![row] = j]
              \/ report' \in {[report EXCEPT ![row] = "success"],
                              [report EXCEPT ![row] = "failure"]}
          BY <3>3 DEF ResolveRow
        <4>2. j.at = "download"
          BY <3>3 DEF TypeOK, JobType
        <4> HIDE DEF j
        <4>3. QED
          BY <3>3, <4>1, <4>2 DEF TypeOK, Rows
      <3>4. QED
        BY <1>5, <3>1, <3>2, <3>3
    <2>3. EveryVersionCounts'
      BY <1>1, <2>1 DEF EveryVersionCounts, RanIn
    <2>4. QED
      BY <2>1, <2>2, <2>3 DEF CountInv
  <1>6. ASSUME NEW m \in SUBSET Artifacts, Summarize(m) PROVE CountInv'
    <2>1. /\ TestsOver /\ TestsOver' /\ UNCHANGED <<attempt, hud>>
          /\ \A n : RanIn(n)' = RanIn(n)
      <3>1. TestsOver /\ TestsOver' /\ attempt' = attempt /\ \A n : RanIn(n)' = RanIn(n)
        BY <1>6, ReportsOnly
      <3>2. hud' = hud
        BY <1>6 DEF Summarize
      <3>3. QED
        BY <3>1, <3>2
    <2>2. PICK r : r = CollectGroups({DirectoryOf(t) : t \in Artifacts \ m},
                                     Cardinality(Shards), Cardinality(Cells))
      OBVIOUS
    <2>3. PICK v : v = Combine(job["test"].verdict, Evidence(r))
      OBVIOUS
    <2>4. v = "success" => TestResults(r).total = Cardinality(RanIn(attempt))
      <3>1. v = "success" => Evidence(r) = "success"
        BY <2>3 DEF Combine
      <3>2. QED
        BY <2>2, <3>1, SummaryCounts
    <2>5. job'["test"].verdict = v /\ job'["test"].results = TestResults(r)
      <3>1. job' = [job EXCEPT !["test"] =
                      [job["test"] EXCEPT !.at = "post", !.reports = Evidence(r),
                                          !.results = TestResults(r), !.verdict = v]]
        BY <1>6, <2>2, <2>3 DEF Summarize
      <3>2. QED
        BY <3>1 DEF TypeOK, JobType, Rows
    <2>6. EveryVersionCounts'
      BY <1>1, <2>1 DEF EveryVersionCounts, RanIn
    <2>7. QED
      BY <2>1, <2>4, <2>5, <2>6 DEF CountInv
  <1>7. ASSUME NEW row \in Rows, NEW o \in Outcomes, Post(row, o) PROVE CountInv'
    <2>1. /\ TestsOver /\ TestsOver' /\ attempt' = attempt
          /\ \A n : RanIn(n)' = RanIn(n)
      BY <1>7, ReportsOnly
    <2>2. /\ report[row] = "due" /\ job[row].at = "post"
          /\ hud' \subseteq hud \union {Row(row)}
      BY <1>7 DEF Post, Ready, Refile
    <2>3. /\ report'["test"] = "due" => report["test"] = "due"
          /\ job'["test"].at = job["test"].at /\ job'["test"].verdict = job["test"].verdict
          /\ job'["test"].results = job["test"].results
      <3>1. job' = [job EXCEPT ![row] = [job[row] EXCEPT !.tries = job[row].tries + 1]]
        BY <1>7 DEF Post
      <3>2. report'["test"] = "due" => report["test"] = "due"
        BY <1>7, <2>2, OneReport DEF Rows
      <3>3. QED
        BY <3>1, <3>2 DEF TypeOK, JobType, Rows
    <2>4. /\ Row(row).row = row /\ Row(row).conclusion = job[row].verdict
          /\ Row(row).attempt = attempt /\ Row(row).results = job[row].results
      BY DEF Row
    <2>5. ASSUME NEW h \in hud', h.row = "test", h.conclusion = "success"
          PROVE  h.results.total = Cardinality(RanIn(h.attempt))
      <3>1. CASE h \in hud
        BY <1>1, <2>5, <3>1
      <3>2. CASE h = Row(row)
        BY <2>2, <2>4, <2>5, <3>2 DEF CountInv
      <3>3. QED
        BY <2>2, <3>1, <3>2
    <2>6. EveryVersionCounts'
      BY <2>1, <2>5 DEF EveryVersionCounts, RanIn
    <2>7. QED
      BY <2>1, <2>3, <2>6 DEF CountInv
  <1>8. QED
    BY <1>2, <1>3, <1>4, <1>5, <1>6, <1>7 DEF Next, Progress

(* All of it, step by step.                                                *)
RunInv ==
    /\ TypeOK /\ PinInv /\ StageInv /\ ShardInv /\ JobInv /\ HudInv
    /\ DueInv /\ TruthInv /\ AgreeInv /\ CountInv

(* It holds in every state.                                                *)
LEMMA RunInvariance == Spec => []RunInv
  <1>1. Init => RunInv
    BY TypeInit, PinInit, GreenInit, AgreeInit DEF RunInv
  <1>2. RunInv /\ [Next]_vars => RunInv'
    BY TypeNext, PinNext, StageNext, ShardNext, JobNext, HudNext, DueNext, TruthNext,
       AgreeNext, CountNext DEF RunInv
  <1>3. QED
    BY <1>1, <1>2, PTL DEF Spec

(* When everything in the run is green, the HUD has a row for the builds   *)
(* and one for the tests of its commit, each green or filed on a late      *)
(* listing: whatever answer of the relay was lost, and whichever attempt   *)
(* filed it.                                                               *)
THEOREM GreenRunMeansGreenRowsHolds == Spec => []GreenRunMeansGreenRows
  <1>1. RunInv => GreenRunMeansGreenRows
    BY DEF RunInv, AgreeInv, Behind, GreenRunMeansGreenRows, RunIsGreen
  <1>2. QED
    BY <1>1, RunInvariance, PTL

(* The total of a green row is the number of pairs of a Python version and *)
(* a test that it ran in the attempt that filed the row, for any reports.  *)
THEOREM EveryVersionCountsHolds == Spec => []EveryVersionCounts
  <1>1. RunInv => EveryVersionCounts
    BY DEF RunInv, CountInv
  <1>2. QED
    BY <1>1, RunInvariance, PTL

================================================================================
