------------------------------ MODULE NightlyRun -------------------------------
(***************************************************************************)
(* The nightly run of windows-woa-build-test.yml and its attempts: prep    *)
(* resolves the nightly commit (resolve_nightly_commits.py), the cells     *)
(* build wheels, the shards of every cell test them, and two jobs report   *)
(* one row each to the HUD of PyTorch (resolve_cell_conclusion.py,         *)
(* build_test_results.py, crcr-callback).  The nightly branch moves on     *)
(* meanwhile, jobs fail, and the run is cancelled, re-run as a whole or in *)
(* part; wheels and reports of earlier attempts stay.                      *)
(*                                                                         *)
(* GitHub is modelled as the workflow uses it: a partial re-run repeats    *)
(* the jobs that did not succeed and those that need them, and keeps the   *)
(* others with their results; a matrix stage waits for all of the stage    *)
(* before it.  Time is counted in commits of the nightly branch, which are *)
(* there from their date on.                                               *)
(*                                                                         *)
(* An operator named ...Mutant is a plausible bug of the definition that   *)
(* follows it; no specification uses it.                                   *)
(***************************************************************************)
EXTENDS CellVerdict

CONSTANTS
    Cells,        \* the Python cells (PYTHON_LABELS)
    Shards,       \* the shards of a cell (NUM_SHARDS of them)
    Sources,      \* commits of the main branch of PyTorch
    NoSource,     \* a nightly commit whose message names none; nothing yet
    SourceAt,     \* [Nat \ {0} -> Sources or NoSource]: what each nightly is of
    Trees,        \* the reports trees a shard may leave
    NoTree,       \* it uploaded none
    Tests,        \* the tests, and whatever else has a row in a tree
    Window,       \* nightly commits that are fetched (per_page)
    CallTries,    \* MAX_ATTEMPTS of the callback
    TestEnds,     \* how the job of a shard may end
    MaxAttempts,  \* bound: attempts of the run
    MaxClock,     \* bound: the time up to which nightlies appear
    MaxFaults     \* bound: jobs that fail, reports and answers that are lost

ASSUME NightlyAssumption ==
    /\ IsFiniteSet(Cells) /\ Cells # {} /\ IsFiniteSet(Shards) /\ Shards # {}
    /\ Unmatched \notin Cells
    /\ NoSource \notin Sources /\ NoTree \notin Trees
    /\ \A n \in 1..MaxClock : SourceAt[n] \in Sources \union {NoSource}
    /\ TestEnds \subseteq {"success", "failure", "cancelled"}
    /\ {Window, CallTries, MaxAttempts} \subseteq Nat \ {0}
    /\ MaxClock \in Nat \ {0} /\ MaxFaults \in Nat
    /\ IsFiniteSet(Tests)
    /\ \A t \in Trees : PassedKeys(t) \union FailedKeys(t) \union SkippedKeys(t)
                           \subseteq Tests

VARIABLES
    clock,    \* the newest commit of the nightly branch
    started,  \* the newest one at run_started_at of attempt 1
    attempt,  \* GITHUB_RUN_ATTEMPT; 0 before the run
    prep,     \* the result of prep
    commit,   \* its output pytorch-ref, which is crcr-delivery-id too
    build,    \* [Cells -> the result of the build job]
    wheel,    \* [Cells -> what the wheel artifact was built from]
    test,     \* [Cells \X Shards -> the result of the shard's job]
    tested,   \* the shards that ran: [cell, shard, attempt, commit, result, tree]
    report,   \* [Rows -> the result of the reporting job]
    job,      \* [Rows -> where the reporting job is]
    hud,      \* the rows: [row, commit, conclusion, attempt, late, results]
    faults    \* number of faults so far

run == <<started, attempt>>
builds == <<build, wheel>>
tests == <<test, tested>>
reports == <<report, job, hud>>
vars == <<clock, run, prep, commit, builds, tests, reports, faults>>

Rows == {"build", "test"}
AllShards == Cells \X Shards

(* A job has no result while it is due.                                    *)
Results == {"due", "success", "failure", "cancelled", "skipped"}

NewReport == [at |-> "resolve", jobs |-> "none", late |-> FALSE, reports |-> "none",
              results |-> TestResults([passed |-> {}, failed |-> {}, skipped |-> {}]),
              verdict |-> "none", tries |-> 0]

Init ==
    /\ clock = 1
    /\ started = 0 /\ attempt = 0
    /\ prep = "skipped" /\ commit = NoSource
    /\ build = [c \in Cells |-> "skipped"] /\ wheel = [c \in Cells |-> NoSource]
    /\ test = [x \in AllShards |-> "skipped"] /\ tested = {}
    /\ report = [r \in Rows |-> "skipped"] /\ job = [r \in Rows |-> NewReport]
    /\ hud = {} /\ faults = 0

Faulty(n) == faults + n <= MaxFaults /\ faults' = faults + n

(***************************************************************************)
(* The nightly branch, and the attempts of the run.                        *)
(***************************************************************************)
(* Only prep looks at the branch, so nightlies appear before the run and   *)
(* while prep is due.                                                      *)
PublishNightly ==
    /\ clock < MaxClock
    /\ attempt = 0 \/ prep = "due"
    /\ clock' = clock + 1
    /\ UNCHANGED <<run, prep, commit, builds, tests, reports, faults>>

Settled ==
    /\ prep # "due"
    /\ \A c \in Cells : build[c] # "due"
    /\ \A x \in AllShards : test[x] # "due"
    /\ \A r \in Rows : report[r] # "due"

AllDue ==
    /\ prep' = "due" /\ commit' = NoSource
    /\ build' = [c \in Cells |-> "due"]
    /\ test' = [x \in AllShards |-> "due"]
    /\ report' = [r \in Rows |-> "due"] /\ job' = [r \in Rows |-> NewReport]

StartRun ==
    /\ attempt = 0
    /\ attempt' = 1 /\ started' = clock
    /\ AllDue
    /\ UNCHANGED <<clock, wheel, tested, hud, faults>>

RerunAll ==
    /\ attempt \in 1..(MaxAttempts - 1) /\ Settled
    /\ attempt' = attempt + 1
    /\ AllDue
    /\ UNCHANGED <<clock, started, wheel, tested, hud, faults>>

(* "Re-run failed jobs" when prep is kept: the tests need all builds.      *)
Again(result) == IF result = "success" THEN "success" ELSE "due"

RerunFailed ==
    LET rebuild == \E c \in Cells : build[c] # "success"
        retest  == rebuild \/ \E x \in AllShards : test[x] # "success"
        due     == {r \in Rows : \/ report[r] # "success"
                                 \/ r = "build" /\ rebuild
                                 \/ r = "test" /\ retest}
    IN  /\ attempt \in 1..(MaxAttempts - 1) /\ Settled
        /\ prep = "success" /\ due # {}
        /\ attempt' = attempt + 1
        /\ build' = [c \in Cells |-> Again(build[c])]
        /\ test' = [x \in AllShards |-> IF rebuild THEN "due" ELSE Again(test[x])]
        /\ report' = [r \in Rows |-> IF r \in due THEN "due" ELSE report[r]]
        /\ job' = [r \in Rows |-> IF r \in due THEN NewReport ELSE job[r]]
        /\ UNCHANGED <<clock, started, prep, commit, wheel, tested, hud, faults>>

(* Someone cancels the run: what builds or tests ends, a stage that has    *)
(* not begun is skipped, and the reporting jobs (`always()') still run.    *)
Cancel ==
    /\ prep = "success" /\ Faulty(1)
    /\ IF \E c \in Cells : build[c] = "due"
       THEN /\ build' = [c \in Cells |->
                            IF build[c] = "due" THEN "cancelled" ELSE build[c]]
            /\ test' = [x \in AllShards |-> "skipped"]
       ELSE /\ \E x \in AllShards : test[x] = "due"
            /\ test' = [x \in AllShards |->
                           IF test[x] = "due" THEN "cancelled" ELSE test[x]]
            /\ UNCHANGED build
    /\ UNCHANGED <<clock, run, prep, commit, wheel, tested, reports>>

(***************************************************************************)
(* prep: the nightly that was in effect when the run was first started,    *)
(* among those that are fetched.                                           *)
(***************************************************************************)
Fetched == {n \in 1..clock : n > clock - Window}

CandidatesMutant == Fetched

Candidates == {n \in Fetched : n <= started}

NewestOf(n, commits) == n \in commits /\ \A m \in commits : m <= n

Resolve(n) ==
    /\ prep = "due" /\ NewestOf(n, Candidates) /\ SourceAt[n] # NoSource
    /\ prep' = "success" /\ commit' = SourceAt[n]
    /\ UNCHANGED <<clock, run, builds, tests, reports, faults>>

NothingToResolve ==
    \/ Candidates = {}
    \/ \E n \in Candidates : NewestOf(n, Candidates) /\ SourceAt[n] = NoSource

(* Without a commit, or when the job fails: the other jobs are skipped.    *)
PrepFails ==
    /\ prep = "due"
    /\ IF NothingToResolve THEN UNCHANGED faults ELSE Faulty(1)
    /\ prep' = "failure"
    /\ build' = [c \in Cells |-> "skipped"]
    /\ test' = [x \in AllShards |-> "skipped"]
    /\ report' = [r \in Rows |-> "skipped"]
    /\ UNCHANGED <<clock, run, commit, wheel, tested, job, hud>>

(***************************************************************************)
(* The builds and the tests.  A build may fail before or after its wheels  *)
(* are uploaded; the artifact of an earlier attempt is replaced.           *)
(***************************************************************************)
EndBuild(c, result, uploaded) ==
    /\ prep = "success" /\ build[c] = "due"
    /\ result = "success" => uploaded
    /\ IF result = "success" THEN UNCHANGED faults ELSE Faulty(1)
    /\ build' = [build EXCEPT ![c] = result]
    /\ wheel' = IF uploaded THEN [wheel EXCEPT ![c] = commit] ELSE wheel
    /\ UNCHANGED <<clock, run, prep, commit, tests, reports>>

BuildsOver == prep = "success" /\ \A c \in Cells : build[c] # "due"

(* A shard without a wheel fails at the download.  Its reports are         *)
(* uploaded whatever its result, if there are any.                         *)
EndTest(x, result, tree) ==
    /\ BuildsOver /\ test[x] = "due"
    /\ wheel[x[1]] = NoSource => result = "failure" /\ tree = NoTree
    /\ IF wheel[x[1]] = NoSource \/ (result = "success" /\ tree # NoTree)
       THEN UNCHANGED faults ELSE Faulty(1)
    /\ test' = [test EXCEPT ![x] = result]
    /\ tested' = tested \union {[cell |-> x[1], shard |-> x[2], attempt |-> attempt,
                                 commit |-> wheel[x[1]], result |-> result,
                                 tree |-> tree]}
    /\ UNCHANGED <<clock, run, prep, commit, builds, reports>>

(***************************************************************************)
(* The reporting jobs.  That of the builds reads nothing the tests write,  *)
(* and the other way round, so here they run one after the other behind    *)
(* the tests.                                                              *)
(***************************************************************************)
TestsOver == BuildsOver /\ \A x \in AllShards : test[x] # "due"

Ready(row) ==
    /\ report[row] = "due" /\ TestsOver
    /\ row = "test" => report["build"] # "due"

Skipped(row) ==
    IF row = "build" THEN \A c \in Cells : build[c] = "skipped"
                     ELSE \A x \in AllShards : test[x] = "skipped"

SkipReport(row) ==
    /\ Ready(row) /\ job[row].at = "resolve" /\ Skipped(row)
    /\ report' = [report EXCEPT ![row] = "skipped"]
    /\ UNCHANGED <<clock, run, prep, commit, builds, tests, job, hud, faults>>

(* The jobs of the attempt; of those in `unknown' the API does not know    *)
(* the conclusion yet.                                                     *)
JobsOf(row) == IF row = "build" THEN Cells ELSE AllShards

Listing(row, unknown) ==
    {[job |-> x,
      cell |-> IF row = "build" THEN x ELSE x[1],
      conclusion |-> IF x \in unknown THEN Null
                     ELSE IF row = "build" THEN build[x] ELSE test[x]] :
        x \in JobsOf(row)}

ResolveRow(row, unknown) ==
    LET conclusion == ResolveCells(Listing(row, unknown), Cells)
    IN  /\ Ready(row) /\ job[row].at = "resolve" /\ ~Skipped(row)
        /\ IF unknown = {} THEN UNCHANGED faults ELSE Faulty(1)
        /\ IF Resolvable(Listing(row, unknown), Cells) /\ ShouldReport(conclusion)
           THEN /\ job' = [job EXCEPT ![row] =
                              [@ EXCEPT !.at = IF row = "test" THEN "download" ELSE "post",
                                        !.jobs = conclusion, !.verdict = conclusion,
                                        !.late = unknown # {}]]
                /\ UNCHANGED report
           ELSE /\ report' = [report EXCEPT ![row] =
                                 IF Resolvable(Listing(row, unknown), Cells)
                                 THEN "success" ELSE "failure"]
                /\ UNCHANGED job
        /\ UNCHANGED <<clock, run, prep, commit, builds, tests, hud>>

(* The reports of this attempt, of which the download may miss some.       *)
ArtifactsMutant == {t \in tested : t.tree # NoTree}

Artifacts == {t \in tested : t.attempt = attempt /\ t.tree # NoTree}

DirectoryOf(t) == [group |-> t.cell, shard |-> t.shard, tree |-> t.tree]

Summarize(missed) ==
    LET dirs == {DirectoryOf(t) : t \in Artifacts \ missed}
        r    == CollectGroups(dirs, Cardinality(Shards), Cardinality(Cells))
    IN  /\ Ready("test") /\ job["test"].at = "download"
        /\ IF missed = {} THEN UNCHANGED faults ELSE Faulty(1)
        /\ job' = [job EXCEPT !["test"] =
                      [@ EXCEPT !.at = "post", !.reports = Evidence(r),
                                !.results = TestResults(r),
                                !.verdict = Combine(job["test"].verdict, Evidence(r))]]
        /\ UNCHANGED <<clock, run, prep, commit, builds, tests, report, hud>>

(* One request of the callback: accepted; accepted, and the answer is      *)
(* lost; not delivered, or the relay asks for another try; refused.        *)
Row(row) == [row |-> row, commit |-> commit, conclusion |-> job[row].verdict,
             attempt |-> attempt, late |-> job[row].late, results |-> job[row].results]

Refile(row) == {h \in hud : ~(h.row = row /\ h.commit = commit)} \union {Row(row)}

MatchMutant(row) == "success"

(* "Match GitHub to the reported conclusion".                              *)
Match(row) ==
    IF row = "test" /\ job[row].verdict = "failure" /\ job[row].jobs = "success"
    THEN "failure" ELSE "success"

Post(row, outcome) ==
    LET retry == outcome \in {"answer lost", "try later"} /\ job[row].tries + 1 < CallTries
    IN  /\ Ready(row) /\ job[row].at = "post"
        /\ IF outcome = "accepted" THEN UNCHANGED faults ELSE Faulty(1)
        /\ hud' = IF outcome \in {"accepted", "answer lost"} THEN Refile(row) ELSE hud
        /\ job' = [job EXCEPT ![row] = [@ EXCEPT !.tries = job[row].tries + 1]]
        /\ report' = [report EXCEPT ![row] =
                         IF retry THEN "due"
                         ELSE IF outcome = "accepted" THEN Match(row) ELSE "failure"]
        /\ UNCHANGED <<clock, run, prep, commit, builds, tests>>

(* The job is lost, or cancelled, at any point.                            *)
LoseReport(row) ==
    /\ Ready(row) /\ ~Skipped(row) /\ Faulty(1)
    /\ report' = [report EXCEPT ![row] = "failure"]
    /\ UNCHANGED <<clock, run, prep, commit, builds, tests, job, hud>>

Outcomes == {"accepted", "answer lost", "try later", "refused"}

Progress ==
    \/ \E n \in 1..clock : Resolve(n)
    \/ PrepFails
    \/ \E c \in Cells, r \in {"success", "failure"}, u \in BOOLEAN : EndBuild(c, r, u)
    \/ \E x \in AllShards, r \in TestEnds, t \in Trees \union {NoTree} :
          EndTest(x, r, t)
    \/ \E row \in Rows :
          \/ SkipReport(row)
          \/ \E u \in SUBSET JobsOf(row) : ResolveRow(row, u)
          \/ \E o \in Outcomes : Post(row, o)
          \/ LoseReport(row)
    \/ \E m \in SUBSET Artifacts : Summarize(m)

(* The last attempt is through; any other state without a next one would   *)
(* be a deadlock of jobs that wait for each other.                         *)
Over == attempt = MaxAttempts /\ Settled /\ UNCHANGED vars

Next ==
    \/ PublishNightly
    \/ StartRun
    \/ RerunAll
    \/ RerunFailed
    \/ Cancel
    \/ Progress
    \/ Over

Spec == Init /\ [][Next]_vars

--------------------------------------------------------------------------------
TestedType ==
    [cell : Cells, shard : Shards, attempt : Nat, commit : Sources \union {NoSource},
     result : Results, tree : Trees \union {NoTree}]

TestResultsType == [passed : Nat, failed : Nat, skipped : Nat, total : Nat]

JobType ==
    [at : {"resolve", "download", "post"}, jobs : Conclusions \union {"none"},
     late : BOOLEAN, reports : {"none", "success", "failure"},
     results : TestResultsType, verdict : Conclusions \union {"none"}, tries : Nat]

RowType ==
    [row : Rows, commit : Sources \union {NoSource},
     conclusion : Conclusions \union {"none"}, attempt : Nat, late : BOOLEAN,
     results : TestResultsType]

(* Type correctness.                                                       *)
TypeOK ==
    /\ clock \in 1..MaxClock /\ started \in Nat /\ attempt \in Nat /\ faults \in Nat
    /\ prep \in Results /\ commit \in Sources \union {NoSource}
    /\ build \in [Cells -> Results] /\ wheel \in [Cells -> Sources \union {NoSource}]
    /\ test \in [AllShards -> Results] /\ tested \subseteq TestedType
    /\ report \in [Rows -> Results] /\ job \in [Rows -> JobType]
    /\ hud \subseteq RowType

(* A green row of the HUD was earned by the attempt that filed it.  For    *)
(* the tests: the job of every shard of every cell succeeded in it and     *)
(* left a report, uploaded in it, that shows no failure.  For the builds:  *)
(* every cell was built, and none of the present attempt failed.           *)
Green(tree) ==
    /\ FailedKeys(tree) = {} /\ tree.broken = {} /\ MissingItemization(tree) = 0

EarnedBy(x, n) ==
    \E t \in tested : /\ t.cell = x[1] /\ t.shard = x[2] /\ t.attempt = n
                      /\ t.result = "success" /\ t.tree # NoTree /\ Green(t.tree)

HudNotBetter ==
    \A h \in hud :
        h.conclusion = "success" =>
            IF h.row = "test" THEN \A x \in AllShards : EarnedBy(x, h.attempt)
            ELSE \A c \in Cells : /\ wheel[c] # NoSource
                                  /\ h.attempt = attempt => build[c] = "success"

(* Whatever became of the nightly branch since, all attempts of the run    *)
(* build, test and report the commit that was the nightly when it was      *)
(* first started, also where a test takes the wheel of an earlier attempt. *)
ReportedIsTested ==
    \A h \in hud :
        /\ h.commit = SourceAt[started]
        /\ \A t \in tested : t.commit \in {h.commit, NoSource}

(* The HUD and GitHub agree: when everything in the run is green, each row *)
(* is there and green, unless GitHub's listing was late.                   *)
RunIsGreen ==
    /\ prep = "success" /\ \A c \in Cells : build[c] = "success"
    /\ \A x \in AllShards : test[x] = "success"
    /\ \A r \in Rows : report[r] = "success"

GreenRunMeansGreenRows ==
    RunIsGreen => \A r \in Rows : \E h \in hud :
        h.row = r /\ h.commit = commit /\ (h.conclusion = "success" \/ h.late)

(* A green test row counts a test once for every Python version that ran   *)
(* it, not once for all.                                                   *)
Ran(tree) == PassedKeys(tree) \union SkippedKeys(tree)

EveryVersionCounts ==
    \A h \in hud :
        h.row = "test" /\ h.conclusion = "success" =>
            h.results.total = Cardinality(UNION {
                {<<t.cell, k>> : k \in Ran(t.tree)} :
                    t \in {u \in tested : u.attempt = h.attempt /\ u.tree # NoTree}})
================================================================================
