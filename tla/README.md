# Formal model of the Windows CI

This directory holds TLA+ specifications of the CI of this repository: the
pipelines under `.github/workflows` and the scripts they run. TLC checks each
specification on a small instance, and TLAPS checks proofs of the safety
properties for all instances. `PROJECT.json` maps every definition to the lines it models.

- [The system](#the-system)
- [The modules](#the-modules)
- [What is checked](#what-is-checked)
- [What is proved](#what-is-proved)
- [Where the code and its documents differ](#where-the-code-and-its-documents-differ)
- [Assumptions and limits](#assumptions-and-limits)
- [Not modelled](#not-modelled)

Parse a module with `tlasany M.tla`, check a run with
`tlc -config X.cfg M`, check the proofs of a module with `tlapm M.tla`.

## The system

The repository is CI code only. GitHub Actions runs workflows; a workflow's jobs
form a graph (`needs`, `if`); a job runs steps, which call Python, PowerShell or
shell scripts; jobs hand on outputs (small, set only by the job itself) and
artifacts (files, replaceable by any job of the run). A run can be re-run in part
("Re-run failed jobs") or in whole, and its next attempt then finds artifacts, and with a partial
re-run outputs, of the attempts before it. Nothing else persists but the release
page, the package index, the repository's variables, and what jobs leave on the
self-hosted machines.

### Components

| Component | State | Operations | Interacts with | What is hard | What makes it correct |
| --- | --- | --- | --- | --- | --- |
| **Kitmaker publication** `scripts/publish/kitmaker.py`, `index_check.py`, `_woa-publish.yml` | outputs `approved`, `released`, `wheels`; the script's place, index pages read | gate, dry run, production release, index check | Kitmaker's portal (HTTP), pypi.nvidia.com, `KITMAKER_PIC` | a request outlives the job that made it; lost answers, poll deadlines, partial listing, a listing that is never a snapshot, re-runs with kept outputs | production replays what a dry run validated; nothing is announced that is not listed; a failed package stops later ones; every attempt ends |
| **Artifacts, signing and the GitHub release** `build_run.py`, `digests.py`, `attestations.py`, `github_release.py`, `_woa-sign*.yml` | artifacts, job outputs, attestations, the release page | upload, resolve and hash, sign and attest, validate, create, verify | build jobs, GitHub's artifact, attestation and release APIs | artifacts are replaceable and outlive attempts, names carry no attempt, a release is created in many calls | only own builds are signed; only validated bytes are released; what was reported is never swapped; the whole set or nothing |
| **Per-PR trigger and approval** `upstream-pull.yml`, `scripts/pr-gate/*.py` | runs of a PR, their outputs, reviews and audit record | triage, approval, authorization, calls of the pipelines | the relay's events, upstream's PR, maintainers, two variables, both pipelines | events late, repeated, reordered; pushes while a request waits; supersession; partial re-runs | what builds is what was approved, and is recorded so; later runs do not go back; the kill switch stops it |
| **Nightly WoA pipeline** `windows-woa-build-test.yml`, `_woa-build.yml`, `_woa-test.yml` | job results, resolved commits, wheels and reports as artifacts | prep, build matrix, sharded tests, publication, reporting, pin check | GitHub, HUD, artifacts | tests run beside publication; re-runs must resolve the same commit, and take the wheel of an earlier attempt by a name without an attempt | all attempts of a nightly are of one commit; a test tests the wheel its cell built |
| **RTX pipeline** `windows-rtx-*.yml`, `_rtx-*.yml` | job results, wheels and reports as artifacts whose names carry the attempt | prep, build, wheel test, sharded tests, reports | GitHub, HUD, artifacts | a re-run of the tests alone looks for a wheel of its own attempt | as above |
| **Test bounds and shard watchdog** `sitecustomize.py`, `TestShardRunner.ps1` | timers, process tree, record and report files, exit code | install the bound, fire, kill the tree, reconcile exit codes | pytest processes, the test report | timer against normal exit, two nested bounds, lock on the record, orphaned children | every shard ends; a green shard has reports of what ran; a truncated one is never green |
| **HUD reporting** `scripts/crcr/*.py`, `crcr-callback` | a row per commit and kind of job: conclusion, test totals | resolve a row's conclusion, summarize reports, combine, post, post again | the HUD's relay, GitHub's jobs API, report artifacts | jobs listing incomplete, reports of other attempts or missing, lost answers, re-runs | a green row was earned by the attempt that filed it, and a green run has green rows |
| **Test summaries, known failures, statistics** `scripts/test-summary`, `scripts/known-failing`, `scripts/test-stats` | none beyond a run | scan reports, reconcile, aggregate, quarantine, shard weights | report files, run logs | retries in new processes, processes that die in a test, XML and log that disagree | no failure is lost between report and verdict, and none invented |
| **Runner hygiene** `woa-strict-clean`, `woa-preflight-*`, `woa-create-venv` | trees and processes on persistent shared machines | sweep, remove path by path, before and after a job; preflight; move the checkout | the machine, earlier jobs | a job lost before its clean-up, a process that holds a tree, kills that fail, handles that linger | a job publishes its own files only; a job fails on the leftovers of another only if somebody said that they are there |
| **Wheel repacking and tags** `wheel_repack.py`, `wheel_tags.py` | archives, the directories they are unpacked into, a manifest | unpack, repack, parse and check tags | the signing service, the sign job | files the service leaves out or that change on disk, duplicate names, wheels of several interpreters | the repacked wheel has the unpacked one's entries, its native files signed and what nothing disturbed as it was; what is attested is signed in full |
| **Signature check, hardware validation, verification** `verify-wheel-signatures.ps1`, `validate-signed-wheels.ps1`, `_woa-verify.yml` | report files | check signatures, import on hardware | Windows | subprocess output | a pass means every binary was checked |
| **Local artifact store** `scripts/local-artifact` | zip files on a server | upload, download with retries | no workflow at present | broken-off transfers | a download is complete or fails |
| **WoA build toolchain**, **environment layer** `tools/woa-build/shared` | build trees, process environments | build wheels, save and restore environments | compilers, pip | restoring after failure | an environment is restored exactly |
| **x86-64 build scripts and source refs** | none | build, resolve a ref | compilers, git | - | - |
| **Runner diagnostics and dispatch logging**, **lint** | logs | sample, print | - | - | observability only |

### How they interact

```
relay event -> upstream-pull (gate -> approval -> authorize) -> RTX and WoA PR pipelines
schedule    -> prep -> build[cell] -> test[cell, shard] -> summary -> HUD
                          |
                          +-> resolve -> sign[cell] -> validate[cell]
                                 -> github-release -> dry run -> release -> index check
```

The modules meet where an output crosses from one to the next. `SignedRelease`
ends with the report of a GitHub release, whose bytes are proved never to be
swapped, though all of the release may be deleted; `KitmakerRelease` starts from the wheels of that report, which is why its
`GithubReleaseJob` only succeeds or fails. `PrGate` ends where it calls the pipelines with
a commit, and the PR pipeline has no publication. `TestShard` decides how a shard's step ends and
with how many reports, `ShardEvidence` what is in them, `ReportScan` what the scripts read
there; `CellVerdict` makes a row of it and `NightlyRun` files the row, with the shard's
result and its reports as the input. `WheelSigning` is the inside of what `SignedRelease` has as
one step, the signing of a cell. `WoaRunner` is the machine under the build, test and validation
jobs of all of these, which take for granted what it shows: that what a
job uploads is its own.

## The modules

| Module | Models | Lines of source |
| --- | --- | --- |
| `KitmakerRelease` | the publication jobs, one action per step of the script that another actor can get in between of | `kitmaker.py`, `index_check.py`, `_woa-publish.yml` |
| `WheelPublication` | abstract: what publication promises somebody who installs from the index | - |
| `SignedRelease` | a nightly's cells from their build to the verified release | `build_run.py`, `digests.py`, `attestations.py`, `github_release.py`, `_woa-sign.yml`, `_woa-sign-publish.yml`, `_woa-publish.yml` |
| `PrGate` | the runs of `upstream-pull.yml` for any number of PRs | `upstream-pull.yml`, `verify_pr.py`, `evaluate_allowlist.py`, `summarize_authorization.py` |
| `TestShard` | one shard's test step with its three bounds, its reports and its verdict | `_woa-test.yml`, `pytorch-windows-test-shard.ps1`, `TestShardRunner.ps1`, `sitecustomize.py`, `seed_test_stats.py` |
| `RecordFile` | the record the bounds of all test-file processes append to | `sitecustomize.py` |
| `ReportScan` | what the summaries read out of a reports tree: functions of the tree | `parse_failures.py` |
| `ShardEvidence` | how run_test.py fills a reports tree, under `ReportScan` | `parse_failures.py`, run_test.py as its docstrings describe it |
| `CellVerdict` | the conclusion of a row out of jobs and reports: functions | `resolve_cell_conclusion.py`, `build_test_results.py`, `windows-woa-build-test.yml` |
| `NightlyRun` | the attempts of a nightly run from `prep` to its rows on the HUD | `windows-woa-build-test.yml`, `resolve_nightly_commits.py`, `crcr-callback`, `_woa-build.yml`, `_woa-test.yml` |
| `WheelTags` | on which interpreters a wheel installs: functions of its tags | `wheel_tags.py` |
| `WheelSigning` | the sign job from its download to what it attests | `wheel_repack.py`, `_woa-sign.yml`, `verify-wheel-signatures.ps1` |
| `WoaRunner` | a machine and the jobs it is given one after the other | `woa-strict-clean`, `_woa-build.yml`, `_woa-test.yml`, `_woa-sign.yml` |
| `*_proofs` | theorems about the module named | - |
| `MC*` | instances for TLC | - |

Operators named `...Mutant` are plausible bugs of the definition after them. No
specification uses one: putting it in the definition's place makes the run violate the property
`PROJECT.json` pairs it with, which shows that the property can fail.

**KitmakerRelease.** One running job at a time (the five jobs form a chain).
`at` is the place of the running script: `before` reads index pages one wheel at
a time, `submit` and `poll` walk through `Order` as `_run_requests` does,
`confirm` is the loop after production, `report` and `check` write outputs.
`kit` is Kitmaker's own record of each request, which no job ever sees as a
whole, and `index` is what pypi.nvidia.com lists. Kitmaker decides and lists at
any moment; another pipeline may list a filename with its own bytes; the
variable `KITMAKER_PIC` is edited; `Interrupt` ends a job anywhere, its requests staying
accepted. Bytes of a wheel matter in one way, whether a listing has the release's digest
(`present`) or another (`mismatch`).

**SignedRelease.** One variable per job result, output and artifact, each a
function of the cell, so the cells' build, sign and validate jobs interleave. Job
outputs change only in the job's own actions; artifacts also in
`AnotherJobUploads`. Contents are `<<cell, attempt>>` of the build job that made them, or
`Foreign`; a signed payload names the bytes it was made of and the attempt it was
signed in, since timestamps make every signing differ. A re-run keeps results and
outputs of what it does not repeat and every artifact. The release page is
written call by call (`CreateDraft`, `UploadAsset`, `PublishDraft`) and can be
edited until it is published as immutable. `DeleteRelease` removes it as a whole at any
moment, published or not, as `docs/woa-wheel-publishing.md:234-238` says the release job's token
could: the tag of an immutable release is then burned (`Deleted`), and every later attempt,
which is for the same date and so the same tag, fails to create it. What holds is that
nothing else is ever served where a reported wheel was; that it stays up is not promised.

**PrGate.** A run is an event, its job results, the outputs of `gate`, its review
history and its audit record. `EnterGroup` is the concurrency group of the
workflow: the run that enters cancels the one in progress, atomically. Upstream's head is
a number that grows with each push; the payload's SHA is any head up to the
present one, so events come late and out of order. What upstream says of the PR's
state and base, and the allowlist, are chosen when `Triage` reads them, which
covers every edit in between. The review history is of the run, and goes on across
its re-runs.

**TestShard.** `phase` is the place of the step's script, `runner` is run_test.py,
`proc` has the process of each test file with its timers, `clock` the time since
run_test.py was started, in units of its sharding threshold of ten minutes.
`Tick` is refused while a timer that can run is due or a process at work has
taken its time, so a deadline is a deadline and neither timer can be late. Three
bounds nest: pytest-timeout ends a test (`PerTestTimeout`), the two timers of
`sitecustomize.py` end a file (`Fire` launches taskkill, `TreeKill` is taskkill
at work, `Backstop` is faulthandler's native timer, which needs no GIL but
leaves the workers), the watchdog ends run_test.py (`Expire`, `KillTree`). A
process hangs waiting or with the GIL held, and which of the three still works
depends on that. None of the bounds covers the import check before the launch
(`Test-TorchImportable`: no timeout, and no timer is armed in it), so `ProbeHangs`; nor the
step once its script has ended: while something that was not killed may hold the step's stdout
(`Left`), `StepEnds` may never happen, and `WorkersEnd` may happen or not. `MarkFails` ends the step as `Add-Content` does under
`ErrorActionPreference = "Stop"`, `finally` included. run_test.py and pytest are not in this
repository: they are modelled from how the scripts here use them (sharding by
cost, one process per file, attempts, `--keep-going`, a
report at the end of a session) and are marked external. `killed` is history a property speaks of.

**RecordFile.** A call of `_record` is open, lock, seek, write, unlock, and dies
anywhere. A line is named after its writer. The write is at the position sought, over what
is there: that is what `O_APPEND` is on Windows, and why the lock matters.

**ReportScan and ShardEvidence.** A tree is a record of suites with their cases, files
that do not parse, and lines of the run log. `ReportScan` collects the keys of failed, passed and
skipped tests from each source and reconciles them as `collect` does: what recovered
is dropped, then the markers of files that have a failure of their own, and a header
that counts more than it itemizes makes the verdict red. `ShardEvidence` fills such a
tree one test at a time: a session stops at a failure, a new one tries it again, a
process that dies leaves no file, a broken one or one with a header that says too much.
Its invariants hold in every state, so also for a shard that is killed at any point.

**CellVerdict and NightlyRun.** The reductions of the two scripts are functions of a
jobs listing and of the downloaded directories. `NightlyRun` calls them where the reporting
jobs do, on a listing that may be late and a download that may miss artifacts.
Time is counted in commits of the nightly branch. A run remembers when its first attempt was
`started`; each attempt's `prep` resolves again (`Resolve`), among the commits the
API returns. `wheel` survives attempts and carries no attempt, `tested` has the
reports under names that do. `hud` keeps one row per kind of job and commit, which posting again
replaces; `Post` covers an answer that is lost after the row was filed. `Cancel` ends
what builds or tests, and the reporting jobs still run.

**WheelTags and WheelSigning.** An archive is a sequence of entries, a directory on disk a
function from names to data, and a hash stands for the data it is of. `Unpack` vets the
set and each archive, `Sign` touches one native file at a time in any order, `Disturb` is
anything else that happens to them until `EndSigning` (`touched` is history, of the files it
happened to), `Repack` writes the archives in
their order and `WriteManifest` follows the last. Duplicate entries, directories and a RECORD are in the
model because the code treats them in particular ways.

**WoaRunner.** A tree on disk is the set of the jobs that have put something into it. A job walks
through the steps of its kind in `Steps`; each step is one action, and the clean is
one for the sweep and one per path. A step that fails leaves those with `always()` or
`!cancelled()`; a job can be cancelled, or lost with nothing after it run, at any point.
What keeps a tree from being removed is a process a job left (a helper of the compilers, which the
sweep ends by name; a program in one of the trees, which it ends by its image; another one), the
handle of a process that has ended ("fading"), or entries of another account ("foreign"). The
sweep may fail to end any process it looks for, and one that it ends may leave its handle for a while; a
clean goes on all the same. A tree that is held makes robocopy fail (`RobocopyFails`, which
ends either clean at once) or is still there after the attempts (`GivesUp`, an error in the first clean
and a warning in the last). `known` is history: the trees a lost job had and those a clean failed on, warned of
or did not get to.
`move` into a tree that exists nests the checkout, as the comment in the clean says.

## What is checked

| Run | Instance | Shows |
| --- | --- | --- |
| `kitmaker_release` | 2 packages, 3 wheels, 2 points of contact, 2 attempts, 1 poll per loop | `ProductionReplaysDryRun`, `StopsAtFirstFailure`, `ReportedMeansListed`, `OnlyAsRequested`, and that the jobs implement `WheelPublication` (`PublishesAsPromised`), and `RunSettles`: each attempt comes to rest, whatever Kitmaker does |
| `kitmaker_rerun` | as `kitmaker_release` | violates `RerunIsTheWayBack` |
| `signed_release` | 2 cells, 2 attempts, 1 artifact replaced by another job | `SignedWasBuilt`, `ReleasedWasValidated`, `ReportedIsServed`, `WholeSetOrNothing` |
| `pr_gate` | 1 PR with 2 heads, 2 events that may be about labels, 1 re-run, 2 reviewers, 2 pipelines, `PR_CI_MODE` edited | `BuildsWhatWasApproved`, `BuildsAreAudited`, `NeverGoesBack` |
| `pr_gate_kill_switch` | 1 event, `PR_CI_MODE` edited | violates `KillSwitchStops` |
| `test_shard` | a heavy and a light file, measured, 2 attempts, 2 at a time, 2 hangs, taskkill may fail, fairness | `GreenMeansPassed`, `OnlyHungAreKilled`, `HangCostsItsFile`, `NoneOutlivesItsBound`, `OnlyStarvedLeaveWorkers`, and `ShardEnds`: the step ends whatever the tests and run_test.py do, unless its import check hangs or what the script could not kill holds it |
| `test_shard_unmeasured` | the heavy file is not measured, nothing hangs | violates `OnlyHungAreKilled` |
| `record_file` | 4 calls | `TruthfullyRecorded`, `OnlyAppended` |
| `shard_evidence` | a file of 2 tests in the log, tried twice, and one of 1 test in XML only, run in 2 rounds | `NothingInvented`, `NoFailureLost`, `EveryRedFileIsNamed`, `CrashIsNotGreen` |
| `nightly_run` | 2 cells of 2 shards, 2 attempts, nightlies of 2 commits and one that names none, 2 faults | `HudNotBetter`, `ReportedIsTested`, `GreenRunMeansGreenRows`, `EveryVersionCounts`, and that no job waits for ever (deadlock) |
| `wheel_signing` | 54 sets of wheels, 2 disturbances | `RepackedIsTheWheel`, `AttestedIsSigned`, `OneInterpreter` |
| `woa_runner` | 3 jobs of any kind, 1 kind of leftover of each | `OnlyOwnFiles`, `OnlyKnownLeftovers` |

The runs of the first six modules and `shard_evidence` also check the type invariant
`TypeOK` of their module; those of `NightlyRun`, `WheelSigning` and `WoaRunner` are proved.

### Bounds

- `MaxAttempts` (2): the first attempt and a re-run. What an attempt sees of its
  predecessors is outputs, artifacts, requests and the release, and one
  predecessor can leave every combination of them. The proofs hold for any number.
- `MaxPolls` (1): a poll that answers "pending" and one that finds the deadline
  passed. `PollDeadline` may happen at any poll, as the deadline is a time.
- `MaxReplaced` (1): another job replaces one artifact, at any moment.
- `MaxHead`, `MaxRuns` (2), `MaxReruns` (1 for all runs): a push between, before
  or after two events, and one re-run of either run, in part or in whole, which
  is what makes one run meet another and its own past. The violations need less.
- `TestShard`: a unit is ten minutes. The workflow's bound is 3 units, its cap 18 and its grace a
  tenth of one; the instance has `Bound` 2, `Cap` 6 and `Grace` 1 (a longer grace only makes a
  stuck process live longer), and the proofs hold for any: one hang of a file and its
  second attempt fit under it, two hangs and work do not, so both sides of
  the deadline are reached. The heavy file takes 3 whole, more than the bound, and 1 split; the
  light one takes 1. `MaxHangs` (2) are hangs of test processes or of
  run_test.py. Two processes at a time, two attempts.
- `RecordFile`: four calls, so that one can give up while a second holds the lock and
  two wait.
- `ShardEvidence`: two tests, so that a session goes on behind one; two tries, so that one can
  be made good; two rounds, so that a round can contradict the one before it.
- `NightlyRun`: `Window` (2) commits are fetched of three (`MaxClock`), so a commit can fall
  out of the window and one can be too new; `CallTries` (2) is a retry; `MaxFaults` (2) are jobs
  that fail or are lost, a cancelled run, listings, reports and answers that are late or missing, in any
  combination of two. Two shards of two cells are what a count per version and a count
  per shard differ on.
- `WheelSigning`: the sets shipped so far (one interpreter, stable ABI, pure), 45 mixtures of
  tags, and six sets that are odd in one way each (a second torch, a missing package, an archive that
  is signed already, has a name that leads outside, has no native file, lists its RECORD first).
- `WoaRunner`: three jobs, one that leaves something, one that fails on it or is lost in
  turn, and one after it. `MaxHolds` (1) is the kinds of leftovers of one job; a killed process becomes a
lingering handle, so trees are held in all five ways.
- Three wheels of two packages: a package with two wheels, which a request may list in
  part, and a package after it. Two cells: one that fails and one that does not.
- Symmetry: cells, reviewers and pipelines are interchangeable in their runs, which check
  invariants only. Wheels and packages are not (they are submitted in an order).

Where `CHECK_DEADLOCK FALSE` stands, the run of a workflow may be over: every
attempt, event and re-run of the bound used up and, in `SignedRelease`, nothing
left to edit. A shard's step, a call of `_record` and the test files of a shard end. The runs of
`NightlyRun`, `WheelSigning` and `WoaRunner` check deadlock: these modules have an action
`Over` for a run, job or machine that is through. In `NightlyRun` faults are bounded, so this
is what says that its jobs, in whatever state they left each other, never wait for each other; in
the other two a job can be lost at any point, and the check says little.

### Fairness

`kitmaker_release` assumes weak fairness of `Progress`, that is, GitHub
starts a job that is due and a runner goes on with a running script. Kitmaker,
the index, other publishers and people have no fairness: a request may stay
pending and a wheel unlisted for ever, and the poll bound, which stands for the
deadlines of `Portal.wait` and of `release`, ends the job all the same.

`test_shard` assumes that the step's script goes on, unless its import check hangs, that the clock does, that
timers which can run do, and weak fairness of `RunTest` and of `Tests` as a whole, that
is, run_test.py and the test processes take some step while one is possible. `Hang` and
`RunnerHangs` are such steps: a process may hang at any point, with the GIL or
without, taskkill may fail each time, and nothing makes run_test.py come to an end. That
the script ends is the watchdog's doing. The step is assumed to end after the script only when
nothing is left that could hold its stdout (`StepEnds /\ ~Left`), and orphaned workers need never end.

Every other property is of safety and needs none.

## What is proved

For every value of the constants that satisfies the named assumptions
(`PublicationAssumption`, `ReleaseAssumption`, `GateAssumption`, `ShardAssumption`,
`WritersAssumption`, `EvidenceAssumption`, `NullAssumption` and
`NightlyAssumption`, `SigningAssumption`, `RunnerAssumption`: the bounds are positive, the
special values are no records or test numbers, each package is submitted once, cells, shards
and the test files of a shard are finitely many, a RECORD is no native file):

| Module | Theorems |
| --- | --- |
| `KitmakerRelease_proofs` | `TypeCorrect`, `ProductionReplays`, `StopsAtFailure`, `ReportedListed`, `AsRequested`, and `Implements`: the publication jobs implement `WheelPublication` |
| `SignedRelease_proofs` | `TypeCorrect`, `SignsBuilt`, `ReleasesValidated`, `ServesReported`, `ReleasesWholeSet` |
| `PrGate_proofs` | `TypeCorrect`, `ApprovedOnly`, `Audited`, `Forward` |
| `TestShard_proofs` | `TypeCorrect`, `GreenPassed`, `BoundHolds`, `WorkersGo`, `HangsCostTheirFiles`, `WorkCompletes` (if the statistics are true); of `RecordFile`, `RecordTypeCorrect`, `AnswersTruthfully`, `Appends` |
| `ShardEvidence_proofs` | `TypeCorrect`, `NoInvention`, `NoLoss`, `RedFilesNamed`, `CrashIsSeen` |
| `NightlyRun_proofs` | `TypeCorrect`, `ReportedIsTestedHolds`, `HudNotBetterHolds`, `GreenRunMeansGreenRowsHolds`, `EveryVersionCountsHolds` |
| `WheelSigning_proofs` | `TypeCorrect`, `RepackedHolds`, `AttestedHolds`, `OneInterpreterHolds` |
| `WoaRunner_proofs` | `TypeCorrect`, `OnlyOwnFilesHolds`, `OnlyKnownLeftoversHolds` |

Each is read off an inductive invariant, proved with one step per action: `IInv` of its
module in theorem `Invariance`, with `CostInv` on top of it in `TestShard_proofs`, `RunInv` in
`NightlyRun_proofs` (theorem `RunInvariance`), and `RecordInv` for `RecordFile` (`RecordInvariance`).

- **KitmakerRelease.** `ProductionReplaysDryRun` alone is not inductive: a
  production request copies the output `approved`, so `EvidenceInv` says that
  each body in `approved` is one that a dry run of some attempt had completed,
  and that a running dry run has done so for the packages in `done`.
  `ControlInv` ties the script's place to the job and its inputs. `FreshInv` says which
  requests nobody has made yet, without which an attempt could overwrite what an
  earlier one proved. `SeenInv` is what makes a listing that was read page by
  page as good as a snapshot: a listing, once present, stays. The refinement maps
  `validated` to the packages with a completed dry-run request and `announced`
  to the outputs; each action is a step of `WheelPublication` or a stutter.
- **SignedRelease.** `ProvenanceInv` follows a payload from the build job to the
  attestation: what `resolve` lists is an artifact id, and as long as that id is
  downloadable its bytes are the cell's own. Ids grow, so a replaced artifact
  never comes back. `EvidenceInv` says a report that passed names exactly the payload
  that did. `PageInv` says that nothing is reported before the page is
  immutable, and that from then on it has the reported assets or is deleted for good.
  `OrderInv` ties results to outputs.
- **PrGate.** `ControlInv` says what a job that has run says of those it needs,
  across supersession and partial re-runs; it needs the set that a re-run repeats to be closed
  under "needs", which is lemma `NeedingFacts`. `ReviewInv` says that while the
  approval stands the last review approved the assessed commit, and the record
  names its author. `HeadInv` orders the assessed heads: no two runs of a PR are in
  progress, so an earlier run has looked its PR up before a later one does.
- **TestShard.** The invariant comes in two halves. `TimerInv` says what the timers
  of a living process leave possible: `Armed` keeps the native timer on it as
  long as the bound is on, which is why no process outlives both, whatever taskkill does;
  `Timely` says that one older than the bound was stuck with the GIL.
  `WorkCompletes` assumes `TrueCosts` (the statistics know every file; what is
  not split, or split off, is shorter than the bound), and run
  `test_shard_unmeasured` shows that it cannot do without. `VerdictInv` says what an exit
  code of run_test.py is worth: its processes end before it does, a session that
  passed left a report, an exit code is lost only before any test, and then
  there is no report either, which is how 125 catches it. `CostInv` is why a hang costs no more than
  its file. It charges each unit the clock has moved to one process at one age: at every tick
  before the step has moved on, the process that is charged is at work. No two units have the same charge, so the clock is
  at most the number of charges; a process that hung has as many ages as the bound and the grace, any other as
  many as its length. The longest process is there because `Files` is finite.
- **RecordFile.** Who has sought and not yet written holds the lock, so the end
  of the file is where it sought; a line is in the file exactly when its writer
  got past the write.
- **NightlyRun.** `PinInv` says that nothing but the commit in effect at the first start is ever
  resolved, built or tested, in any attempt; it follows from `Candidates`, which no
  later nightly enters. `StageInv` says that a stage is due as long as the one before it is,
  so that a row is about jobs that have ended. `ShardInv` and `JobInv` tie a shard's result, its entry in
  `tested` and what a reporting job has read to the present attempt; `HudInv` says of the rows
  filed what `HudNotBetter` asks, and lasts since `tested` only grows. That a complete set of
  reports has one from every shard is a counting argument on finite sets. `DueInv` says that
  no reporting job is over before what it reports, `TruthInv` that one which looked in time knows when all
  jobs succeeded, `AgreeInv` that one which is green behind green jobs filed a green row, or filed it on a
  late listing: from them follows `GreenRunMeansGreenRows`. `CountInv` says that a green
  verdict on the tests counts each test once per cell it ran in, and that a row of the present attempt stands on
  tests that are over, so that no later report can make the count of `EveryVersionCounts` wrong.
- **ShardEvidence.** `SessionInv` says what a session of a file has recorded so far and what it will still
  try, `SuiteInv` what of it is in the tree: a suite as the session left it, a broken one, or one whose header counts
  more than it lists. `LogInv` and `LastInv` tie the lines of the log to the last outcome of each
  test, which is what a pass in the log makes good.
- **WheelSigning.** `PlanInv` says that what `unpack` vetted is one wheel per
  package with the native files and interpreters of the set. `OutInv` says that each archive that
  was written is `Rewritten` from what the directory holds, which nothing changes any more once signing
  has ended, and that the manifest says so too. `TreeInv` says that a file that was not `touched` holds what
  was extracted, signed or not; of a file that must have changed it follows that it is the signed one.
- **WoaRunner.** `OrderInv`: a job past its clean that has not failed went through it. `SweepInv`: of
  the paths a clean has removed so far, none is there again while it goes on. `RepoInv`: there is
  no checkout where there is no tree. `OwnInv` says that a job that
  went through its clean finds its own files in every tree it removed, and nothing else. `KnownInv`: a tree that
  is held is `known`, or the clean at the end of the job on the machine has yet to come to it (`WillClean`),
  which removes it or makes it known. For that, `PlaceInv` says that only a clean has a place in the list of
  paths, and that a job at work has the checkout its last clean needs.

Only model-checked: `RunSettles` and `ShardEnds`, which are liveness under fairness and for which TLAPS
has no rule here. Every invariant and action property that a passing run checks is proved.
The violations are single behaviours and need no proof.

## Where the code and its documents differ

Each of the first three is a run that TLC ends with a behaviour of the code that the quoted line excludes.

1. `RerunIsTheWayBack` - `docs/woa-wheel-publishing.md:253`: a release that was
   interrupted after listing some wheels is refused by every re-run, because
   `kitmaker.py:427` refuses a partly listed release, its own listings included.
2. `KillSwitchStops` - `docs/per-pr-ci-triggering.md:98`: only `gate` reads
   `PR_CI_MODE`; a request that waits when it is set to `off` can still be
   approved and builds.
3. `OnlyHungAreKilled` - `_woa-test.yml:469-476`: the bound is turned off when the
   costs are missing, but `seed_test_stats.py:273` gives a file without
   statistics the median, so the check always finds costs. A heavy file that is newer than
   the statistics is then neither split nor spared.

Seen while reading, with no run of their own. In publication:

- `_woa-publish.yml:155`, `docs/woa-wheel-publishing.md:195-196`: signed artifacts are downloaded by
  a name pattern, so after "Re-run all jobs" that of a cell whose rebuild failed is released with the
  others. It takes two enabled cells.
- `github_release.py:415`, `docs/woa-wheel-publishing.md:253`: a release job lost between its
  uploads leaves a draft, which later attempts find, only verify, and refuse.
- `wheel_repack.py:24-25`: "Only file *contents* change (the signed binaries, and RECORD, which has to
  describe them)". repack compares the hashes of native files and only the names of the
  others (lines 223-237, 250-255), so one that is not native and has changed on disk is repacked as it is. `RepackedIsTheWheel` holds each file that was not touched
  to its contents and claims nothing of those of a touched one but that a native one has changed and that
  RECORD is true of it. `WheelSigning` has the behaviour, in two steps (`Disturb`, `Repack`).

In the nightly run:

- `windows-woa-build-test.yml:307-308`: "a failed-build cell simply errors at its wheel download". Not
  after a re-run, which finds the wheel of the earlier attempt, nor when a
  build failed after its upload (`_woa-build.yml:359`).
- `windows-woa-build-test.yml:155-163`: the nightly is pinned by date. One that is pushed late
  with a date before the run's start is still found by later attempts, and
  the torchaudio and torchvision refs are resolved anew by each.
- `resolve_cell_conclusion.py:35-38` says a failure outranks a cancellation. The step
  that combines the two signals gives "cancelled" to a cancelled job although its reports show
  failures (`windows-woa-build-test.yml:616`).
- `windows-rtx-build-test.yml:260`, `287`: the wheel's artifact carries the attempt, so a re-run of a
  failed test alone finds no wheel.
- `parse_failures.py:517-518`: "an early pass can never mask a genuinely later failure". Any
  PASSED line in the log makes good all failures of the test (lines 529-530), as the lines after the
  claim say. `NoFailureLost` is therefore about files whose progress is not in the
  log; `EveryRedFileIsNamed` holds of all.
- `aggregate_failures.py:21`: `FAIL_CONCLUSIONS` lacks `action_required` and `stale`, which
  `resolve_cell_conclusion.py` counts as failures.

On the machines:

- `woa-strict-clean/action.yml:55-56`: the clean at the end is to be best-effort, "so a cleanup transient never
  turns an otherwise-green job red". robocopy's 8 and above is thrown in either phase, and at the first of the
  five attempts (line 113): `WoaRunner` has it as `RobocopyFails("post")`.
- `docs/woa-ci-plan.md:222-236`, `woa-create-venv/action.yml:9-10`: nothing of a job is to reach the
  next. If the checkout of this repository or the clean at the start fails, the steps with `always()`
  or `!cancelled()` still upload reports, logs or a validation report that an earlier job
  left (`_woa-test.yml:570-577`, `_woa-build.yml:396-403`, `_woa-sign.yml:304-312`).
  `OnlyOwnFiles` is therefore about wheels, and about reports of jobs past their clean.
- `woa-strict-clean/action.yml:135-140` has the sweep reclaim an orphaned venv's python.exe by its
  image. On Windows that is a launcher, and the base interpreter it starts has its image elsewhere:
  every job fails in its first clean until that process ends. It is one of the
  leftovers a lost job may have ("other"), and `OnlyKnownLeftovers` allows for it.

On triggers and bounds:

- `upstream-pull.yml:114`, `docs/per-pr-ci-triggering.md:257`: every event enters the
  concurrency group before `gate` looks at its action, so a label cancels a request that waits, and
  raises none.
- `upstream-pull.yml:312`, `docs/per-pr-ci-triggering.md:255`: a flat payload is
  called inert because it carries no author. The allowlist is applied to
  upstream's answer, and an absent action passes, so it does raise a request.
- `WatchdogReport.ps1:30`, `189` call the blamed test exact under a single worker.
  The newest `lastrun` may be of a file that failed or crashed earlier; a file cut
  off before its first test has none.
- `TestShardRunner.ps1:353`: the watchdog "returns 124". If the tree outlives the wait of
  30 s, or workers of a dead test file still hold the log, appending the marker
  raises, and the step ends with 1 and without the watchdog's report
  (action `MarkFails`).

## Assumptions and limits

What the models take as given:

- A job sets its own outputs only, and the inputs of a workflow call do not change
  between attempts. GitHub runs a job once its needs have ended and evaluates `if:` then;
  variables are read when the job starts.
- `actions/upload-artifact` replaces an artifact of the same name by one with a new id.
  Ids are not reused. Other jobs of a run may replace an artifact but do not
  make up a validation report of a payload that was not validated; they may put an
  earlier one back.
- Kitmaker works only on requests it accepted, and lists no wheel it was not asked to.
  The index does not replace a file.
- A release published as immutable does not change, but all of it can be deleted, after which its tag
  is never usable again (`docs/woa-wheel-publishing.md:232-238`). All attempts of a run release under one tag, as
  all are of one nightly (`NightlyRun`). An attestation of this run was made by its
  sign job.
- run_test.py runs each test file of its slice in a process of its own, again if it
  fails, splits a file by its recorded cost, and exits with 0 exactly if every file
  passed in the end. pytest writes a report when a session ends, before the process does.
- A process at work ends within the time `Whole` or `Piece` says. A timer's thread can run
  until its process is gone; what CPython does with it in the last moments
  of an exit is not modelled.
- A write to the shard's log fails while run_test.py, or an orphaned worker that
  inherited the handle, still has it open: so the comment at
  `TestShardRunner.ps1:394-396` says of the one, and the handle is the same.
- A partial re-run repeats the jobs that did not succeed and those that need them; its listing has the
  jobs that are kept, with their conclusions. A nightly commit can be seen from its date on.
  In `NightlyRun` nightlies appear before the run or while `prep` is due, as nothing else looks.
- run_test.py stops a session at the first failure, tries the test again in a new one, and prints
  a marker for a file that failed to the end, as the docstrings of `parse_failures.py` say.
- The sign job runs on a hosted runner: its directories are fresh.
- A self-hosted machine runs one job at a time. What keeps Windows from removing a tree is a process
  that works in it or has it open, the handle of one that just ended, or entries of another account; a disk error
  on a tree that nothing holds is not modelled. A process that let go of a tree does not open it again, and a
  restart of the machine ends processes but leaves entries of another account. GitHub's
  runner clears its own temporary directory, and checkout the directory it checks out into.
- Supersession is one step. GitHub takes a moment to stop the jobs of a cancelled
  run; what they do in it is not modelled.

What they leave out:

- In `KitmakerRelease`: token expiry (`Interrupt` covers its effect), the probe
  job, which changes nothing, and the formatting of requests and reports.
- In `SignedRelease`: the choice of one copy of a wheel that several cells build
  (a function of the set of payloads), a draft for the rehearsal channel, a
  manual run's event, branch and subset of cells, which `resolve` vets before it
  lists anything.
- In `PrGate`: summaries, the jobs of the pipelines called, a payload without a PR
  number, whose run has a group of its own and fails in `gate`.
- In `TestShard`: the arguments and environment of run_test.py, known-failing excludes,
  the tail of the logs on the console, a job that is cancelled at its own cap of 240 minutes
  (`_woa-test.yml:130`), which is what ends a step that hangs in its import check or is held by orphans, reuse of
  process ids, which of a file's tests runs and which one the watchdog's report blames.
- In `ShardEvidence`: test files side by side (each key holds its file, so what one leaves is
  evidence for it alone), the names of files on disk.
- In `NightlyRun`: what a build does before its upload, the torchaudio and torchvision refs, the
  HUD's other fields. Job timeouts appear as failures, and as "cancelled" only through `Cancel`.
  The two reporting jobs read nothing of each other and
  run one after the other behind the tests.
- In `WheelSigning`: sizes, compression and provenance fields, names that differ in case only.
- In `WoaRunner`: the preflight checks, which change nothing, what a venv holds, and the verify
  job, which has the steps of a validation.

## Not modelled

- **RTX pipeline.** `NightlyRun` has its shape: prep, build, sharded tests, rows for the HUD. What
  differs is the wheel's name, noted above; a module of its own would repeat `NightlyRun`.
- **Cross-shard tables, quarantine list, test statistics** (`aggregate_*.py`, `known_failing.py`,
  `gen_test_stats.py`). Look-ups, sums and rendering over one set of files, without state between two calls;
  their own unit tests reach what they decide.
- **WoA build toolchain** and **environment layer.** One process that runs compilers and pip one
  after the other and saves and restores its own variables. What crosses to another job, the wheels
  and the marker, is in `WoaRunner` and `NightlyRun`; whatever breaks an environment ends
  with its process.
- **Hardware validation and index verification.** Subprocesses and their output. The verdict of
  the validation is an input of `SignedRelease`; nothing acts on that of the verify job.
- **Local artifact store.** A zip, a POST and a GET with curl's retries, called by no workflow. Whether
  a broken transfer can be seen depends on the server, which is not here.
- **Preflight checks, runner diagnostics, dispatch logging, lint, x86-64 build scripts.** They
  read and print, or are straight lines of commands, and keep no state.
