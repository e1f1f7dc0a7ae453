------------------------------ MODULE SignedRelease ------------------------------
(***************************************************************************)
(* One scheduled nightly from its build jobs to its GitHub Release:        *)
(* windows-woa-build-test.yml (build, publication), _woa-sign-publish.yml  *)
(* (resolve, sign, publish), _woa-sign.yml (sign, validate) and the        *)
(* github-release job of _woa-publish.yml, with the scripts they run:      *)
(* build_run.py, digests.py, attestations.py and github_release.py.        *)
(*                                                                         *)
(* Wheels travel as artifacts, which every job of the run can replace;     *)
(* their hashes travel as job outputs, which only the job itself can set.  *)
(* The jobs of an attempt run concurrently where their `needs` allow it,   *)
(* any of them can be lost, and the run can be re-run in whole or in part, *)
(* with the artifacts and outputs of earlier attempts still there.         *)
(*                                                                         *)
(* A cell's wheels, manifest and signature report are one payload: one job *)
(* writes them, one artifact carries them.  The one copy of a wheel that   *)
(* several cells build is a function of that set of payloads.              *)
(*                                                                         *)
(* An operator named ...Mutant is a plausible bug of the definition that   *)
(* follows it; no specification uses it.                                   *)
(***************************************************************************)
EXTENDS Naturals

CONSTANTS
  Cells,        \* the Python cells of the build matrix
  None,         \* nothing there: no artifact, no output, no release
  Deleted,      \* what is left of an immutable release that was deleted
  Foreign,      \* bytes that no build or sign job of this run produced
  MaxAttempts,  \* bound: attempts of the run ("Re-run jobs")
  MaxReplaced   \* bound: artifacts that another job of the run replaces

Attempts == 1..MaxAttempts
(* The bytes a build job of the run uploaded, and what a sign job made of  *)
(* an unsigned payload: timestamped, so no two signings agree.             *)
Built == Cells \X Attempts
Signed == [cell : Cells, of : Built \union {Foreign}, in : Attempts]
Payloads == UNION {[D -> Signed \union {Foreign}] : D \in SUBSET Cells}

(* A wheel artifact: its id, the attempt whose build job of that cell was  *)
(* running when it was created (0: none was), its bytes.                   *)
UnsignedArtifacts == [id : Nat, during : 0..MaxAttempts, content : Built \union {Foreign}]
SignedArtifacts == [id : Nat, content : Signed \union {Foreign}]
Reports == [id : Nat, passed : BOOLEAN, of : Signed]
Handovers == [id : Nat, files : Signed]
Pages == [draft : BOOLEAN, immutable : BOOLEAN, assets : Payloads]

ASSUME ReleaseAssumption ==
  /\ MaxAttempts \in Nat \ {0}
  /\ MaxReplaced \in Nat
  /\ Foreign \notin Built /\ Foreign \notin Signed
  /\ None \notin Signed /\ None \notin Built /\ None # Foreign
  /\ None \notin UnsignedArtifacts /\ None \notin SignedArtifacts /\ None \notin Reports
  /\ None \notin Handovers /\ None \notin Pages
  /\ Deleted \notin Pages /\ Deleted # None

VARIABLES
  attempt,    \* github.run_attempt
  build,      \* [Cells -> result of the cell's build job]
  builtIn,    \* [Cells -> the attempt that job last ran in], 0 before
  resolve,    \* result of resolve
  cells,      \* its output `cells`: id and hashes of each listed cell
  sign,       \* [Cells -> result of the cell's sign job]
  signing,    \* [Cells -> payload signed and attested, not yet uploaded]
  handed,     \* [Cells -> outputs signed-artifact-id and signed-files]
  validate,   \* [Cells -> result of the cell's validate job]
  release,    \* result of github-release
  at,         \* where the github-release job is in its steps
  got,        \* the payloads it downloaded
  unsigned,   \* [Cells -> the cell's wheel artifact]
  signed,     \* [Cells -> its signed artifact]
  report,     \* [Cells -> its validation report artifact]
  nextId,     \* the id the next uploaded artifact gets
  replaced,   \* artifacts replaced so far by other jobs
  attested,   \* payloads the sign job attested
  validated,  \* payloads that passed validation on WoA hardware
  page,       \* the GitHub release under this run's tag
  reports     \* release reports that github-release handed on

jobs == <<build, builtIn, resolve, cells, sign, signing, handed, validate>>
publishing == <<release, at, got, page, reports>>
artifacts == <<unsigned, signed, report, nextId, replaced>>
vars == <<attempt, build, builtIn, resolve, cells, sign, signing, handed, validate,
          release, at, got, unsigned, signed, report, nextId, replaced,
          attested, validated, page, reports>>

Results == {"none", "success", "failure", "skipped"}
Nothing == [c \in Cells |-> None]
NotRun == [c \in Cells |-> "none"]
NoCells == [c \in {} |-> None]

Init ==
  /\ attempt = 1
  /\ build = NotRun /\ builtIn = [c \in Cells |-> 0]
  /\ resolve = "none" /\ cells = NoCells
  /\ sign = NotRun /\ signing = Nothing /\ handed = Nothing
  /\ validate = NotRun
  /\ release = "none" /\ at = "rest" /\ got = NoCells
  /\ unsigned = Nothing /\ signed = Nothing /\ report = Nothing
  /\ nextId = 1 /\ replaced = 0
  /\ attested = {} /\ validated = {}
  /\ page = None /\ reports = {}

--------------------------------------------------------------------------------
(* build: the wheels are uploaded, under a name that every attempt shares  *)
(* and replaces, before the job's last steps; a failure comes before the   *)
(* upload or after it.                                                     *)

Build(c) ==
  /\ build[c] = "none"
  /\ \E r \in {"success", "failure"}, uploaded \in BOOLEAN :
       /\ r = "success" => uploaded
       /\ build' = [build EXCEPT ![c] = r]
       /\ IF uploaded
            THEN /\ unsigned' = [unsigned EXCEPT ![c] =
                      [id |-> nextId, during |-> attempt, content |-> <<c, attempt>>]]
                 /\ nextId' = nextId + 1
            ELSE UNCHANGED <<unsigned, nextId>>
  /\ builtIn' = [builtIn EXCEPT ![c] = attempt]
  /\ UNCHANGED <<attempt, resolve, cells, sign, signing, handed, validate, publishing,
                 signed, report, replaced, attested, validated>>
BuildsOver == \A c \in Cells : build[c] # "none"

(* The test shards and the validate jobs run once the builds are over, so  *)
(* what one of them uploads was created during no build job.  It puts      *)
(* bytes of its own, or an earlier payload or report, under a cell's name; *)
(* it does not make a report up.  None is a report nobody can read.        *)
Replaces(a, c, artifact) ==
  /\ a' = [a EXCEPT ![c] = artifact]
  /\ nextId' = nextId + 1 /\ replaced' = replaced + 1
AnotherJobUploads(c) ==
  /\ BuildsOver /\ replaced < MaxReplaced
  /\ \/ /\ Replaces(unsigned, c, [id |-> nextId, during |-> 0, content |-> Foreign])
        /\ UNCHANGED <<signed, report>>
     \/ /\ \E s \in {t \in attested : t.cell = c} \union {Foreign} :
             Replaces(signed, c, [id |-> nextId, content |-> s])
        /\ UNCHANGED <<unsigned, report>>
     \/ /\ \/ Replaces(report, c, None)
           \/ \E s \in {t \in attested : t.cell = c} :
                Replaces(report, c, [id |-> nextId, passed |-> s \in validated, of |-> s])
        /\ UNCHANGED <<unsigned, signed>>
  /\ UNCHANGED <<attempt, jobs, publishing, attested, validated>>

--------------------------------------------------------------------------------
(* resolve: build_run.py lists the cells, then hashes them one by one.     *)

Eligible == {c \in Cells : build[c] = "success" /\ unsigned[c] # None}
OwnUploadMutant(c) == TRUE
OwnUpload(c) == unsigned[c].during = builtIn[c]
UnhashedMutant(artifact) == [files |-> None]
Unhashed(artifact) == [id |-> artifact.id, files |-> None]

Fail == resolve' = "failure" /\ cells' = NoCells
Resolve ==
  /\ BuildsOver /\ resolve = "none" /\ cells = NoCells
  /\ IF Eligible # {} /\ \A c \in Eligible : OwnUpload(c)
       THEN /\ cells' = [c \in Eligible |-> Unhashed(unsigned[c])]
            /\ UNCHANGED resolve
       ELSE Fail
  /\ UNCHANGED <<attempt, build, builtIn, sign, signing, handed, validate, publishing,
                 artifacts, attested, validated>>

(* An id outlives its artifact: once another upload took the name, the     *)
(* download by id fails.                                                   *)
Downloadable(a, c, id) == a[c] # None /\ a[c].id = id
HashUpload(c) ==
  /\ resolve = "none" /\ c \in DOMAIN cells /\ cells[c].files = None
  /\ IF Downloadable(unsigned, c, cells[c].id)
       THEN cells' = [cells EXCEPT ![c].files = unsigned[c].content] /\ UNCHANGED resolve
       ELSE Fail
  /\ UNCHANGED <<attempt, build, builtIn, sign, signing, handed, validate, publishing,
                 artifacts, attested, validated>>
Resolved ==
  /\ resolve = "none" /\ DOMAIN cells # {} /\ \A c \in DOMAIN cells : cells[c].files # None
  /\ resolve' = "success"
  /\ UNCHANGED <<attempt, build, builtIn, cells, sign, signing, handed, validate, publishing,
                 artifacts, attested, validated>>
ResolveLost ==
  /\ BuildsOver /\ resolve = "none"
  /\ Fail
  /\ UNCHANGED <<attempt, build, builtIn, sign, signing, handed, validate, publishing,
                 artifacts, attested, validated>>

--------------------------------------------------------------------------------
(* sign and validate, for each cell that resolve listed.                   *)

Listed(c) == resolve = "success" /\ c \in DOMAIN cells
(* digests.py check: exactly the files that were handed on.                *)
Unaltered(a, c, id, files) == Downloadable(a, c, id) /\ a[c].content = files

SignFiles(c) ==
  /\ Listed(c) /\ sign[c] = "none" /\ signing[c] = None
  /\ Unaltered(unsigned, c, cells[c].id, cells[c].files)
  /\ LET s == [cell |-> c, of |-> unsigned[c].content, in |-> attempt] IN
       /\ signing' = [signing EXCEPT ![c] = s]
       /\ attested' = attested \union {s}
  /\ UNCHANGED <<attempt, build, builtIn, resolve, cells, sign, handed, validate, publishing,
                 artifacts, validated>>
UploadSigned(c) ==
  /\ signing[c] # None
  /\ signed' = [signed EXCEPT ![c] = [id |-> nextId, content |-> signing[c]]]
  /\ handed' = [handed EXCEPT ![c] = [id |-> nextId, files |-> signing[c]]]
  /\ nextId' = nextId + 1
  /\ sign' = [sign EXCEPT ![c] = "success"]
  /\ signing' = [signing EXCEPT ![c] = None]
  /\ UNCHANGED <<attempt, build, builtIn, resolve, cells, validate, publishing,
                 unsigned, report, replaced, attested, validated>>
(* The job refuses its download, or is lost at any step.                   *)
SignFails(c) ==
  /\ Listed(c) /\ sign[c] = "none"
  /\ sign' = [sign EXCEPT ![c] = "failure"]
  /\ signing' = [signing EXCEPT ![c] = None]
  /\ UNCHANGED <<attempt, build, builtIn, resolve, cells, handed, validate, publishing,
                 artifacts, attested, validated>>

(* The report is uploaded whether the wheels passed or not; a job can fail *)
(* after that, and one that never came to validate leaves no report.       *)
Validate(c) ==
  /\ sign[c] = "success" /\ validate[c] = "none"
  /\ Unaltered(signed, c, handed[c].id, handed[c].files)
  /\ \E passed \in BOOLEAN, r \in {"success", "failure"} :
       /\ r = "success" => passed
       /\ report' = [report EXCEPT ![c] =
            [id |-> nextId, passed |-> passed, of |-> signed[c].content]]
       /\ validated' = IF passed THEN validated \union {signed[c].content} ELSE validated
       /\ validate' = [validate EXCEPT ![c] = r]
  /\ nextId' = nextId + 1
  /\ UNCHANGED <<attempt, build, builtIn, resolve, cells, sign, signing, handed, publishing,
                 unsigned, signed, replaced, attested>>
ValidateFails(c) ==
  /\ sign[c] = "success" /\ validate[c] = "none"
  /\ validate' = [validate EXCEPT ![c] = "failure"]
  /\ UNCHANGED <<attempt, build, builtIn, resolve, cells, sign, signing, handed, publishing,
                 artifacts, attested, validated>>

--------------------------------------------------------------------------------
(* github-release.  needs.sign.result covers every cell of the matrix.     *)

CellOver(c) == sign[c] = "failure" \/ validate[c] # "none"
SignOver == resolve = "failure" \/ (resolve = "success" /\ \A c \in DOMAIN cells : CellOver(c))
SignResultMutant == resolve = "success"
SignResult == resolve = "success" /\ \A c \in DOMAIN cells : validate[c] = "success"

SkipRelease ==
  /\ release = "none" /\ at = "rest" /\ SignOver /\ ~SignResult
  /\ release' = "skipped"
  /\ UNCHANGED <<attempt, jobs, at, got, artifacts, attested, validated, page, reports>>

(* The signed artifacts are downloaded by a pattern on their names, so an  *)
(* earlier attempt's are among them.                                       *)
DownloadSigned ==
  /\ release = "none" /\ at = "rest" /\ SignOver /\ SignResult
  /\ at' = "evidence"
  /\ got' = [c \in {d \in Cells : signed[d] # None} |-> signed[c].content]
  /\ UNCHANGED <<attempt, jobs, release, artifacts, attested, validated, page, reports>>

(* attestations.py, then check_evidence: every payload attested by a sign  *)
(* job of this run, with a passing report on exactly these bytes.          *)
AttestedHere(s) == s \in attested
ReportsOnMutant(r, s) == r # None /\ r.passed
ReportsOn(r, s) == r # None /\ r.passed /\ r.of = s
Evidenced ==
  /\ DOMAIN got = {c \in Cells : signed[c] # None \/ report[c] # None}
  /\ \A c \in DOMAIN got : AttestedHere(got[c]) /\ ReportsOn(report[c], got[c])

ReleaseFails == release' = "failure" /\ at' = "rest"

Present == page \notin {None, Deleted}

(* publish: a release that is already there, a draft included, is verified *)
(* and never modified.                                                     *)
CheckEvidence ==
  /\ at = "evidence"
  /\ IF Evidenced
       THEN /\ at' = IF Present THEN "verify" ELSE "create"
            /\ UNCHANGED release
       ELSE ReleaseFails
  /\ UNCHANGED <<attempt, jobs, got, artifacts, attested, validated, page, reports>>

(* gh release create: a draft, then one upload per asset, then published - *)
(* immutable if the repository's setting is on.  The tag of a deleted      *)
(* immutable release is refused.                                           *)
CreateDraft ==
  /\ at = "create" /\ page = None
  /\ page' = [draft |-> TRUE, immutable |-> FALSE, assets |-> NoCells]
  /\ at' = "upload"
  /\ UNCHANGED <<attempt, jobs, release, got, artifacts, attested, validated, reports>>
UploadAsset(c) ==
  /\ at = "upload" /\ Present /\ c \in DOMAIN got \ DOMAIN page.assets
  /\ page' = [page EXCEPT !.assets =
       [d \in DOMAIN page.assets \union {c} |-> IF d = c THEN got[c] ELSE page.assets[d]]]
  /\ UNCHANGED <<attempt, jobs, release, at, got, artifacts, attested, validated, reports>>
PublishDraft ==
  /\ at = "upload" /\ Present /\ DOMAIN got = DOMAIN page.assets
  /\ \E immutable \in BOOLEAN :
       page' = [page EXCEPT !.draft = FALSE, !.immutable = immutable]
  /\ at' = "verify"
  /\ UNCHANGED <<attempt, jobs, release, got, artifacts, attested, validated, reports>>

(* verify_release: every asset is there with its digest, and the release   *)
(* can no longer change.                                                   *)
VerifiedMutant == Present /\ ~page.draft /\ page.assets = got
Verified == Present /\ ~page.draft /\ page.immutable /\ page.assets = got
Verify ==
  /\ at = "verify"
  /\ IF Verified
       THEN /\ reports' = reports \union {got}
            /\ at' = "rest"
            /\ \E r \in {"success", "failure"} : release' = r
       ELSE ReleaseFails /\ UNCHANGED reports
  /\ UNCHANGED <<attempt, jobs, got, artifacts, attested, validated, page>>

(* The job is lost, or gh fails; where it was is where it stays.           *)
ReleaseLost ==
  /\ at # "rest"
  /\ ReleaseFails
  /\ UNCHANGED <<attempt, jobs, got, artifacts, attested, validated, page, reports>>

(* Assets are only locked once the draft is published as immutable.        *)
EditRelease(c) ==
  /\ Present /\ ~page.immutable
  /\ c \in DOMAIN page.assets
  /\ page' = [page EXCEPT !.assets[c] = Foreign]
  /\ UNCHANGED <<attempt, jobs, release, at, got, artifacts, attested, validated, reports>>

(* A whole release can be deleted at any moment, an immutable one too: its *)
(* tag is then never usable again, a mutable one's is free.                *)
DeleteRelease ==
  /\ Present
  /\ page' = IF page.immutable THEN Deleted ELSE None
  /\ UNCHANGED <<attempt, jobs, release, at, got, artifacts, attested, validated, reports>>

--------------------------------------------------------------------------------
(* Re-runs.  A job that is re-run, and what depends on it, starts over and *)
(* loses its outputs; everything else keeps its result and its outputs,    *)
(* and every artifact stays.                                               *)

AttemptOver ==
  /\ at = "rest" /\ release # "none"
  /\ attempt < MaxAttempts

Reset(f, S, v) == [c \in Cells |-> IF c \in S THEN v ELSE f[c]]
RerunFrom(builds, fromResolve, signs, validates, fromRelease) ==
  /\ AttemptOver
  /\ attempt' = attempt + 1
  /\ build' = Reset(build, builds, "none")
  /\ resolve' = IF fromResolve THEN "none" ELSE resolve
  /\ cells' = IF fromResolve THEN NoCells ELSE cells
  /\ sign' = Reset(sign, signs, "none")
  /\ handed' = Reset(handed, signs, None)
  /\ validate' = Reset(validate, validates, "none")
  /\ release' = IF fromRelease THEN "none" ELSE release
  /\ got' = IF fromRelease THEN NoCells ELSE got
  /\ UNCHANGED <<builtIn, signing, at, artifacts, attested, validated, page, reports>>

RerunAll == RerunFrom(Cells, TRUE, Cells, Cells, TRUE)

(* The publication depends on the build matrix as a whole, so a failed     *)
(* build re-runs all of it.  The failure may also be of a later job.       *)
RerunFailed ==
  LET builds == {c \in Cells : build[c] = "failure"}
      fromResolve == builds # {} \/ resolve = "failure"
      signs == IF fromResolve THEN Cells ELSE {c \in Cells : sign[c] = "failure"}
      validates == IF fromResolve THEN Cells
                   ELSE signs \union {c \in Cells : validate[c] = "failure"}
  IN RerunFrom(builds, fromResolve, signs, validates, validates # {} \/ release # "success")

--------------------------------------------------------------------------------
Pipeline ==
  \/ \E c \in Cells : Build(c) \/ HashUpload(c) \/ SignFiles(c) \/ UploadSigned(c) \/ SignFails(c)
                      \/ Validate(c) \/ ValidateFails(c) \/ UploadAsset(c)
  \/ Resolve \/ Resolved \/ ResolveLost
  \/ SkipRelease \/ DownloadSigned \/ CheckEvidence \/ CreateDraft \/ PublishDraft \/ Verify
  \/ ReleaseLost
Interference == DeleteRelease \/ \E c \in Cells : AnotherJobUploads(c) \/ EditRelease(c)

Next == Pipeline \/ Interference \/ RerunFailed \/ RerunAll
Spec == Init /\ [][Next]_vars

--------------------------------------------------------------------------------
(* Every variable holds what the jobs and services can put there.          *)
TypeOK ==
  /\ attempt \in Attempts
  /\ build \in [Cells -> Results] /\ builtIn \in [Cells -> 0..MaxAttempts]
  /\ resolve \in Results
  /\ DOMAIN cells \subseteq Cells
  /\ \A c \in DOMAIN cells :
       cells[c] \in [id : Nat, files : Built \union {Foreign, None}]
  /\ sign \in [Cells -> Results] /\ validate \in [Cells -> Results]
  /\ signing \in [Cells -> Signed \union {None}]
  /\ handed \in [Cells -> Handovers \union {None}]
  /\ release \in Results
  /\ at \in {"rest", "evidence", "create", "upload", "verify"}
  /\ got \in Payloads
  /\ unsigned \in [Cells -> UnsignedArtifacts \union {None}]
  /\ signed \in [Cells -> SignedArtifacts \union {None}]
  /\ report \in [Cells -> Reports \union {None}]
  /\ nextId \in Nat /\ replaced \in 0..MaxReplaced
  /\ attested \subseteq Signed /\ validated \subseteq Signed
  /\ page \in Pages \union {None, Deleted}
  /\ reports \subseteq Payloads

(* What was ever signed with the production identity is what the cell's    *)
(* own build job uploaded, whatever else replaced the artifact before,     *)
(* while or after resolve looked at it (build_run.py:40-55).               *)
SignedWasBuilt == \A s \in attested : s.of \in {s.cell} \X Attempts

(* Every payload a release report hands to Kitmaker came out of a sign job *)
(* of this run and passed validation on WoA hardware at exactly these      *)
(* bytes, although artifacts of several attempts carry the same names and  *)
(* the validation report is not attested (github_release.py:7-14).         *)
ReleasedWasValidated ==
  \A r \in reports : \A c \in DOMAIN r : r[c] \in attested /\ r[c] \in validated

(* The bytes behind a URL that Kitmaker was given are never swapped: the   *)
(* release serves what a github-release job of any attempt reported, or,   *)
(* once somebody deleted all of it, it serves nothing and no later attempt *)
(* puts anything in its place; and two attempts never report different     *)
(* wheels (github_release.py:16-23, 41-46).  That a reported release stays *)
(* up is not promised: docs/woa-wheel-publishing.md:234-238.               *)
ReportedIsServed ==
  /\ \A r \in reports : page = Deleted \/ (page # None /\ ~page.draft /\ page.assets = r)
  /\ \A r, s \in reports : r = s

(* A failed signing or validation anywhere holds back the whole release:   *)
(* a github-release job that succeeds has published every cell that        *)
(* resolve listed (_woa-sign-publish.yml:145-148).                         *)
WholeSetOrNothing == release = "success" => DOMAIN cells \subseteq DOMAIN got

--------------------------------------------------------------------------------
(* The inductive invariant behind the four safety invariants above.        *)

(* What resolve may list, and what the id of a listed artifact stands for  *)
(* as long as it stands for anything, is the cell's own build.             *)
OwnBuild(c) == {c} \X Attempts
ProvenanceInv ==
  /\ \A c \in Cells : build[c] = "success" => builtIn[c] # 0
  /\ \A c \in Cells : unsigned[c] # None =>
       /\ unsigned[c].id < nextId
       /\ unsigned[c].content \in OwnBuild(c) \/ unsigned[c].during = 0
  /\ \A c \in DOMAIN cells :
       /\ cells[c].id < nextId
       /\ Downloadable(unsigned, c, cells[c].id) => unsigned[c].content \in OwnBuild(c)
  /\ SignedWasBuilt
  /\ \A c \in Cells : signing[c] # None => signing[c] \in attested
  /\ \A c \in Cells : handed[c] # None => handed[c].files \in attested

(* A readable report that says "passed" is about a payload that did.       *)
EvidenceInv ==
  /\ validated \subseteq attested
  /\ \A c \in Cells : report[c] # None /\ report[c].passed => report[c].of \in validated
  /\ at \in {"create", "upload", "verify"} => \A c \in DOMAIN got : got[c] \in validated
  /\ ReleasedWasValidated

(* Nothing was reported before the release was published for good.         *)
PageInv ==
  /\ at = "create" => ~Present
  /\ at = "upload" => page = None \/ (page # Deleted /\ page.draft)
  /\ Present /\ page.immutable => ~page.draft
  /\ \A r \in reports : page = Deleted \/ (page # None /\ page.immutable /\ page.assets = r)
  /\ \A r, s \in reports : r = s

(* A job has run only if the jobs it needs have.                           *)
OrderInv ==
  /\ \A c \in Cells : validate[c] = "success" => signed[c] # None
  /\ \A c \in Cells : sign[c] = "success" => handed[c] # None
  /\ at # "rest" => release = "none" /\ resolve = "success" /\ DOMAIN cells \subseteq DOMAIN got
  /\ release = "success" => resolve = "success"
  /\ WholeSetOrNothing

IInv == TypeOK /\ ProvenanceInv /\ EvidenceInv /\ PageInv /\ OrderInv
================================================================================
