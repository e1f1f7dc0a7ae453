------------------------------- MODULE WoaRunner -------------------------------
(***************************************************************************)
(* One persistent, shared Windows-arm64 machine and the jobs it is given   *)
(* one after the other: builds, test shards and validations of signed      *)
(* wheels (_woa-build.yml, _woa-test.yml, _woa-sign.yml).  What a job      *)
(* writes stays on the disk, and processes it started may go on, until     *)
(* woa-strict-clean removes them at the start and the end of a job.  A job *)
(* can be cancelled, and it can be lost with nothing after it run.         *)
(*                                                                         *)
(* A tree on disk is the set of the jobs that have put something into it;  *)
(* it is there as long as that set is not empty.                           *)
(*                                                                         *)
(* An operator named ...Mutant is a plausible bug of the definition that   *)
(* follows it; no specification uses it.                                   *)
(***************************************************************************)
EXTENDS Naturals, Sequences, FiniteSets

CONSTANTS
    MaxJobs,   \* bound: jobs the machine is given
    MaxHolds   \* bound: kinds of leftovers of one job

ASSUME RunnerAssumption == MaxJobs \in Nat /\ MaxHolds \in Nat

Kinds == {"build", "test", "validate"}

Paths == {"pt", "pytorch", "artifact", "logs", "sha", "scratch", "signed", "validation"}

Jobs == 1..MaxJobs

(* What may keep a tree from being removed.  Processes a job left: a helper *)
(* of the compilers, a program in one of the trees, and what the sweep does *)
(* not look for, like the base interpreter that a venv's python.exe starts. *)
(* The handle of a process that has ended, for a moment.  And entries that  *)
(* belong to another account, from a runner once started as an admin.       *)
Processes == {"helper", "inside", "other"}
Leftovers == Processes \union {"fading", "foreign"}

VARIABLES
    count,    \* jobs given so far
    job,      \* the job on the machine
    files,    \* [Paths -> the jobs whose files are there]
    repo,     \* whose checkout has its root at C:\pt, or 0
    holders,  \* [Paths -> what keeps the tree from being removed]
    uploads,  \* what jobs have uploaded
    known     \* history: the paths a lost job had, and those a clean said it
              \* had not removed, as long as no clean has removed them since

vars == <<count, job, files, repo, holders, uploads, known>>

(***************************************************************************)
(* The steps of a job.                                                     *)
(***************************************************************************)
Steps == [
    build |-> <<"oot", "pre", "venv", "checkout", "move", "sha", "work", "stage",
                "publish", "upload", "post">>,
    test |-> <<"oot", "pre", "venv", "download", "checkout", "move", "sha",
               "install", "work", "upload", "post">>,
    validate |-> <<"oot", "pre", "venv", "download", "work", "upload", "post">>]

(* Paths the clean removes that its caller names.                          *)
Extra(kind, phase) ==
    IF kind = "validate" THEN <<"signed", "validation">>
    ELSE IF phase = "post" THEN <<"artifact">> ELSE << >>

(* What it removes, in order.                                              *)
Removed(kind, phase) ==
    <<"pt", "pytorch", "artifact", "logs", "sha", "scratch">> \o Extra(kind, phase)

(* No job.  A job is at a step of its kind; `sweeping' and `left' are the  *)
(* place of a clean, `cleaned' that the first one went through, `used' the *)
(* jobs whose files its results depend on.                                 *)
NoJob == [kind |-> "build", at |-> 0, left |-> 0, bad |-> FALSE, cancelled |-> FALSE,
          oot |-> FALSE, cleaned |-> FALSE, used |-> {}]

Busy == job.at > 0
At(step) == job.at \in DOMAIN Steps[job.kind] /\ Steps[job.kind][job.at] = step
Id == count

(* A step runs if nothing before it failed and nobody cancelled the job.   *)
Going == ~job.bad /\ ~job.cancelled
Ordinary(step) == At(step) /\ Going

Passed == [job EXCEPT !.at = @ + 1]
Failed == [Passed EXCEPT !.bad = TRUE]
Result(ok) == IF ok THEN Passed ELSE Failed
Using(paths) == job.used \union UNION {files[p] : p \in paths}

(* The step adds files of this job to the paths.                           *)
Writes(paths) == files' = [p \in Paths |-> files[p] \union IF p \in paths THEN {Id} ELSE {}]

(* Upload what is in a path; a directory that is not there uploads nothing.*)
Uploads(what, path) ==
    uploads' = IF files[path] = {} THEN uploads
               ELSE uploads \union {[by |-> Id, what |-> what, of |-> files[path] \union job.used,
                                     cleaned |-> job.cleaned]}

Init ==
    /\ count = 0 /\ job = NoJob /\ repo = 0 /\ uploads = {}
    /\ files = [p \in Paths |-> {}] /\ holders = [p \in Paths |-> {}] /\ known = {}

(* The machine is given a job.                                             *)
Take(kind) ==
    /\ ~Busy /\ count < MaxJobs
    /\ count' = count + 1
    /\ job' = [NoJob EXCEPT !.kind = kind, !.at = 1]
    /\ UNCHANGED <<files, repo, holders, uploads, known>>

(* "Checkout OOT tooling repo": it may fail, and then what the steps below *)
(* find under oot/ is what an earlier job left there, or nothing.          *)
CheckoutOot ==
    /\ Ordinary("oot")
    /\ \E ok \in BOOLEAN : job' = [Result(ok) EXCEPT !.oot = ok]
    /\ UNCHANGED <<count, files, repo, holders, uploads, known>>

AlwaysRunMutant == At("upload") /\ (job.kind = "validate" => ~job.cancelled)
(* The steps that run even so: those under always(), and the report of a   *)
(* validation under !cancelled().                                          *)
AlwaysRun ==
    \/ At("post")
    \/ At("upload") /\ (job.kind = "validate" => ~job.cancelled)

(* Another step is not run after a failure or a cancellation.              *)
Skip ==
    /\ ~Going /\ job.at \in DOMAIN Steps[job.kind] /\ ~AlwaysRun
    /\ job' = Passed
    /\ UNCHANGED <<count, files, repo, holders, uploads, known>>

(***************************************************************************)
(* woa-strict-clean.                                                       *)
(***************************************************************************)
Cleaning(phase) == At(phase) /\ (Going \/ AlwaysRun)

(* What Stop-StaleBuildProcesses ends: helpers by name, and any process    *)
(* with its image under C:\pt or the scratch directory.                    *)
Swept == {"helper", "inside"}

Caught == {q \in Paths \X Swept : q[2] \in holders[q[1]]}

(* Each kill may fail, which is ignored, and the handles of a process that *)
(* is killed may outlast it.                                               *)
Sweep(phase) ==
    /\ Cleaning(phase) /\ job.left = 0
    /\ \E spared \in SUBSET Caught : \E fading \in SUBSET (Caught \ spared) :
          holders' = [p \in Paths |->
              {h \in holders[p] : h \in Swept => <<p, h>> \in spared}
              \union {h \in {"fading"} : \E k \in Swept : <<p, k>> \in fading}]
    /\ job' = [job EXCEPT !.left = 1]
    /\ UNCHANGED <<count, files, repo, uploads, known>>

(* The path the clean is at.                                               *)
Current(phase) == Removed(job.kind, phase)[job.left]
Removing(phase) == Cleaning(phase) /\ job.left \in DOMAIN Removed(job.kind, phase)

StrictMutant(phase) == FALSE
Strict(phase) == phase = "pre"

(* The step ends with an error: what is left to remove stays.              *)
CleanFails(phase) ==
    LET paths == Removed(job.kind, phase)
    IN  /\ job' = [Failed EXCEPT !.left = 0]
        /\ known' = known \union {paths[k] : k \in {k \in DOMAIN paths : k >= job.left}}

(* Remove-TreeRobust: nothing is in its way, so the path goes.             *)
RemoveTree(phase) ==
    /\ Removing(phase) /\ holders[Current(phase)] = {}
    /\ files' = [files EXCEPT ![Current(phase)] = {}]
    /\ repo' = IF Current(phase) = "pt" THEN 0 ELSE repo
    /\ job' = [job EXCEPT !.left = @ + 1]
    /\ known' = known \ {Current(phase)}
    /\ UNCHANGED <<count, holders, uploads>>

(* Something is, and the tree loses some of its files at the most.         *)
Held(phase) ==
    /\ Removing(phase) /\ holders[Current(phase)] # {}
    /\ repo' \in IF Current(phase) = "pt" THEN {repo, 0} ELSE {repo}

(* It is there after five attempts, or a file after two: a strict clean    *)
(* ends with an error, the other one warns and goes on.                    *)
GivesUp(phase) ==
    /\ Held(phase)
    /\ IF Strict(phase) THEN CleanFails(phase)
       ELSE /\ job' = [job EXCEPT !.left = @ + 1]
            /\ known' = known \union {Current(phase)}
    /\ UNCHANGED <<count, files, holders, uploads>>

(* robocopy reports a failure, which ends either at its first attempt.     *)
RobocopyFails(phase) ==
    /\ Held(phase) /\ Current(phase) # "sha"
    /\ CleanFails(phase)
    /\ UNCHANGED <<count, files, holders, uploads>>

Cleaned ==
    /\ Cleaning("pre") /\ job.left > Len(Removed(job.kind, "pre"))
    /\ job' = [Passed EXCEPT !.left = 0, !.cleaned = TRUE]
    /\ UNCHANGED <<count, files, repo, holders, uploads, known>>

(* The clean at the end is the last step, and the job is over after it.    *)
(* Without the checkout of oot/ there may be no action to run.             *)
Finish ==
    /\ \/ At("post") /\ job.left > Len(Removed(job.kind, "post"))
       \/ At("post") /\ job.left = 0 /\ ~job.oot
       \/ Busy /\ job.at > Len(Steps[job.kind])
    /\ job' = NoJob
    /\ UNCHANGED <<count, files, repo, holders, uploads, known>>

(***************************************************************************)
(* The steps that do the work.                                             *)
(***************************************************************************)
(* woa-create-venv: the environment, and pip's cache, are in scratch.      *)
CreateVenv ==
    /\ Ordinary("venv")
    /\ Writes({"scratch"})
    /\ \E ok \in BOOLEAN : job' = [Result(ok) EXCEPT !.used = Using({"scratch"})]
    /\ UNCHANGED <<count, repo, holders, uploads, known>>

(* A shard's wheels: another try empties the directory first.  The signed  *)
(* wheels: digests.py accepts no file that is not expected.                *)
Download ==
    /\ Ordinary("download")
    /\ \E ok, again \in BOOLEAN :
          IF job.kind = "test"
          THEN /\ files' = [files EXCEPT !["artifact"] = IF again THEN {Id} ELSE @ \union {Id}]
               /\ job' = Result(ok)
          ELSE /\ Writes({"signed"})
               /\ job' = Result(ok /\ files["signed"] = {})
    /\ UNCHANGED <<count, repo, holders, uploads, known>>

(* A shard takes the commit from what it downloaded.                       *)
CheckoutPytorch ==
    /\ Ordinary("checkout")
    /\ files' = [files EXCEPT !["pytorch"] = {Id}]
    /\ \E ok \in BOOLEAN :
          job' = [Result(ok) EXCEPT !.used = IF job.kind = "test" THEN Using({"artifact"}) ELSE @]
    /\ UNCHANGED <<count, repo, holders, uploads, known>>

(* "Relocate pytorch checkout": `move' into a directory that is there puts *)
(* the checkout inside of it.                                              *)
Move ==
    /\ Ordinary("move")
    /\ files' = [files EXCEPT !["pt"] = @ \union {Id}, !["pytorch"] = {}]
    /\ repo' = IF files["pt"] = {} THEN Id ELSE repo
    /\ job' = Passed
    /\ UNCHANGED <<count, holders, uploads, known>>

(* "Record built SHA", "Record pytorch HEAD": git looks at C:\pt.          *)
RecordSha ==
    /\ Ordinary("sha")
    /\ Writes(IF job.kind = "build" THEN {"sha"} ELSE {})
    /\ job' = IF repo = 0 THEN Failed ELSE [Passed EXCEPT !.used = @ \union {repo}]
    /\ UNCHANGED <<count, repo, holders, uploads, known>>

(* "Install PyTorch + extensions": any torch wheel in the directory.       *)
Install ==
    /\ Ordinary("install")
    /\ \E ok \in BOOLEAN :
          job' = [Result(ok) EXCEPT !.used = Using({"artifact", "scratch"})]
    /\ UNCHANGED <<count, files, repo, holders, uploads, known>>

(* What the build, the tests and the validation read, and what they write. *)
Reads == [build |-> {"pt", "logs", "scratch"}, test |-> {"pt", "scratch"},
          validate |-> {"signed", "scratch"}]
Outputs == [build |-> {"pt", "logs", "scratch"}, test |-> {"pt"},
            validate |-> {"validation"}]

(* Something may be left that keeps one of these trees.                    *)
Work ==
    /\ Ordinary("work")
    /\ Writes(Outputs[job.kind])
    /\ \E ok \in BOOLEAN : job' = [Result(ok) EXCEPT !.used = Using(Reads[job.kind])]
    /\ \E p \in {"pt", "scratch"}, left \in SUBSET (Processes \union {"foreign"}) :
          /\ Cardinality(left) <= MaxHolds /\ files'[p] # {}
          /\ holders' = [holders EXCEPT ![p] = @ \union left]
    /\ UNCHANGED <<count, repo, uploads, known>>

(* "Stage wheels + sha": every wheel in scratch\dist; it fails without one *)
(* and if one is named after another night.                                *)
Stage ==
    /\ Ordinary("stage")
    /\ Writes({"artifact"})
    /\ \E ok \in BOOLEAN : job' = [Result(ok) EXCEPT !.used = Using({"scratch", "sha"})]
    /\ UNCHANGED <<count, repo, holders, uploads, known>>

Publish ==
    /\ Ordinary("publish")
    /\ Uploads("wheels", "artifact")
    /\ \E ok \in BOOLEAN : job' = Result(ok)
    /\ UNCHANGED <<count, files, repo, holders, known>>

(* Build logs, test reports and the validation report go up also after a   *)
(* failure, the first two also after a cancellation.                       *)
Reports == [build |-> "logs", test |-> "pt", validate |-> "validation"]

UploadReports ==
    /\ At("upload") /\ AlwaysRun
    /\ Uploads("reports", Reports[job.kind])
    /\ \E ok \in BOOLEAN : job' = Result(ok)
    /\ UNCHANGED <<count, files, repo, holders, known>>

(***************************************************************************)
(* What happens to the machine.                                            *)
(***************************************************************************)
(* Somebody cancels the job: the step that runs is stopped, the steps      *)
(* under always() are still to come.                                       *)
Cancel ==
    /\ Busy /\ ~job.cancelled
    /\ job' = [job EXCEPT !.cancelled = TRUE, !.left = IF At("post") THEN @ ELSE 0]
    /\ UNCHANGED <<count, files, repo, holders, uploads, known>>

(* The job is lost, with the machine or with the runner's agent alone.     *)
Lost ==
    /\ Busy
    /\ job' = NoJob /\ known' = Paths
    /\ \E reboot \in BOOLEAN :
          holders' = IF reboot THEN [p \in Paths |-> holders[p] \cap {"foreign"}] ELSE holders
    /\ UNCHANGED <<count, files, repo, uploads>>

(* A process that was left ends or lets go, Windows closes a handle, or an *)
(* admin takes entries over.                                               *)
LetsGo ==
    /\ \E p \in Paths : \E h \in holders[p] : holders' = [holders EXCEPT ![p] = @ \ {h}]
    /\ UNCHANGED <<count, job, files, repo, uploads, known>>

Over == ~Busy /\ count = MaxJobs /\ UNCHANGED vars

Clean(phase) ==
    Sweep(phase) \/ RemoveTree(phase) \/ GivesUp(phase) \/ RobocopyFails(phase)

JobStep ==
    \/ CheckoutOot \/ Skip \/ Cleaned \/ Finish \/ CreateVenv \/ Download
    \/ CheckoutPytorch \/ Move \/ RecordSha \/ Install \/ Work \/ Stage \/ Publish
    \/ UploadReports
    \/ \E phase \in {"pre", "post"} : Clean(phase)

Next ==
    \/ \E kind \in Kinds : Take(kind)
    \/ JobStep \/ Cancel \/ Lost \/ LetsGo \/ Over

Spec == Init /\ [][Next]_vars

(***************************************************************************)
(* Properties.                                                             *)
(***************************************************************************)
JobType == [kind : Kinds, at : Nat, left : Nat, bad : BOOLEAN, cancelled : BOOLEAN,
            oot : BOOLEAN, cleaned : BOOLEAN, used : SUBSET Jobs]

UploadType == [by : Jobs, what : {"wheels", "reports"}, of : SUBSET Jobs, cleaned : BOOLEAN]

(* The types of the variables: a job is at a step of its kind, and only a  *)
(* tree that is there, of those processes work in, can be held open.       *)
TypeOK ==
    /\ count \in 0..MaxJobs
    /\ job \in JobType /\ job.at <= Len(Steps[job.kind]) + 1
    /\ files \in [Paths -> SUBSET Jobs]
    /\ repo \in {0} \union Jobs
    /\ holders \in [Paths -> SUBSET Leftovers]
    /\ uploads \subseteq UploadType /\ known \subseteq Paths
    /\ \A p \in Paths : holders[p] # {} => p \in {"pt", "scratch"} /\ files[p] # {}

(* What a job publishes as its wheels is its own and made of its own: no   *)
(* wheel, checkout, log or cached package that another job left on the     *)
(* machine is in it, whatever was lost, cancelled or left running before.  *)
(* The same holds of the reports of a job that went through its clean.     *)
OnlyOwnFiles ==
    \A u \in uploads : u.what = "wheels" \/ u.cleaned => u.of \subseteq {u.by}

(* The clean at the start of a job fails only over a tree that was with a  *)
(* job that was lost, or that an earlier clean said it had not removed:    *)
(* what other jobs leave, failed and cancelled ones too, never stops the   *)
(* next without a word, though kills may fail and handles linger.          *)
OnlyKnownLeftovers ==
    [][At("pre") /\ ~job.bad /\ job'.bad => Current("pre") \in known]_vars
================================================================================
