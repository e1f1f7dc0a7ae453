---------------------------- MODULE KitmakerRelease ----------------------------
(***************************************************************************)
(* The publication jobs of .github/workflows/_woa-publish.yml and the      *)
(* script they run, scripts/publish/kitmaker.py: gate, github-release,     *)
(* kitmaker-dry-run, kitmaker-release and index-check, each an attempt of  *)
(* one GitHub Actions run that may be interrupted and re-run.              *)
(*                                                                         *)
(* Kitmaker accepts a request, works on it by itself and lists wheels on   *)
(* pypi.nvidia.com at its own pace, whatever became of the job that asked; *)
(* an answer can be lost, a poll can time out, another pipeline can list   *)
(* the same filename first.  The index is read one page per wheel, so the  *)
(* listing a job decides on is never a snapshot.                           *)
(*                                                                         *)
(* An operator named ...Mutant is a plausible bug of the definition that   *)
(* follows it; no specification uses it.                                   *)
(***************************************************************************)
EXTENDS Naturals, Sequences

CONSTANTS
  Wheels,       \* the wheels the release report lists
  Packages,     \* the projects Kitmaker knows (PROJECTS)
  PackageOf,    \* [Wheels -> Packages]: the project of each wheel
  Order,        \* the packages in the order they are submitted
  Pics,         \* points of contact KITMAKER_PIC may name
  Blank,        \* KITMAKER_PIC unset or blank
  NoApproval,   \* the `approved` job output before the dry run wrote it
  MaxAttempts,  \* bound: attempts of the run ("Re-run jobs")
  MaxPolls      \* bound: polls of one loop before its deadline passes

(* Every package has a wheel (release_requests refuses a report that lacks *)
(* one) and is submitted exactly once, in a fixed order.                   *)
ASSUME PublicationAssumption ==
  /\ PackageOf \in [Wheels -> Packages]
  /\ \A p \in Packages : \E w \in Wheels : PackageOf[w] = p
  /\ Len(Order) \in Nat \ {0}
  /\ Order \in [1..Len(Order) -> Packages]
  /\ \A p \in Packages : \E i \in 1..Len(Order) : Order[i] = p
  /\ \A i, j \in 1..Len(Order) : Order[i] = Order[j] => i = j
  /\ Blank \notin Pics
  /\ MaxAttempts \in Nat \ {0}
  /\ MaxPolls \in Nat

VARIABLES
  inputs,    \* the workflow_call inputs of this run
  pic,       \* the repository variable KITMAKER_PIC, which people edit
  attempt,   \* github.run_attempt
  result,    \* [Jobs -> result of the job in this attempt]
  approved,  \* output `approved` of kitmaker-dry-run
  released,  \* output `released` of kitmaker-release
  checked,   \* output `wheels` of index-check is set
  job,       \* the job that is running or ran last
  at,        \* where the running job is in its script
  who,       \* --pic of the running script
  k,         \* position in Order of the request being submitted or polled
  done,      \* packages whose requests _run_requests saw completed
  seen,      \* what index_state has read so far
  polls,     \* polls of the loop the script is in
  kit,       \* Kitmaker's own record of each request
  index      \* what pypi.nvidia.com lists for each wheel

run == <<inputs, attempt, result>>
outputs == <<approved, released, checked>>
script == <<job, at, who, k, done, seen, polls>>
vars == <<inputs, pic, attempt, result, approved, released, checked,
          job, at, who, k, done, seen, polls, kit, index>>

Channels == {"rehearsal", "nightly"}
Jobs == {"gate", "github-release", "kitmaker-dry-run", "kitmaker-release", "index-check"}
Results == {"none", "success", "failure", "skipped"}

(* A release request: release_requests lists every wheel of the package.   *)
Bodies == [package : Packages, wheels : SUBSET Wheels, pic : Pics,
           channel : Channels, upload : BOOLEAN]
RequestBody(p, contact, really) ==
  [package |-> p, wheels |-> {w \in Wheels : PackageOf[w] = p}, pic |-> contact,
   channel |-> inputs.channel, upload |-> really]
BodyMutant(p, contact) == RequestBody(p, contact, TRUE)
Body(p, contact) == RequestBody(p, contact, FALSE)

(* production_body: the dry run's body with `upload` flipped.              *)
ProductionBody(body) == [body EXCEPT !.upload = TRUE]

(* A request is named by the attempt, the job and the package it is for: a *)
(* script submits each package at most once.                               *)
KitmakerJobs == {"kitmaker-dry-run", "kitmaker-release"}
Requests == (1..MaxAttempts) \X KitmakerJobs \X Packages
Unsubmitted == [status |-> "none"]
Submissions == [status : {"pending", "completed", "failed"}, body : Bodies]
Current == <<attempt, job, Order[k]>>

(* What an index lookup says of one wheel.  One file per filename.         *)
Listings == {"absent", "present", "mismatch"}
Unread == [w \in Wheels |-> "unread"]

Init ==
  /\ inputs \in [channel : Channels, dryRun : BOOLEAN, release : BOOLEAN]
  /\ pic \in Pics \union {Blank}
  /\ attempt = 1
  /\ result = [j \in Jobs |-> "none"]
  /\ approved = NoApproval
  /\ released = FALSE
  /\ checked = FALSE
  /\ job = "gate"
  /\ at = "rest"
  /\ who = Blank
  /\ k = 1
  /\ done = {}
  /\ seen = Unread
  /\ polls = 0
  /\ kit = [r \in Requests |-> Unsubmitted]
  /\ index = [w \in Wheels |-> "absent"]

--------------------------------------------------------------------------------
(* The workflow: which job starts, which is skipped, what a re-run resets. *)

Needs == [j \in Jobs |->
  CASE j = "gate" -> {}
    [] j = "github-release" -> {"gate"}
    [] j = "kitmaker-dry-run" -> {"github-release"}
    [] j = "kitmaker-release" -> {"github-release", "kitmaker-dry-run"}
    [] j = "index-check" -> {"github-release", "kitmaker-release"}]

ConditionMutant(j) ==
  CASE j = "kitmaker-dry-run" -> inputs.dryRun /\ inputs.channel # "rehearsal"
    [] j = "index-check" -> released
    [] OTHER -> TRUE

(* The job's own `if:`, on top of the implied success().                   *)
Condition(j) ==
  CASE j = "kitmaker-dry-run" -> inputs.dryRun /\ inputs.channel # "rehearsal"
    [] j = "kitmaker-release" -> inputs.release
    [] j = "index-check" -> released
    [] OTHER -> TRUE

Due(j) == /\ at = "rest"
          /\ result[j] = "none"
          /\ \A n \in Needs[j] : result[n] # "none"
Startable(j) == Due(j) /\ Condition(j) /\ \A n \in Needs[j] : result[n] = "success"

Skip(j) ==
  /\ Due(j) /\ ~Startable(j)
  /\ result' = [result EXCEPT ![j] = "skipped"]
  /\ UNCHANGED <<inputs, pic, attempt, outputs, script, kit, index>>

(* The running job ends: its script's variables are gone and at = "rest"   *)
(* frees the run for the next job.                                         *)
Fresh == k' = 1 /\ done' = {} /\ seen' = Unread /\ polls' = 0
End(r) == /\ result' = [result EXCEPT ![job] = r]
          /\ at' = "rest" /\ who' = Blank /\ Fresh
          /\ UNCHANGED <<inputs, pic, attempt, job>>

(* gate, which a mutable variable and the inputs decide.                   *)
GateAccepts ==
  /\ inputs.release => inputs.dryRun
  /\ inputs.channel = "rehearsal" => ~inputs.dryRun /\ ~inputs.release
  /\ inputs.dryRun => pic # Blank
Gate ==
  /\ Startable("gate")
  /\ result' = [result EXCEPT !["gate"] = IF GateAccepts THEN "success" ELSE "failure"]
  /\ UNCHANGED <<inputs, pic, attempt, outputs, script, kit, index>>

(* github-release ends with the one report of the run's tag, or fails; a   *)
(* re-run verifies the release that is there (module SignedRelease).       *)
GithubReleaseJob ==
  /\ Startable("github-release")
  /\ \E r \in {"success", "failure"} :
       result' = [result EXCEPT !["github-release"] = r]
  /\ UNCHANGED <<inputs, pic, attempt, outputs, script, kit, index>>

(* The runner is lost, the job is cancelled, or a call fails whose failure *)
(* the script does not survive: an index lookup, a token, an HTTP 4xx.     *)
Interrupt ==
  /\ at # "rest"
  /\ End("failure")
  /\ UNCHANGED <<outputs, kit, index>>

(* "Re-run failed jobs" also re-runs what depends on them, "Re-run all     *)
(* jobs" everything; the outputs of the jobs that are kept stay.           *)
Upstream == [j \in Jobs |-> Needs[j] \union UNION {Needs[n] \union UNION {Needs[m] : m \in Needs[n]} : n \in Needs[j]}]
Dependents(S) == {j \in Jobs : \E n \in S : n = j \/ n \in Upstream[j]}
Rerun(S) ==
  /\ at = "rest" /\ attempt < MaxAttempts
  /\ \A j \in Jobs : result[j] # "none"
  /\ LET again == Dependents(S) IN
       /\ result' = [j \in Jobs |-> IF j \in again THEN "none" ELSE result[j]]
       /\ approved' = IF "kitmaker-dry-run" \in again THEN NoApproval ELSE approved
       /\ released' = (released /\ "kitmaker-release" \notin again)
       /\ checked' = (checked /\ "index-check" \notin again)
  /\ attempt' = attempt + 1
  /\ UNCHANGED <<inputs, pic, script, kit, index>>
RerunFailed == LET failed == {j \in Jobs : result[j] = "failure"} IN
  failed # {} /\ Rerun(failed)
RerunAll == Rerun(Jobs)

--------------------------------------------------------------------------------
(* kitmaker.py: reading the index, and _run_requests.                      *)

Begin(j, where) ==
  /\ job' = j /\ at' = where /\ who' = pic /\ Fresh
  /\ UNCHANGED <<inputs, pic, attempt, result, outputs, kit, index>>

Refuse(j) ==
  /\ result' = [result EXCEPT ![j] = "failure"]
  /\ UNCHANGED <<inputs, pic, attempt, outputs, script, kit, index>>

(* index_state: one page fetch per wheel.                                  *)
ReadIndex(w) ==
  /\ at \in {"before", "confirm"} /\ seen[w] = "unread"
  /\ seen' = [seen EXCEPT ![w] = index[w]]
  /\ UNCHANGED <<inputs, pic, attempt, result, outputs, job, at, who, k, done, polls, kit, index>>
AllRead == \A w \in Wheels : seen[w] # "unread"
AllPresentMutant == \A w \in Wheels : seen[w] \notin {"unread", "mismatch"}
AllPresent == \A w \in Wheels : seen[w] = "present"
Mismatched == \E w \in Wheels : seen[w] = "mismatch"

BodyToSend == IF job = "kitmaker-release" THEN ProductionBody(approved[Order[k]])
                                          ELSE Body(Order[k], who)
Accept == kit' = [kit EXCEPT ![Current] = [status |-> "pending", body |-> BodyToSend]]

(* Portal.submit: accepted; or accepted with the answer lost, which fails  *)
(* the job and leaves Kitmaker working.                                    *)
Submit ==
  /\ at = "submit"
  /\ Accept
  /\ at' = "poll" /\ polls' = 0
  /\ UNCHANGED <<inputs, pic, attempt, result, outputs, job, who, k, done, seen, index>>
SubmitAnswerLost ==
  /\ at = "submit"
  /\ Accept
  /\ End("failure")
  /\ UNCHANGED <<outputs, index>>

(* Portal.wait: only `completed` returns, a failed status raises.          *)
CompletedMutant(status) == status # "failed"
FailureMutant(status) == status \in {"completed", "failed"}
Completed(status) == status = "completed"
AfterRequests == IF job = "kitmaker-release" THEN "confirm" ELSE "report"
PollCompleted ==
  /\ at = "poll" /\ Completed(kit[Current].status)
  /\ done' = done \union {Order[k]}
  /\ IF k = Len(Order)
       THEN at' = AfterRequests /\ k' = k /\ seen' = Unread
       ELSE at' = "submit" /\ k' = k + 1 /\ seen' = seen
  /\ polls' = 0
  /\ UNCHANGED <<inputs, pic, attempt, result, outputs, job, who, kit, index>>
PollFailed ==
  /\ at = "poll" /\ kit[Current].status = "failed"
  /\ End("failure")
  /\ UNCHANGED <<outputs, kit, index>>

(* Pending, or no answer, 429 or 5xx: sleep and poll again, unless the     *)
(* deadline has passed.                                                    *)
MayWaitMutant == polls <= MaxPolls
MayWait == polls < MaxPolls
OneMoreMutant == polls
OneMore == polls + 1
PollAgain ==
  /\ at = "poll" /\ MayWait
  /\ polls' = OneMore
  /\ UNCHANGED <<inputs, pic, attempt, result, outputs, job, at, who, k, done, seen, kit, index>>
PollDeadline ==
  /\ at = "poll"
  /\ End("failure")
  /\ UNCHANGED <<outputs, kit, index>>

--------------------------------------------------------------------------------
(* kitmaker.py dry-run.                                                    *)

StartDryRun ==
  /\ Startable("kitmaker-dry-run")
  /\ IF pic = Blank THEN Refuse("kitmaker-dry-run") ELSE Begin("kitmaker-dry-run", "before")

DryRunIndexRead ==
  /\ at = "before" /\ job = "kitmaker-dry-run" /\ AllRead
  /\ IF Mismatched
       THEN End("failure") /\ UNCHANGED <<outputs, kit, index>>
       ELSE /\ at' = "submit"
            /\ UNCHANGED <<inputs, pic, attempt, result, outputs, job, who, k, done, seen, polls, kit, index>>

(* The approval is written; the step that uploads the report may yet fail. *)
FinishDryRun ==
  /\ at = "report"
  /\ approved' = [p \in done |-> Body(p, who)]
  /\ \E r \in {"success", "failure"} : End(r)
  /\ UNCHANGED <<released, checked, kit, index>>

--------------------------------------------------------------------------------
(* kitmaker.py release.                                                    *)

(* release() rebuilds the dry run's bodies and requires them to be equal.  *)
ApprovalMatches ==
  /\ approved # NoApproval
  /\ DOMAIN approved = Packages
  /\ \A p \in Packages : approved[p] = Body(p, pic)
StartRelease ==
  /\ Startable("kitmaker-release")
  /\ IF pic # Blank /\ ApprovalMatches
       THEN Begin("kitmaker-release", "before")
       ELSE Refuse("kitmaker-release")

PartiallyPresent == ~AllPresent /\ \E w \in Wheels : seen[w] = "present"
ReleaseIndexRead ==
  /\ at = "before" /\ job = "kitmaker-release" /\ AllRead
  /\ \/ /\ Mismatched \/ PartiallyPresent
        /\ End("failure")
     \/ /\ ~Mismatched /\ ~PartiallyPresent
        /\ IF AllPresent THEN at' = "confirm" /\ seen' = Unread
                         ELSE at' = "submit" /\ seen' = seen
        /\ UNCHANGED <<inputs, pic, attempt, result, job, who, k, done, polls>>
  /\ UNCHANGED <<outputs, kit, index>>

(* The loop after production: leave when every wheel is listed as ours.    *)
Confirmed ==
  /\ at = "confirm" /\ AllPresent
  /\ released' = TRUE
  /\ \E r \in {"success", "failure"} : End(r)
  /\ UNCHANGED <<approved, checked, kit, index>>
ConfirmAgain ==
  /\ at = "confirm" /\ AllRead /\ ~AllPresent /\ ~Mismatched /\ MayWait
  /\ polls' = OneMore /\ seen' = Unread
  /\ UNCHANGED <<inputs, pic, attempt, result, outputs, job, at, who, k, done, kit, index>>
ConfirmFailed ==
  /\ at = "confirm" /\ AllRead /\ ~AllPresent
  /\ End("failure")
  /\ UNCHANGED <<outputs, kit, index>>

--------------------------------------------------------------------------------
(* index_check.py: every wheel is looked up, downloaded and checked; a     *)
(* problem does not stop the loop but fails the job at its end.            *)

StartIndexCheck == Startable("index-check") /\ Begin("index-check", "check")

CheckWheel(w) ==
  /\ at = "check" /\ seen[w] = "unread"
  /\ \E verdict \in {index[w], "mismatch"} : seen' = [seen EXCEPT ![w] = verdict]
  /\ UNCHANGED <<inputs, pic, attempt, result, outputs, job, at, who, k, done, polls, kit, index>>

FinishIndexCheck ==
  /\ at = "check" /\ AllRead
  /\ checked' = AllPresent
  /\ End(IF AllPresent THEN "success" ELSE "failure")
  /\ UNCHANGED <<approved, released, kit, index>>

--------------------------------------------------------------------------------
(* Kitmaker, the index and the people around them (external).              *)

KitmakerDecides(r) ==
  /\ kit[r].status = "pending"
  /\ \E s \in {"completed", "failed"} : kit' = [kit EXCEPT ![r].status = s]
  /\ UNCHANGED <<inputs, pic, attempt, result, outputs, script, index>>

(* An accepted upload=true request lists its wheels one at a time, and may *)
(* still do so after it reports `completed`; it never replaces a file.     *)
KitmakerLists(r, w) ==
  /\ kit[r].status \in {"pending", "completed"}
  /\ kit[r].body.upload /\ w \in kit[r].body.wheels
  /\ index[w] = "absent"
  /\ index' = [index EXCEPT ![w] = "present"]
  /\ UNCHANGED <<inputs, pic, attempt, result, outputs, script, kit>>

(* Another pipeline publishes the same filename with its own bytes.        *)
OtherPublisher(w) ==
  /\ index[w] = "absent"
  /\ index' = [index EXCEPT ![w] = "mismatch"]
  /\ UNCHANGED <<inputs, pic, attempt, result, outputs, script, kit>>

SetPic ==
  /\ pic' \in Pics \union {Blank}
  /\ UNCHANGED <<inputs, attempt, result, outputs, script, kit, index>>

--------------------------------------------------------------------------------
(* What the run does by itself once it is started or re-run.               *)
Progress ==
  \/ \E j \in Jobs : Skip(j)
  \/ Gate \/ GithubReleaseJob
  \/ StartDryRun \/ DryRunIndexRead \/ FinishDryRun
  \/ StartRelease \/ ReleaseIndexRead \/ Confirmed \/ ConfirmAgain \/ ConfirmFailed
  \/ \E w \in Wheels : ReadIndex(w) \/ CheckWheel(w)
  \/ Submit \/ SubmitAnswerLost \/ PollCompleted \/ PollFailed \/ PollAgain \/ PollDeadline
  \/ StartIndexCheck \/ FinishIndexCheck

Environment ==
  \/ Interrupt \/ RerunFailed \/ RerunAll \/ SetPic
  \/ \E r \in Requests : KitmakerDecides(r) \/ \E w \in Wheels : KitmakerLists(r, w)
  \/ \E w \in Wheels : OtherPublisher(w)

Next == Progress \/ Environment
Spec == Init /\ [][Next]_vars

(* GitHub runs the jobs that are due and a runner runs the script: the     *)
(* only progress the jobs need.  Nothing is assumed of Kitmaker.           *)
FairSpec == Spec /\ WF_vars(Progress)

--------------------------------------------------------------------------------
TypeOK ==
  /\ inputs \in [channel : Channels, dryRun : BOOLEAN, release : BOOLEAN]
  /\ pic \in Pics \union {Blank}
  /\ attempt \in 1..MaxAttempts
  /\ result \in [Jobs -> Results]
  /\ approved \in [Packages -> Bodies] \union {NoApproval}
  /\ released \in BOOLEAN
  /\ checked \in BOOLEAN
  /\ job \in Jobs
  /\ at \in {"rest", "before", "submit", "poll", "report", "confirm", "check"}
  /\ at \in {"submit", "poll"} => job \in KitmakerJobs
  /\ who \in Pics \union {Blank}
  /\ k \in 1..Len(Order)
  /\ done \in SUBSET Packages
  /\ seen \in [Wheels -> Listings \union {"unread"}]
  /\ polls \in 0..MaxPolls
  /\ kit \in [Requests -> Submissions \union {Unsubmitted}]
  /\ index \in [Wheels -> Listings]

(* Note [Production replays the dry run exactly]: every upload=true request *)
(* Kitmaker ever receives equals, but for `upload`, a request of this run's *)
(* dry run that Kitmaker completed - whatever was lost, interrupted, edited *)
(* or re-run between the two.                                               *)
ProductionReplaysDryRun ==
  \A r \in Requests :
    kit[r].status # "none" /\ kit[r].body.upload =>
      \E d \in Requests :
        /\ kit[d].status = "completed"
        /\ ~kit[d].body.upload
        /\ kit[r].body = ProductionBody(kit[d].body)

(* _run_requests stops at the first request that does not complete: in one *)
(* attempt a later package reaches Kitmaker only after every earlier one   *)
(* completed there.                                                        *)
StopsAtFirstFailure ==
  \A a \in 1..MaxAttempts, j \in KitmakerJobs, m, n \in 1..Len(Order) :
    m < n /\ kit[<<a, j, Order[n]>>].status # "none"
      => kit[<<a, j, Order[m]>>].status = "completed"

(* `released` and the wheels index-check vouches for are outputs other     *)
(* jobs act on: they are set only while the index lists every wheel with   *)
(* the release's own digest, though no job ever saw the index as a whole.  *)
ReportedMeansListed ==
  released \/ checked => \A w \in Wheels : index[w] = "present"

(* Kitmaker hears of a run only when its inputs ask for it and the wheels  *)
(* have public URLs, and is asked to upload only when a release was        *)
(* requested.                                                              *)
OnlyAsRequested ==
  \A r \in Requests : kit[r].status # "none" =>
    /\ inputs.dryRun /\ inputs.channel # "rehearsal"
    /\ kit[r].body.upload => inputs.release

(* docs/woa-wheel-publishing.md:253: "the way back is Re-run failed jobs". *)
(* As a statement of the code: a re-run release job is never refused for   *)
(* listings that only this run's own requests made.                        *)
RerunIsTheWayBack ==
  ~ /\ attempt > 1 /\ job = "kitmaker-release" /\ at = "before"
    /\ AllRead /\ PartiallyPresent /\ ~Mismatched

(* The jobs together implement WheelPublication: nothing of this run is    *)
(* listed before every package was validated, nothing replaces a listing,  *)
(* and only a complete listing is announced.                               *)
Validated == {p \in Packages : \E r \in Requests :
  r[3] = p /\ kit[r].status = "completed" /\ ~kit[r].body.upload}
Publication == INSTANCE WheelPublication
  WITH validated <- Validated, announced <- (released \/ checked)
PublishesAsPromised == Publication!Spec

(* Every attempt comes to rest: each job ends or is skipped, however       *)
(* Kitmaker and the index behave.                                          *)
Settled == at = "rest" /\ \A j \in Jobs : result[j] # "none"
RunSettles == []<>Settled

--------------------------------------------------------------------------------
(* The inductive invariant behind the safety properties.                   *)

(* What the place a script has reached says of the job, its arguments and  *)
(* the requests it has made.                                               *)
ControlInv ==
  /\ at # "rest" => result[job] = "none"
  /\ at = "before" => job \in KitmakerJobs /\ k = 1 /\ done = {}
  /\ at = "report" => job = "kitmaker-dry-run" /\ done = Packages
  /\ at = "confirm" => job = "kitmaker-release"
  /\ at = "check" => job = "index-check"
  /\ at # "rest" /\ job \in KitmakerJobs =>
       who \in Pics /\ inputs.dryRun /\ inputs.channel # "rehearsal"
  /\ at # "rest" /\ job = "kitmaker-release" => approved # NoApproval /\ inputs.release
  /\ approved # NoApproval => inputs.dryRun /\ inputs.channel # "rehearsal"
  /\ at \in {"submit", "poll"} => \A i \in 1..Len(Order) : i < k => Order[i] \in done

(* The requests of this attempt that nobody has submitted yet: those of    *)
(* later attempts, of jobs that have not started and of packages to come.  *)
NotStarted(a, j) ==
  \/ a > attempt
  \/ a = attempt /\ result[j] = "none" /\ at = "rest"
  \/ a = attempt /\ result[j] = "none" /\ job # j
  \/ a = attempt /\ job = j /\ at = "before"
FreshInv ==
  /\ \A a \in 1..MaxAttempts, j \in KitmakerJobs, p \in Packages :
       NotStarted(a, j) => kit[<<a, j, p>>] = Unsubmitted
  /\ at \in {"submit", "poll"} => \A i \in 1..Len(Order) :
       i > k \/ (i = k /\ at = "submit") => kit[<<attempt, job, Order[i]>>] = Unsubmitted
  /\ at = "poll" => kit[Current].status # "none"

(* What a dry run, running or approved, has made Kitmaker complete.        *)
EvidenceInv ==
  /\ \A a \in 1..MaxAttempts, p \in Packages :
       kit[<<a, "kitmaker-dry-run", p>>].status # "none"
         => ~kit[<<a, "kitmaker-dry-run", p>>].body.upload
  /\ at \in {"submit", "poll", "report"} => \A p \in done :
       /\ kit[<<attempt, job, p>>].status = "completed"
       /\ job = "kitmaker-dry-run" => kit[<<attempt, job, p>>].body = Body(p, who)
  /\ at = "poll" /\ job = "kitmaker-dry-run" => kit[Current].body = Body(Order[k], who)
  /\ approved # NoApproval => \A p \in Packages : \E a \in 1..MaxAttempts :
       /\ kit[<<a, "kitmaker-dry-run", p>>].status = "completed"
       /\ kit[<<a, "kitmaker-dry-run", p>>].body = approved[p]

(* A wheel read as present stays so: listings are never replaced.          *)
SeenInv == \A w \in Wheels : seen[w] = "present" => index[w] = "present"

IInv == /\ TypeOK /\ ControlInv /\ FreshInv /\ EvidenceInv /\ SeenInv
        /\ ProductionReplaysDryRun /\ StopsAtFirstFailure
        /\ ReportedMeansListed /\ OnlyAsRequested
================================================================================
