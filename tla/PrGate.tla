--------------------------------- MODULE PrGate ---------------------------------
(***************************************************************************)
(* .github/workflows/upstream-pull.yml: one run per pull request event the *)
(* relay forwards, its jobs gate, approval, authorize and the pipelines,   *)
(* and the scripts of scripts/pr-gate they run.                            *)
(*                                                                         *)
(* The relay reports events late, twice, out of order or not at all, while *)
(* the PR moves on upstream and maintainers edit the repository variables. *)
(* The runs of one PR share a concurrency group: a run that starts, or is  *)
(* re-run, cancels the one in progress.                                    *)
(*                                                                         *)
(* An operator named ...Mutant is a plausible bug of the definition that   *)
(* follows it; no specification uses it.                                   *)
(***************************************************************************)
EXTENDS Naturals, Sequences

CONSTANTS
  PRs,         \* pull requests of pytorch/pytorch
  Authors,     \* who opens them
  AuthorOf,    \* [PRs -> Authors]
  Actions,     \* what an event is about: a subset of ActionNames
  Modes,       \* what PR_CI_MODE is set to: a subset of ModeNames
  Pipelines,   \* the workflows an approval starts (PIPELINES)
  Reviewers,   \* required reviewers of the environment pr-ci-approval
  Unknown,     \* the approver when the review history cannot be read
  None,        \* a job output or a record that is not there
  MaxHead,     \* bound: pushes to a PR; a head SHA is numbered by its push
  MaxRuns,     \* bound: events the relay forwards
  MaxReruns    \* bound: re-runs, of all runs together

RunIds == 1..MaxRuns
Shas == 1..MaxHead
ActionNames == {"opened", "synchronize", "labeled", "absent"}
ModeNames == {"off", "live", "typo"}
Gating == {"gate", "approval", "authorize"}
Jobs == Gating \union Pipelines
Results == {"none", "running", "waiting", "success", "failure", "skipped", "cancelled"}

(* The relay's payload; the flat shape has no action ("absent").           *)
Events == [pr : PRs, action : Actions, sha : Shas]
Outputs == [sha : Shas, proceed : BOOLEAN]
Reviews == [approved : BOOLEAN, by : Reviewers, sha : Shas]
Records == [by : Reviewers \union {Unknown}, sha : Shas]

ASSUME GateAssumption ==
  /\ AuthorOf \in [PRs -> Authors]
  /\ Actions \subseteq ActionNames /\ Modes \subseteq ModeNames
  /\ Pipelines \intersect Gating = {}
  /\ MaxHead \in Nat \ {0} /\ MaxRuns \in Nat \ {0} /\ MaxReruns \in Nat
  /\ Unknown \notin Reviewers
  /\ None \notin Events /\ None \notin Outputs /\ None \notin Records /\ None \notin Shas

VARIABLES
  head,       \* [PRs -> the PR's head upstream]
  mode,       \* variable PR_CI_MODE
  started,    \* number of runs
  event,      \* [RunIds -> the event of the run]
  job,        \* [RunIds -> [Jobs -> result]]
  output,     \* [RunIds -> outputs head-sha and proceed of its gate job]
  reviews,    \* [RunIds -> the run's review history]
  record,     \* [RunIds -> what authorize recorded]
  ref,        \* [RunIds -> [Pipelines -> the pytorch-ref it was called with]]
  reruns      \* re-runs so far

outside == <<head, mode>>
vars == <<head, mode, started, event, job, output, reviews, record, ref, reruns>>

Init ==
  /\ head = [p \in PRs |-> 1]
  /\ mode \in Modes
  /\ started = 0
  /\ event = [r \in RunIds |-> None]
  /\ job = [r \in RunIds |-> [j \in Jobs |-> "none"]]
  /\ output = [r \in RunIds |-> None]
  /\ reviews = [r \in RunIds |-> <<>>]
  /\ record = [r \in RunIds |-> None]
  /\ ref = [r \in RunIds |-> [p \in Pipelines |-> None]]
  /\ reruns = 0

--------------------------------------------------------------------------------
(* Runs and jobs.                                                          *)

Needs == [j \in Jobs |->
  CASE j = "gate" -> {}
    [] j = "approval" -> {"gate"}
    [] j = "authorize" -> {"gate", "approval"}
    [] OTHER -> {"gate", "authorize"}]
Needing(S) ==
  S \union (IF "gate" \in S THEN Jobs ELSE {})
    \union (IF "approval" \in S THEN {"authorize"} \union Pipelines ELSE {})
    \union (IF "authorize" \in S THEN Pipelines ELSE {})

Live == {"none", "running", "waiting"}
InProgress(r) == r <= started /\ \E j \in Jobs : job[r][j] \in Live
Over(r) == r <= started /\ \A j \in Jobs : job[r][j] \notin Live

(* The group is named after the PR, and cancel-in-progress is set: every   *)
(* run that enters it cancels the other, whatever its own event is about.  *)
Cancelled(r) == [j \in Jobs |-> IF job[r][j] \in Live THEN "cancelled" ELSE job[r][j]]
EnterGroup(r, pr, jobs) ==
  job' = [q \in RunIds |->
    IF q = r THEN jobs
    ELSE IF InProgress(q) /\ event[q].pr = pr THEN Cancelled(q) ELSE job[q]]

Dispatch(e) ==
  /\ started < MaxRuns
  /\ e.sha <= head[e.pr]
  /\ started' = started + 1
  /\ event' = [event EXCEPT ![started + 1] = e]
  /\ EnterGroup(started + 1, e.pr, [j \in Jobs |-> "none"])
  /\ UNCHANGED <<outside, output, reviews, record, ref, reruns>>

(* The job's own `if:` on top of the implied success().                    *)
Condition(r, j) ==
  CASE j = "gate" -> mode # "off"
    [] j = "approval" -> output[r] # None /\ output[r].proceed
    [] OTHER -> TRUE
Due(r, j) == r <= started /\ job[r][j] = "none" /\ \A n \in Needs[j] : job[r][n] \notin Live
Startable(r, j) == Due(r, j) /\ (\A n \in Needs[j] : job[r][n] = "success") /\ Condition(r, j)
SetJob(r, j, result) == job' = [job EXCEPT ![r][j] = result]

Skip(r, j) ==
  /\ Due(r, j) /\ ~Startable(r, j)
  /\ SetJob(r, j, "skipped")
  /\ UNCHANGED <<outside, started, event, output, reviews, record, ref, reruns>>

(* The runner is lost, a lookup does not answer, the payload names no PR   *)
(* or SHA, a script refuses, or nobody reviews in time.                    *)
JobFails(r, j) ==
  /\ job[r][j] \in {"running", "waiting"}
  /\ SetJob(r, j, "failure")
  /\ UNCHANGED <<outside, started, event, output, reviews, record, ref, reruns>>

--------------------------------------------------------------------------------
(* gate: variables are read when the job starts, the PR when it is looked  *)
(* up.  What nothing else depends on is an input: the rest of upstream's   *)
(* answer and the allowlist.                                               *)

StartGate(r) ==
  /\ Startable(r, "gate")
  /\ SetJob(r, "gate", IF mode = "live" THEN "running" ELSE "failure")
  /\ UNCHANGED <<outside, started, event, output, reviews, record, ref, reruns>>

(* Upstream's answer wins over the payload, which only the action is taken *)
(* from; an absent action passes.                                          *)
AssessedMutant(r) == event[r].sha
UncheckedMutant(r) == None
Assessed(r) == head[event[r].pr]
Proceed(r, isOpen, onMain, allowlist) ==
  /\ isOpen /\ onMain
  /\ event[r].action \in {"absent", "opened", "synchronize"}
  /\ AuthorOf[event[r].pr] \in allowlist
Triage(r, isOpen, onMain, allowlist) ==
  /\ job[r]["gate"] = "running"
  /\ output' = [output EXCEPT ![r] =
       [sha |-> Assessed(r), proceed |-> Proceed(r, isOpen, onMain, allowlist)]]
  /\ SetJob(r, "gate", "success")
  /\ UNCHANGED <<outside, started, event, reviews, record, ref, reruns>>

--------------------------------------------------------------------------------
(* approval: the environment holds the job until a reviewer decides.       *)

Ask(r) ==
  /\ Startable(r, "approval")
  /\ SetJob(r, "approval", "waiting")
  /\ UNCHANGED <<outside, started, event, output, reviews, record, ref, reruns>>

Review(r, by, approved) ==
  /\ job[r]["approval"] = "waiting"
  /\ reviews' = [reviews EXCEPT ![r] =
       Append(@, [approved |-> approved, by |-> by, sha |-> output[r].sha])]
  /\ SetJob(r, "approval", IF approved THEN "running" ELSE "failure")
  /\ UNCHANGED <<outside, started, event, output, record, ref, reruns>>

NoteApproval(r) ==
  /\ job[r]["approval"] = "running"
  /\ SetJob(r, "approval", "success")
  /\ UNCHANGED <<outside, started, event, output, reviews, record, ref, reruns>>

--------------------------------------------------------------------------------
(* authorize: the last approval in the run's history is the approver; an   *)
(* unreadable history is recorded as such and fails nothing.               *)

StartAuthorize(r) ==
  /\ Startable(r, "authorize")
  /\ SetJob(r, "authorize", "running")
  /\ UNCHANGED <<outside, started, event, output, reviews, record, ref, reruns>>

Approvals(r) == {i \in 1..Len(reviews[r]) : reviews[r][i].approved}
ApproverMutant(r) == reviews[r][CHOOSE i \in Approvals(r) : \A k \in Approvals(r) : k >= i].by
Approver(r) == reviews[r][CHOOSE i \in Approvals(r) : \A k \in Approvals(r) : k <= i].by
Authorize(r) ==
  /\ job[r]["authorize"] = "running"
  /\ \E by \in {Unknown} \union (IF Approvals(r) = {} THEN {} ELSE {Approver(r)}) :
       record' = [record EXCEPT ![r] = [by |-> by, sha |-> output[r].sha]]
  /\ SetJob(r, "authorize", "success")
  /\ UNCHANGED <<outside, started, event, output, reviews, ref, reruns>>

--------------------------------------------------------------------------------
(* The pipelines build the commit the gate assessed, not the PR's head.    *)

PytorchRefMutant(r) == head[event[r].pr]
PytorchRef(r) == output[r].sha
StartPipeline(r, p) ==
  /\ Startable(r, p)
  /\ SetJob(r, p, "running")
  /\ ref' = [ref EXCEPT ![r][p] = PytorchRef(r)]
  /\ UNCHANGED <<outside, started, event, output, reviews, record, reruns>>
PipelineSucceeds(r, p) ==
  /\ job[r][p] = "running"
  /\ SetJob(r, p, "success")
  /\ UNCHANGED <<outside, started, event, output, reviews, record, ref, reruns>>

--------------------------------------------------------------------------------
(* Re-runs of a run that is over: of what failed or was cancelled and what *)
(* needs it, or of everything.  Kept jobs keep their outputs.              *)

Restarted(r, S) == [j \in Jobs |-> IF j \in S THEN "none" ELSE job[r][j]]
Rerun(r, S) ==
  /\ Over(r) /\ reruns < MaxReruns
  /\ EnterGroup(r, event[r].pr, Restarted(r, S))
  /\ output' = IF "gate" \in S THEN [output EXCEPT ![r] = None] ELSE output
  /\ reruns' = reruns + 1
  /\ UNCHANGED <<outside, started, event, reviews, record, ref>>
Unsuccessful(r) == {j \in Jobs : job[r][j] \in {"failure", "cancelled"}}
RerunFailed(r) == Unsuccessful(r) # {} /\ Rerun(r, Needing(Unsuccessful(r)))
RerunAll(r) == Rerun(r, Jobs)

--------------------------------------------------------------------------------
(* Upstream and the repository's settings (external).                      *)

Push(p) ==
  /\ head[p] < MaxHead
  /\ head' = [head EXCEPT ![p] = @ + 1]
  /\ UNCHANGED <<mode, started, event, job, output, reviews, record, ref, reruns>>
SetMode ==
  /\ mode' \in Modes
  /\ UNCHANGED <<head, started, event, job, output, reviews, record, ref, reruns>>

--------------------------------------------------------------------------------
RunStep(r) ==
  \/ \E j \in Jobs : Skip(r, j) \/ JobFails(r, j)
  \/ StartGate(r)
  \/ \E isOpen, onMain \in BOOLEAN, allowlist \in SUBSET Authors :
       Triage(r, isOpen, onMain, allowlist)
  \/ Ask(r) \/ NoteApproval(r)
  \/ \E by \in Reviewers, approved \in BOOLEAN : Review(r, by, approved)
  \/ StartAuthorize(r) \/ Authorize(r)
  \/ \E p \in Pipelines : StartPipeline(r, p) \/ PipelineSucceeds(r, p)
Outside ==
  \/ \E e \in Events : Dispatch(e)
  \/ \E p \in PRs : Push(p)
  \/ SetMode
Next == (\E r \in RunIds : RunStep(r) \/ RerunFailed(r) \/ RerunAll(r)) \/ Outside
Spec == Init /\ [][Next]_vars

--------------------------------------------------------------------------------
(* Every variable holds what the jobs, the relay and people can put there. *)
TypeOK ==
  /\ head \in [PRs -> Shas] /\ mode \in Modes
  /\ started \in 0..MaxRuns
  /\ event \in [RunIds -> Events \union {None}]
  /\ \A r \in RunIds : r <= started => event[r] # None
  /\ job \in [RunIds -> [Jobs -> Results]]
  /\ output \in [RunIds -> Outputs \union {None}]
  /\ reviews \in [RunIds -> Seq(Reviews)]
  /\ record \in [RunIds -> Records \union {None}]
  /\ ref \in [RunIds -> [Pipelines -> Shas \union {None}]]
  /\ reruns \in 0..MaxReruns

(* A pipeline runs only while the latest review of its run is an approval  *)
(* of exactly the commit it builds, however often the PR was pushed to and *)
(* the run re-run, in whole or in part, in between                         *)
(* (upstream-pull.yml:446-451).                                            *)
LastReview(r) == reviews[r][Len(reviews[r])]
BuildsWhatWasApproved ==
  \A r \in RunIds, p \in Pipelines : job[r][p] = "running" =>
    /\ reviews[r] # <<>>
    /\ LastReview(r).approved /\ LastReview(r).sha = ref[r][p]

(* No pipeline runs without an audit record of the commit it builds, and   *)
(* the record names nobody but who approved that commit in this run        *)
(* (upstream-pull.yml:388-393, summarize_authorization.py:86-94).          *)
BuildsAreAudited ==
  \A r \in RunIds, p \in Pipelines : job[r][p] = "running" =>
    /\ record[r] # None /\ record[r].sha = ref[r][p]
    /\ record[r].by # Unknown =>
         [approved |-> TRUE, by |-> record[r].by, sha |-> ref[r][p]] = LastReview(r)

(* Events arrive late and out of order, yet without re-runs a later run of *)
(* a PR never builds an older commit than an earlier run did               *)
(* (docs/per-pr-ci-triggering.md:87-91).                                   *)
NeverGoesBack ==
  \A q, r \in RunIds, p, s \in Pipelines :
    /\ reruns = 0 /\ q < r /\ r <= started /\ event[q].pr = event[r].pr
    /\ ref[q][p] # None /\ ref[r][s] # None
    => ref[q][p] <= ref[r][s]

(* docs/per-pr-ci-triggering.md:98 calls PR_CI_MODE "the kill switch", of  *)
(* which "off" means "Nothing happens": no pipeline starts while it is     *)
(* off.  Only gate reads it, so a request that is waiting still goes on.   *)
StartsPipeline(r, p) == job[r][p] # "running" /\ job'[r][p] = "running"
KillSwitchStops ==
  [][mode = "off" => \A r \in RunIds, p \in Pipelines : ~StartsPipeline(r, p)]_vars

--------------------------------------------------------------------------------
(* The inductive invariant behind the safety properties.                   *)

(* What a job that has run says of the jobs it needs.                      *)
ControlOf(r) ==
  /\ r > started => /\ \A j \in Jobs : job[r][j] = "none"
                    /\ \A p \in Pipelines : ref[r][p] = None
  /\ job[r]["gate"] = "success" <=> output[r] # None
  /\ job[r]["approval"] \in {"waiting", "running", "success"} => job[r]["gate"] = "success"
  /\ job[r]["authorize"] \in {"running", "success"} => job[r]["approval"] = "success"
  /\ \A p \in Pipelines : job[r][p] = "running" => job[r]["authorize"] = "success"
ControlInv == \A r \in RunIds : ControlOf(r)

(* What the reviews and the record of a run say of its assessed commit.    *)
ReviewOf(r) ==
  /\ job[r]["approval"] \in {"running", "success"} =>
       /\ reviews[r] # <<>>
       /\ LastReview(r).approved /\ LastReview(r).sha = output[r].sha
  /\ job[r]["authorize"] = "success" =>
       /\ record[r] # None /\ record[r].sha = output[r].sha
       /\ record[r].by # Unknown => record[r].by = LastReview(r).by
  /\ \A p \in Pipelines : job[r][p] = "running" => ref[r][p] = output[r].sha
ReviewInv == \A r \in RunIds : ReviewOf(r)

(* Heads only grow, a first attempt looks a PR up once, and no two runs of *)
(* a PR are in progress: what an earlier run assessed is no newer than     *)
(* what a later one will.                                                  *)
HeadOf(r) ==
  r <= started =>
    /\ output[r] # None => output[r].sha <= head[event[r].pr]
    /\ \A p \in Pipelines : ref[r][p] # None /\ reruns = 0 =>
         output[r] # None /\ ref[r][p] = output[r].sha
OrderOf(q, r) ==
  q < r /\ r <= started /\ event[q].pr = event[r].pr =>
    /\ ~(InProgress(q) /\ InProgress(r))
    /\ reruns = 0 => Over(q)
    /\ reruns = 0 /\ output[q] # None /\ output[r] # None => output[q].sha <= output[r].sha
HeadInv == \A q, r \in RunIds : HeadOf(r) /\ OrderOf(q, r)

IInv == TypeOK /\ ControlInv /\ ReviewInv /\ HeadInv
================================================================================
