---------------------------- MODULE WoaRunner_proofs ----------------------------
(***************************************************************************)
(* Theorems about WoaRunner, for any number of jobs and of leftovers.      *)
(***************************************************************************)
EXTENDS WoaRunner, SequenceTheorems, TLAPS

(***************************************************************************)
(* Lists of steps and of paths.                                            *)
(***************************************************************************)
(* A job begins with the checkout of oot/ and the clean, and has neither   *)
(* step later on; the clean at its end is its last step.                   *)
LEMMA StepFacts ==
  ASSUME NEW kind \in Kinds
  PROVE  /\ Len(Steps[kind]) \in Nat /\ DOMAIN Steps[kind] = 1..Len(Steps[kind])
         /\ Len(Steps[kind]) > 2
         /\ Steps[kind][1] = "oot" /\ Steps[kind][2] = "pre"
         /\ \A i \in 3..Len(Steps[kind]) : Steps[kind][i] \notin {"oot", "pre"}
         /\ Steps[kind][Len(Steps[kind])] = "post"
         /\ \A i \in 1..(Len(Steps[kind]) - 1) : Steps[kind][i] # "post"
  <1>1. CASE kind = "build"
    BY <1>1 DEF Steps
  <1>2. CASE kind = "test"
    BY <1>2 DEF Steps
  <1>3. CASE kind = "validate"
    BY <1>3 DEF Steps
  <1>4. QED
    BY <1>1, <1>2, <1>3 DEF Kinds

(* The paths every clean removes.                                          *)
Common == {"pt", "pytorch", "artifact", "logs", "sha", "scratch"}

(* A clean removes those, and for a validation its own two directories.    *)
LEMMA RemovedFacts ==
  ASSUME NEW kind \in Kinds, NEW phase
  PROVE  /\ Removed(kind, phase) \in Seq(Paths)
         /\ \A p \in Common : \E k \in 1..Len(Removed(kind, phase)) : Removed(kind, phase)[k] = p
         /\ kind = "validate" => \A p \in {"signed", "validation"} :
                \E k \in 1..Len(Removed(kind, phase)) : Removed(kind, phase)[k] = p
  <1> DEFINE fixed == <<"pt", "pytorch", "artifact", "logs", "sha", "scratch">>
             more == Extra(kind, phase)
  <1>1. fixed \in Seq(Paths) /\ Len(fixed) = 6
    BY DEF Paths
  <1>2. more \in Seq(Paths)
    BY DEF Extra, Paths
  <1>3. kind = "validate" => Len(more) = 2 /\ more[1] = "signed" /\ more[2] = "validation"
    BY DEF Extra
  <1>4. fixed[1] = "pt" /\ fixed[2] = "pytorch" /\ fixed[3] = "artifact" /\ fixed[4] = "logs"
        /\ fixed[5] = "sha" /\ fixed[6] = "scratch"
    OBVIOUS
  <1>5. Removed(kind, phase) = fixed \o more
    BY DEF Removed
  <1> HIDE DEF fixed, more
  <1>6. Len(more) \in Nat
    BY <1>2, LenProperties
  <1> DEFINE all == fixed \o more
  <1>a. /\ all \in Seq(Paths)
        /\ Len(all) = Len(fixed) + Len(more)
        /\ \A i \in 1..(Len(fixed) + Len(more)) :
              all[i] = IF i <= Len(fixed) THEN fixed[i] ELSE more[i - Len(fixed)]
    BY <1>1, <1>2, ConcatProperties, Zenon
  <1> HIDE DEF all
  <1>7. /\ all \in Seq(Paths)
        /\ Len(all) = 6 + Len(more)
        /\ \A i \in 1..(6 + Len(more)) :
              all[i] = IF i <= 6 THEN fixed[i] ELSE more[i - 6]
    BY <1>1, <1>6, <1>a
  <1>8. \A i \in 1..6 : i \in 1..Len(all) /\ all[i] = fixed[i]
    BY <1>6, <1>7
  <1>9. \A p \in Common : \E k \in 1..Len(all) : all[k] = p
    <2>1. \A p \in Common : \E k \in 1..6 : fixed[k] = p
      BY <1>4 DEF Common
    <2>2. QED
      BY <2>1, <1>8
  <1>n. ASSUME kind = "validate"
        PROVE  Len(all) = 8 /\ all[7] = more[1] /\ all[8] = more[2]
    <2>1. Len(more) = 2
      BY <1>3, <1>n
    <2>2. Len(all) = 8 /\ 7 \in 1..(6 + Len(more)) /\ 8 \in 1..(6 + Len(more))
      BY <2>1, <1>7
    <2>3. all[7] = more[7 - 6] /\ all[8] = more[8 - 6]
      BY <2>2, <1>7
    <2>4. 7 - 6 = 1 /\ 8 - 6 = 2
      OBVIOUS
    <2>5. QED
      BY <2>2, <2>3, <2>4
  <1>10. ASSUME kind = "validate" PROVE 7 \in 1..Len(all) /\ all[7] = "signed"
    <2>1. Len(all) = 8 /\ all[7] = more[1]
      BY <1>n, <1>10
    <2>2. more[1] = "signed"
      BY <1>3, <1>10
    <2>3. QED
      BY <2>1, <2>2
  <1>11. ASSUME kind = "validate" PROVE 8 \in 1..Len(all) /\ all[8] = "validation"
    <2>1. Len(all) = 8 /\ all[8] = more[2]
      BY <1>n, <1>11
    <2>2. more[2] = "validation"
      BY <1>3, <1>11
    <2>3. QED
      BY <2>1, <2>2
  <1>12. QED
    BY <1>5, <1>7, <1>9, <1>10, <1>11 DEF all

(* At a step other than those two, a job is past them.                     *)
LEMMA PastClean ==
  ASSUME TypeOK, NEW step, step \notin {"oot", "pre"}, At(step)
  PROVE  job.at > 2 /\ Busy
  <1>1. job.kind \in Kinds
    BY DEF TypeOK, JobType
  <1>2. job.at \in 1..Len(Steps[job.kind]) /\ Len(Steps[job.kind]) \in Nat
    BY <1>1, StepFacts DEF At
  <1>3. Steps[job.kind][job.at] \notin {"oot", "pre"}
    BY DEF At
  <1>4. job.at # 1 /\ job.at # 2
    BY <1>1, <1>3, StepFacts
  <1>5. QED
    BY <1>2, <1>4 DEF Busy

(* And at one of them it is at the first or the second place.              *)
LEMMA AtClean ==
  ASSUME TypeOK
  PROVE  (At("oot") => job.at = 1) /\ (At("pre") <=> job.at = 2)
  BY StepFacts DEF At, TypeOK, JobType

(* At the last step of its list a job is at the clean at its end.          *)
LEMMA AtEnd ==
  ASSUME TypeOK
  PROVE  At("post") <=> Busy /\ job.at = Len(Steps[job.kind])
  BY StepFacts DEF At, Busy, TypeOK, JobType

(* A clean does not go on with the next step but by failing.               *)
LEMMA CleanFacts ==
  ASSUME TypeOK, NEW phase \in {"pre", "post"}, Clean(phase)
  PROVE  /\ Busy /\ At(phase) /\ UNCHANGED count /\ (phase = "pre" => Going)
         /\ \/ \E left : job' = [job EXCEPT !.left = left]
            \/ job' = [Failed EXCEPT !.left = 0]
  <1>1. Cleaning(phase) /\ UNCHANGED count
    BY DEF Clean, Sweep, RemoveTree, GivesUp, RobocopyFails, Held, Removing
  <1>2. phase = "pre" => ~AlwaysRun
    BY <1>1 DEF Cleaning, AlwaysRun, At
  <1>3. Busy
    BY <1>1, StepFacts DEF Cleaning, At, Busy, TypeOK, JobType
  <1>4. \/ \E left : job' = [job EXCEPT !.left = left]
        \/ job' = [Failed EXCEPT !.left = 0]
    BY DEF Clean, Sweep, RemoveTree, GivesUp, RobocopyFails, CleanFails
  <1>5. QED
    BY <1>1, <1>2, <1>3, <1>4 DEF Cleaning

(* A clean that cannot remove a path ends with an error, or warns.         *)
CannotRemove(phase) == GivesUp(phase) \/ RobocopyFails(phase)

LEMMA HeldFacts ==
  ASSUME NEW phase, CannotRemove(phase)
  PROVE  /\ Held(phase) /\ UNCHANGED <<count, files, holders, uploads>>
         /\ \/ CleanFails(phase)
            \/ /\ ~Strict(phase) /\ job' = [job EXCEPT !.left = @ + 1]
               /\ known' = known \union {Current(phase)}
  BY DEF CannotRemove, GivesUp, RobocopyFails

(***************************************************************************)
(* The invariant.                                                          *)
(***************************************************************************)
(* A job that is past its clean, not having failed nor been cancelled, has *)
(* been through it.                                                        *)
OrderInv ==
    /\ Busy => count \in Jobs
    /\ job.at > 2 /\ Going => job.cleaned
    /\ job.at \in {1, 2} => ~job.cleaned /\ job.used = {}
    /\ job.at = 1 => job.left = 0

(* A running clean at the start of a job has removed what comes before the *)
(* path it is at.                                                          *)
SweepInv ==
    job.at = 2 /\ job.left > 0 =>
        \A k \in 1..Len(Removed(job.kind, "pre")) :
            k < job.left => files[Removed(job.kind, "pre")[k]] = {}

(* There is no checkout where there is no tree.                            *)
RepoInv == files["pt"] = {} => repo = 0

(* What a job that has been through its clean finds, it has put there.     *)
OwnInv ==
    Busy /\ job.cleaned =>
        /\ \A k \in 1..Len(Removed(job.kind, "pre")) :
              files[Removed(job.kind, "pre")[k]] \subseteq {count}
        /\ repo \in {0, count}
        /\ job.used \subseteq {count}

(* Only a clean has a place in the list of paths, and a job that works or  *)
(* has been through its clean has the checkout of oot/ that a clean needs. *)
PlaceInv ==
    /\ job.left > 0 => (At("pre") /\ Going) \/ At("post")
    /\ job.cleaned \/ (job.at > 1 /\ Going) => job.oot

(* What keeps a tree is known, or the clean at the end of the job on the   *)
(* machine has yet to come to it.                                          *)
WillClean(p) ==
    /\ Busy /\ job.oot /\ job.cleaned /\ job.at <= Len(Steps[job.kind])
    /\ At("post") => \E k \in 1..Len(Removed(job.kind, "post")) :
                         Removed(job.kind, "post")[k] = p /\ k >= job.left

KnownInv == \A p \in Paths : holders[p] # {} => p \in known \/ WillClean(p)

IInv ==
    /\ TypeOK /\ OrderInv /\ SweepInv /\ RepoInv /\ OwnInv
    /\ PlaceInv /\ KnownInv /\ OnlyOwnFiles

(***************************************************************************)
(* Types.                                                                  *)
(***************************************************************************)
(* No job is a job of the type.                                            *)
LEMMA NoJobType == NoJob \in JobType /\ NoJob.at = 0 /\ NoJob.left = 0 /\ ~NoJob.cleaned
                   /\ NoJob.kind = "build" /\ NoJob.used = {}
  BY DEF NoJob, JobType, Kinds

(* The machine starts in the types.                                        *)
LEMMA TypeInit == Init => TypeOK
  <1>1. Init => count \in 0..MaxJobs
    BY RunnerAssumption DEF Init
  <1>2. Init => job \in JobType /\ job.at <= Len(Steps[job.kind]) + 1
    BY NoJobType, StepFacts DEF Init, JobType
  <1>3. QED
    BY <1>1, <1>2 DEF Init, TypeOK

(* A step of a job keeps the place in its list.                            *)
LEMMA PlaceType ==
  ASSUME TypeOK, NEW step, At(step)
  PROVE  /\ Passed \in JobType /\ Passed.at <= Len(Steps[Passed.kind]) + 1
         /\ Failed \in JobType /\ Failed.at <= Len(Steps[Failed.kind]) + 1
         /\ Passed.kind = job.kind /\ Failed.kind = job.kind
  <1>1. job \in JobType /\ job.kind \in Kinds
    BY DEF TypeOK, JobType
  <1>2. job.at \in Nat /\ job.at + 1 \in Nat /\ job.at + 1 <= Len(Steps[job.kind]) + 1
    BY <1>1, StepFacts DEF At, JobType
  <1>3. Passed \in JobType /\ Passed.at = job.at + 1 /\ Passed.kind = job.kind
    BY <1>1, <1>2 DEF Passed, JobType
  <1>4. Failed \in JobType /\ Failed.at = job.at + 1 /\ Failed.kind = job.kind
    BY <1>3 DEF Failed, JobType
  <1>5. QED
    BY <1>2, <1>3, <1>4

(* What a step has used are jobs.                                          *)
LEMMA UsingType ==
  ASSUME TypeOK, NEW paths \in SUBSET Paths
  PROVE  Using(paths) \in SUBSET Jobs
  BY DEF TypeOK, JobType, Using

(* A job that goes on keeps the type, whatever of these a step sets.       *)
LEMMA ResultType ==
  ASSUME TypeOK, NEW step, At(step), NEW ok \in BOOLEAN, NEW used \in SUBSET Jobs,
         NEW oot \in BOOLEAN, NEW left \in Nat,
         \/ job' = Result(ok)
         \/ job' = [Result(ok) EXCEPT !.used = used]
         \/ job' = [Result(ok) EXCEPT !.oot = oot]
         \/ job' = [Result(ok) EXCEPT !.left = left]
         \/ job' = [Passed EXCEPT !.left = left, !.cleaned = TRUE]
  PROVE  /\ job' \in JobType /\ job'.at <= Len(Steps[job'.kind]) + 1
         /\ job'.kind = job.kind /\ job'.at = job.at + 1
  <1>1. Result(ok) \in {Passed, Failed}
    BY DEF Result
  <1>2. /\ Passed.at = job.at + 1 /\ Failed.at = job.at + 1
        /\ Passed.kind = job.kind /\ Failed.kind = job.kind
    BY DEF Passed, Failed, TypeOK, JobType
  <1>3. /\ Result(ok) \in JobType /\ Result(ok).at <= Len(Steps[job.kind]) + 1
        /\ Result(ok).kind = job.kind /\ Result(ok).at = job.at + 1
    BY <1>1, <1>2, PlaceType
  <1>4. CASE job' = Result(ok)
    BY <1>3, <1>4
  <1>5. CASE job' = [Result(ok) EXCEPT !.used = used]
    BY <1>3, <1>5 DEF JobType
  <1>6. CASE job' = [Result(ok) EXCEPT !.oot = oot]
    BY <1>3, <1>6 DEF JobType
  <1>7. CASE job' = [Result(ok) EXCEPT !.left = left]
    BY <1>3, <1>7 DEF JobType
  <1>8. CASE job' = [Passed EXCEPT !.left = left, !.cleaned = TRUE]
    BY <1>2, <1>8, PlaceType DEF JobType
  <1>9. QED
    BY <1>4, <1>5, <1>6, <1>7, <1>8

(* Writing keeps what is there.                                            *)
LEMMA WritesType ==
  ASSUME TypeOK, count \in Jobs, NEW paths, Writes(paths)
  PROVE  /\ files' \in [Paths -> SUBSET Jobs]
         /\ \A p \in Paths : files[p] \subseteq files'[p]
         /\ \A p \in Paths : files'[p] \subseteq files[p] \union {count}
  BY DEF TypeOK, Writes, Id

(* An upload names its job and what it holds.                              *)
LEMMA UploadsType ==
  ASSUME TypeOK, count \in Jobs, NEW what \in {"wheels", "reports"}, NEW path \in Paths,
         Uploads(what, path)
  PROVE  /\ uploads' \subseteq UploadType
         /\ \A u \in uploads' \ uploads :
               /\ u.by = count /\ u.what = what /\ u.cleaned = job.cleaned
               /\ u.of = files[path] \union job.used
  BY DEF TypeOK, JobType, Uploads, UploadType, Id

(* The steps of a job keep the types.                                      *)
LEMMA TypeSteps ==
  ASSUME TypeOK, OrderInv, JobStep
  PROVE  TypeOK'
  <1>0. Busy => count \in Jobs
    BY DEF OrderInv
  <1>a. \A step : At(step) => Busy
    BY StepFacts DEF At, Busy, TypeOK, JobType
  <1>1. CASE CheckoutOot
    BY <1>1, ResultType DEF CheckoutOot, Ordinary, TypeOK
  <1>2. CASE Skip
    <2>1. job' \in JobType /\ job'.at <= Len(Steps[job'.kind]) + 1
      <3>1. job.at \in DOMAIN Steps[job.kind] /\ job' = Passed
        BY <1>2 DEF Skip
      <3>2. At(Steps[job.kind][job.at])
        BY <3>1 DEF At
      <3>3. QED
        BY <3>1, <3>2, PlaceType
    <2>2. QED
      BY <1>2, <2>1 DEF Skip, TypeOK
  <1>3. CASE Cleaned
    BY <1>3, ResultType DEF Cleaned, Cleaning, TypeOK
  <1>4. CASE Finish
    <2>1. job' \in JobType /\ job'.at <= Len(Steps[job'.kind]) + 1
      BY <1>4, NoJobType, StepFacts DEF Finish, JobType
    <2>2. QED
      BY <1>4, <2>1 DEF Finish, TypeOK
  <1>5. CASE CreateVenv
    <2>1. Using({"scratch"}) \in SUBSET Jobs
      BY UsingType DEF Paths
    <2>2. job' \in JobType /\ job'.at <= Len(Steps[job'.kind]) + 1
      BY <1>5, <2>1, ResultType DEF CreateVenv, Ordinary
    <2>3. QED
      BY <1>0, <1>5, <1>a, <2>2, WritesType DEF CreateVenv, Ordinary, TypeOK
  <1>6. CASE Download
    <2>1. job' \in JobType /\ job'.at <= Len(Steps[job'.kind]) + 1
      BY <1>6, ResultType DEF Download, Ordinary
    <2>2. count \in Jobs
      BY <1>0, <1>6, <1>a DEF Download, Ordinary
    <2>3. /\ files' \in [Paths -> SUBSET Jobs]
          /\ \A p \in Paths : files[p] # {} => files'[p] # {}
      <3>1. CASE job.kind = "test"
        <4>1. PICK again \in BOOLEAN : files' = [files EXCEPT
                  !["artifact"] = IF again THEN {Id} ELSE @ \union {Id}]
          BY <1>6, <3>1 DEF Download
        <4>2. QED
          BY <2>2, <4>1 DEF TypeOK, Id
      <3>2. CASE job.kind # "test"
        BY <1>6, <2>2, <3>2, WritesType DEF Download
      <3>3. QED
        BY <3>1, <3>2
    <2>4. QED
      BY <1>6, <2>1, <2>3 DEF Download, TypeOK
  <1>7. CASE CheckoutPytorch
    <2>1. Using({"artifact"}) \in SUBSET Jobs /\ job.used \in SUBSET Jobs
      BY UsingType DEF Paths, TypeOK, JobType
    <2>2. PICK ok \in BOOLEAN : job' = [Result(ok) EXCEPT
              !.used = IF job.kind = "test" THEN Using({"artifact"}) ELSE @]
      BY <1>7 DEF CheckoutPytorch
    <2>3. Result(ok).used = job.used
      BY DEF Result, Passed, Failed, TypeOK, JobType
    <2>4. job' \in JobType /\ job'.at <= Len(Steps[job'.kind]) + 1
      BY <1>7, <2>1, <2>2, <2>3, ResultType DEF CheckoutPytorch, Ordinary
    <2>5. QED
      BY <1>0, <1>7, <1>a, <2>4 DEF CheckoutPytorch, Ordinary, TypeOK, Id, Paths
  <1>8. CASE Move
    <2>1. job' \in JobType /\ job'.at <= Len(Steps[job'.kind]) + 1
      BY <1>8, PlaceType DEF Move, Ordinary
    <2>2. count \in Jobs
      BY <1>0, <1>8, <1>a DEF Move, Ordinary
    <2>3. QED
      <3>1. /\ files' \in [Paths -> SUBSET Jobs]
            /\ \A p \in {"pt", "scratch"} : files[p] # {} => files'[p] # {}
        BY <1>8, <2>2 DEF Move, TypeOK, Id, Paths
      <3>2. QED
        BY <1>8, <2>1, <2>2, <3>1 DEF Move, TypeOK, Id
  <1>9. CASE RecordSha
    <2>1. job' \in JobType /\ job'.at <= Len(Steps[job'.kind]) + 1
      <3>1. CASE repo = 0
        BY <1>9, <3>1, PlaceType DEF RecordSha, Ordinary
      <3>2. CASE repo # 0
        <4>1. Passed.used = job.used /\ job.used \union {repo} \in SUBSET Jobs
          BY <3>2 DEF Passed, TypeOK, JobType
        <4>2. job' = [Result(TRUE) EXCEPT !.used = job.used \union {repo}]
          BY <1>9, <3>2, <4>1 DEF RecordSha, Result
        <4>3. QED
          BY <1>9, <4>1, <4>2, ResultType DEF RecordSha, Ordinary
      <3>3. QED
        BY <3>1, <3>2
    <2>2. QED
      BY <1>0, <1>9, <1>a, <2>1, WritesType DEF RecordSha, Ordinary, TypeOK
  <1>10. CASE Install
    <2>1. Using({"artifact", "scratch"}) \in SUBSET Jobs
      BY UsingType DEF Paths
    <2>2. QED
      BY <1>10, <2>1, ResultType DEF Install, Ordinary, TypeOK
  <1>11. CASE Work
    <2>1. Using(Reads[job.kind]) \in SUBSET Jobs
      BY UsingType DEF Paths, Reads, Kinds, TypeOK, JobType
    <2>2. job' \in JobType /\ job'.at <= Len(Steps[job'.kind]) + 1
      BY <1>11, <2>1, ResultType DEF Work, Ordinary
    <2>3. /\ files' \in [Paths -> SUBSET Jobs]
          /\ \A p \in Paths : files[p] \subseteq files'[p]
      BY <1>0, <1>11, <1>a, WritesType DEF Work, Ordinary
    <2>4. PICK p \in {"pt", "scratch"}, left \in SUBSET Leftovers :
             files'[p] # {} /\ holders' = [holders EXCEPT ![p] = @ \union left]
      BY <1>11 DEF Work, Leftovers
    <2>5. /\ holders' \in [Paths -> SUBSET Leftovers]
          /\ \A q \in Paths : holders'[q] # {} => files'[q] # {}
      BY <2>3, <2>4 DEF TypeOK, Paths
    <2>6. QED
      BY <1>11, <2>2, <2>3, <2>5 DEF Work, TypeOK
  <1>12. CASE Stage
    <2>1. Using({"scratch", "sha"}) \in SUBSET Jobs
      BY UsingType DEF Paths
    <2>2. job' \in JobType /\ job'.at <= Len(Steps[job'.kind]) + 1
      BY <1>12, <2>1, ResultType DEF Stage, Ordinary
    <2>3. QED
      BY <1>0, <1>12, <1>a, <2>2, WritesType DEF Stage, Ordinary, TypeOK
  <1>13. CASE Publish
    <2>1. job' \in JobType /\ job'.at <= Len(Steps[job'.kind]) + 1
      BY <1>13, ResultType DEF Publish, Ordinary
    <2>2. uploads' \subseteq UploadType
      BY <1>0, <1>13, <1>a, UploadsType DEF Publish, Ordinary, Paths
    <2>3. QED
      BY <1>13, <2>1, <2>2 DEF Publish, TypeOK
  <1>14. CASE UploadReports
    <2>1. job' \in JobType /\ job'.at <= Len(Steps[job'.kind]) + 1
      BY <1>14, ResultType DEF UploadReports
    <2>2. Reports[job.kind] \in Paths
      BY DEF Reports, Paths, Kinds, TypeOK, JobType
    <2>3. uploads' \subseteq UploadType
      BY <1>0, <1>14, <1>a, <2>2, UploadsType DEF UploadReports
    <2>4. QED
      BY <1>14, <2>1, <2>3 DEF UploadReports, TypeOK
  <1>15. ASSUME NEW phase \in {"pre", "post"}, Sweep(phase) PROVE TypeOK'
    <2>1. job' \in JobType /\ job'.at = job.at /\ job'.kind = job.kind
      BY <1>15 DEF Sweep, TypeOK, JobType
    <2>2. PICK spared \in SUBSET Caught : \E fading \in SUBSET (Caught \ spared) :
             holders' = [p \in Paths |->
                {h \in holders[p] : h \in Swept => <<p, h>> \in spared}
                \union {h \in {"fading"} : \E k \in Swept : <<p, k>> \in fading}]
      BY <1>15 DEF Sweep
    <2>3. PICK fading \in SUBSET (Caught \ spared) :
             holders' = [p \in Paths |->
                {h \in holders[p] : h \in Swept => <<p, h>> \in spared}
                \union {h \in {"fading"} : \E k \in Swept : <<p, k>> \in fading}]
      BY <2>2
    <2>4. holders' \in [Paths -> SUBSET Leftovers]
      BY <2>3 DEF TypeOK, Leftovers
    <2>5. ASSUME NEW p \in Paths, holders'[p] # {} PROVE holders[p] # {}
      BY <2>3, <2>5 DEF Caught
    <2>6. QED
      BY <1>15, <2>1, <2>4, <2>5 DEF Sweep, TypeOK
  <1>16. ASSUME NEW phase \in {"pre", "post"}, RemoveTree(phase) PROVE TypeOK'
    <2>1. Current(phase) \in Paths
      BY <1>16, RemovedFacts DEF RemoveTree, Removing, Current, TypeOK, JobType
    <2>2. QED
      BY <1>16, <2>1 DEF RemoveTree, TypeOK, JobType
  <1>17. ASSUME NEW phase \in {"pre", "post"}, CannotRemove(phase) PROVE TypeOK'
    <2>0. /\ Held(phase) /\ UNCHANGED <<count, files, holders, uploads>>
          /\ \/ CleanFails(phase)
             \/ /\ job' = [job EXCEPT !.left = @ + 1]
                /\ known' = known \union {Current(phase)}
      BY <1>17, HeldFacts
    <2>1. /\ job' \in JobType /\ job'.at <= Len(Steps[job'.kind]) + 1
      <3>1. CASE CleanFails(phase)
        <4>1. job' = [Result(FALSE) EXCEPT !.left = 0]
          BY <3>1 DEF CleanFails, Result
        <4>2. At(phase)
          BY <2>0 DEF Held, Removing, Cleaning
        <4>3. QED
          BY <4>1, <4>2, ResultType
      <3>2. CASE job' = [job EXCEPT !.left = @ + 1]
        BY <3>2 DEF TypeOK, JobType
      <3>3. QED
        BY <2>0, <3>1, <3>2
    <2>2. known' \subseteq Paths
      <3>1. \A k \in DOMAIN Removed(job.kind, phase) : Removed(job.kind, phase)[k] \in Paths
        <4>1. Removed(job.kind, phase) \in Seq(Paths)
          BY RemovedFacts DEF TypeOK, JobType
        <4>2. QED
          BY <4>1, ElementOfSeq, LenProperties
      <3>2. Current(phase) \in Paths
        BY <2>0, <3>1 DEF Held, Removing, Current
      <3>3. QED
        BY <2>0, <3>1, <3>2 DEF CleanFails, TypeOK
    <2>3. QED
      BY <2>0, <2>1, <2>2 DEF Held, TypeOK
  <1>18. QED
    BY <1>1, <1>2, <1>3, <1>4, <1>5, <1>6, <1>7, <1>8, <1>9, <1>10, <1>11, <1>12, <1>13,
       <1>14, <1>15, <1>16, <1>17 DEF JobStep, Clean, CannotRemove

(* So does everything else.                                                *)
LEMMA TypeNext ==
  ASSUME TypeOK, OrderInv, [Next]_vars
  PROVE  TypeOK'
  <1>1. ASSUME NEW kind \in Kinds, Take(kind) PROVE TypeOK'
    <2>1. job' \in JobType /\ job'.at = 1 /\ job'.kind = kind
      BY <1>1 DEF Take, NoJob, JobType
    <2>2. QED
      BY <1>1, <2>1, StepFacts, RunnerAssumption DEF Take, TypeOK, Jobs
  <1>2. CASE Cancel
    BY <1>2 DEF Cancel, TypeOK, JobType
  <1>3. CASE Lost
    <2>1. job' \in JobType /\ job'.at <= Len(Steps[job'.kind]) + 1
      BY <1>3, NoJobType, StepFacts DEF Lost, JobType
    <2>2. QED
      BY <1>3, <2>1 DEF Lost, TypeOK
  <1>4. CASE LetsGo
    BY <1>4 DEF LetsGo, TypeOK
  <1>5. CASE UNCHANGED vars
    BY <1>5 DEF vars, TypeOK
  <1>6. QED
    BY <1>1, <1>2, <1>3, <1>4, <1>5, TypeSteps DEF Next, Over

(***************************************************************************)
(* The order of a job's steps.                                             *)
(***************************************************************************)
(* A step that works is past the clean, and the job goes on from it.       *)
LEMMA WorkAdvances ==
  ASSUME TypeOK,
         \/ CreateVenv \/ Install \/ Work \/ Stage \/ Download \/ Publish
         \/ UploadReports \/ CheckoutPytorch \/ Move \/ RecordSha
  PROVE  /\ Busy /\ job.at > 2 /\ ~At("post") /\ UNCHANGED count
         /\ job'.left = job.left /\ job'.oot = job.oot
         /\ job'.at = job.at + 1 /\ job'.cleaned = job.cleaned /\ job'.kind = job.kind
         /\ job'.cancelled = job.cancelled /\ (job.bad => job'.bad)
  <1>1. \E ok \in BOOLEAN : \/ job' = Result(ok)
                            \/ \E used : job' = [Result(ok) EXCEPT !.used = used]
    BY DEF CreateVenv, Install, Work, Stage, Download, Publish, UploadReports,
           CheckoutPytorch, Move, RecordSha, Result
  <1>2. \E step : step \notin {"oot", "pre", "post"} /\ At(step)
    BY DEF CreateVenv, Install, Work, Stage, Download, Publish, UploadReports,
           CheckoutPytorch, Move, RecordSha, Ordinary
  <1>3. Busy /\ job.at > 2 /\ ~At("post")
    BY <1>2, PastClean DEF At
  <1>4. UNCHANGED count
    BY DEF CreateVenv, Install, Work, Stage, Download, Publish, UploadReports,
           CheckoutPytorch, Move, RecordSha
  <1>5. QED
    BY <1>1, <1>3, <1>4 DEF Result, Passed, Failed, TypeOK, JobType

(* A job goes through its clean before it works.                           *)
LEMMA OrderNext ==
  ASSUME TypeOK, OrderInv, [Next]_vars
  PROVE  OrderInv'
  <1> USE AtClean DEF OrderInv, Going, Busy
  <1>0. Passed = [job EXCEPT !.at = @ + 1] /\ Failed = [Passed EXCEPT !.bad = TRUE]
    BY DEF Passed, Failed
  <1>1. ASSUME NEW kind \in Kinds, Take(kind) PROVE OrderInv'
    BY <1>1, RunnerAssumption DEF Take, NoJob, TypeOK, Jobs
  <1>2. CASE \/ CreateVenv \/ Install \/ Work \/ Stage \/ Download \/ Publish
             \/ UploadReports \/ CheckoutPytorch \/ Move \/ RecordSha
    BY <1>2, WorkAdvances DEF TypeOK, JobType
  <1>3. CASE CheckoutOot
    BY <1>3 DEF CheckoutOot, Ordinary, Result, Passed, Failed, TypeOK, JobType
  <1>4. CASE Skip
    BY <1>4, StepFacts DEF Skip, Passed, TypeOK, JobType
  <1>5. CASE Cleaned
    BY <1>5 DEF Cleaned, Cleaning, Passed, TypeOK, JobType
  <1>6. CASE Finish \/ Lost
    BY <1>6, NoJobType DEF Finish, Lost
  <1>7. ASSUME NEW phase \in {"pre", "post"}, Clean(phase) PROVE OrderInv'
    <2>1. At(phase) /\ UNCHANGED count
      BY <1>7, CleanFacts
    <2>2. phase = "pre" => Going
      BY <1>7, CleanFacts
    <2>3. \/ \E left : job' = [job EXCEPT !.left = left]
          \/ job' = [Failed EXCEPT !.left = 0]
      BY <1>7, CleanFacts
    <2>4. /\ job'.cleaned = job.cleaned /\ job'.cancelled = job.cancelled
          /\ job'.used = job.used
          /\ \/ job'.at = job.at /\ job'.bad = job.bad
             \/ job'.at = job.at + 1 /\ job'.bad
      BY <2>3 DEF Passed, Failed, TypeOK, JobType
    <2>5. phase = "pre" => job.at = 2
      BY <2>1
    <2>6. phase = "post" => job.at > 2
      BY <2>1, PastClean
    <2>7. QED
      BY <2>1, <2>2, <2>4, <2>5, <2>6 DEF TypeOK, JobType
  <1>8. CASE Cancel
    BY <1>8 DEF Cancel, TypeOK, JobType
  <1>9. CASE LetsGo \/ UNCHANGED vars
    BY <1>9 DEF LetsGo, vars
  <1>10. QED
    BY <1>1, <1>2, <1>3, <1>4, <1>5, <1>6, <1>7, <1>8, <1>9 DEF Next, JobStep, Over

(***************************************************************************)
(* The clean.                                                              *)
(***************************************************************************)
(* What a clean at the start has removed stays away until it is over.      *)
LEMMA SweepNext ==
  ASSUME TypeOK, OrderInv, SweepInv, [Next]_vars
  PROVE  SweepInv'
  <1> USE AtClean
  <1>1. SUFFICES ASSUME job'.at = 2, job'.left > 0 PROVE SweepInv'
    BY DEF SweepInv
  <1>2. job'.left # 0
    BY <1>1
  <1>3. ASSUME NEW kind \in Kinds, Take(kind) PROVE FALSE
    BY <1>1, <1>3 DEF Take, NoJob
  <1>4. CASE CheckoutOot
    <2>1. job'.left = job.left
      BY <1>4 DEF CheckoutOot, Result, Passed, Failed, TypeOK, JobType
    <2>2. QED
      BY <1>2, <1>4, <2>1 DEF CheckoutOot, Ordinary, OrderInv
  <1>5. CASE Skip
    <2>1. job'.left = job.left /\ job'.at = job.at + 1
      BY <1>5 DEF Skip, Passed, TypeOK, JobType
    <2>2. job.at = 1
      BY <1>1, <2>1 DEF TypeOK, JobType
    <2>3. QED
      BY <1>2, <2>1, <2>2 DEF OrderInv
  <1>6. CASE Cleaned
    BY <1>1, <1>6 DEF Cleaned, Cleaning, Passed, TypeOK, JobType
  <1>7. CASE Finish \/ Lost
    BY <1>1, <1>7, NoJobType DEF Finish, Lost
  <1>8. CASE \/ CreateVenv \/ Install \/ Work \/ Stage \/ Download \/ Publish
             \/ UploadReports \/ CheckoutPytorch \/ Move \/ RecordSha
    BY <1>1, <1>8, WorkAdvances DEF TypeOK, JobType
  <1>9. CASE Sweep("pre")
    BY <1>9 DEF Sweep, SweepInv, TypeOK, JobType
  <1>10. CASE RemoveTree("pre")
    <2>1. /\ job.at = 2 /\ job.left > 0 /\ job.kind \in Kinds /\ job.left \in Nat
          /\ Current("pre") \in Paths /\ job.left \in 1..Len(Removed(job.kind, "pre"))
      BY <1>10, RemovedFacts DEF RemoveTree, Removing, Cleaning, Current, TypeOK, JobType
    <2>2. job'.kind = job.kind /\ job'.left = job.left + 1 /\ holders' = holders
      BY <1>10 DEF RemoveTree, TypeOK, JobType
    <2>3. files' = [files EXCEPT ![Removed(job.kind, "pre")[job.left]] = {}]
      BY <1>10 DEF RemoveTree, Current
    <2>4. \A k \in 1..Len(Removed(job.kind, "pre")) : Removed(job.kind, "pre")[k] \in Paths
      BY <2>1, RemovedFacts
    <2>5. \A k \in 1..Len(Removed(job.kind, "pre")) :
             k < job.left + 1 => files'[Removed(job.kind, "pre")[k]] = {}
      <3>1. ASSUME NEW k \in 1..Len(Removed(job.kind, "pre")), k < job.left + 1
            PROVE  files'[Removed(job.kind, "pre")[k]] = {}
        <4>1. CASE k = job.left
          BY <2>3, <2>4, <4>1 DEF TypeOK
        <4>2. CASE k # job.left
          <5>1. k < job.left
            BY <2>1, <3>1, <4>2
          <5>2. files[Removed(job.kind, "pre")[k]] = {}
            BY <2>1, <5>1 DEF SweepInv
          <5>3. QED
            BY <2>3, <2>4, <5>2 DEF TypeOK
        <4>3. QED
          BY <4>1, <4>2
      <3>2. QED
        BY <3>1
    <2>6. QED
      BY <2>1, <2>2, <2>5 DEF SweepInv
  <1>11. CASE CannotRemove("pre")
    <2>1. job' = [Failed EXCEPT !.left = 0] /\ job.at = 2
      BY <1>11, HeldFacts DEF CleanFails, Strict, Held, Removing, Cleaning
    <2>2. QED
      BY <1>1, <2>1 DEF Failed, Passed, TypeOK, JobType
  <1>12. CASE Clean("post")
    <2>1. At("post")
      BY <1>12, CleanFacts
    <2>2. job.at > 2
      BY <2>1, PastClean
    <2>3. \/ \E left : job' = [job EXCEPT !.left = left]
          \/ job' = [Failed EXCEPT !.left = 0]
      BY <1>12, CleanFacts
    <2>4. job'.at = job.at \/ job'.at = job.at + 1
      BY <2>3 DEF Passed, Failed, TypeOK, JobType
    <2>5. QED
      BY <1>1, <2>2, <2>4 DEF TypeOK, JobType
  <1>13. CASE Cancel
    <2>1. job'.at = job.at
      BY <1>13 DEF Cancel, TypeOK, JobType
    <2>2. ~At("post")
      BY <1>1, <2>1, PastClean
    <2>3. job'.left = 0
      BY <1>13, <2>2 DEF Cancel, TypeOK, JobType
    <2>4. QED
      BY <1>2, <2>3
  <1>14. CASE LetsGo
    BY <1>1, <1>14 DEF LetsGo, SweepInv
  <1>15. CASE UNCHANGED vars
    BY <1>15 DEF vars, SweepInv
  <1>16. QED
    BY <1>3, <1>4, <1>5, <1>6, <1>7, <1>8, <1>9, <1>10, <1>11, <1>12, <1>13, <1>14, <1>15
       DEF Next, JobStep, Over, Clean, CannotRemove

(***************************************************************************)
(* What a job finds is its own.                                            *)
(***************************************************************************)
(* After the clean, this holds of every path that the job uses.            *)
LEMMA OwnPaths ==
  ASSUME TypeOK, OwnInv, Busy, job.cleaned
  PROVE  /\ \A p \in Common : files[p] \subseteq {count}
         /\ job.kind = "validate" =>
               files["signed"] \subseteq {count} /\ files["validation"] \subseteq {count}
         /\ repo \in {0, count} /\ job.used \subseteq {count}
  <1>1. job.kind \in Kinds
    BY DEF TypeOK, JobType
  <1>2. \A k \in 1..Len(Removed(job.kind, "pre")) :
           files[Removed(job.kind, "pre")[k]] \subseteq {count}
    BY DEF OwnInv
  <1>3. \A p \in Common : \E k \in 1..Len(Removed(job.kind, "pre")) :
           Removed(job.kind, "pre")[k] = p
    BY <1>1, RemovedFacts
  <1>4. job.kind = "validate" => \A p \in {"signed", "validation"} :
           \E k \in 1..Len(Removed(job.kind, "pre")) : Removed(job.kind, "pre")[k] = p
    BY <1>1, RemovedFacts
  <1>5. repo \in {0, count} /\ job.used \subseteq {count}
    BY DEF OwnInv
  <1>6. QED
    BY <1>2, <1>3, <1>4, <1>5

(* So what it takes from them is its own.                                  *)
LEMMA OwnUsing ==
  ASSUME TypeOK, OwnInv, Busy, job.cleaned, NEW paths,
         paths \subseteq Common
            \union (IF job.kind = "validate" THEN {"signed", "validation"} ELSE {})
  PROVE  Using(paths) \subseteq {count}
  BY OwnPaths DEF Using

(* A step that adds nothing but this job's files keeps what it finds its   *)
(* own.                                                                    *)
LEMMA OwnKept ==
  ASSUME TypeOK, OwnInv, Busy, job.cleaned,
         UNCHANGED count, job'.kind = job.kind,
         \A p \in Paths : files'[p] \subseteq files[p] \union {count},
         repo' \in {repo, 0, count}, job'.used \subseteq {count}
  PROVE  OwnInv'
  <1>1. \A k \in 1..Len(Removed(job.kind, "pre")) : Removed(job.kind, "pre")[k] \in Paths
    BY RemovedFacts DEF TypeOK, JobType
  <1>2. QED
    BY <1>1 DEF OwnInv

(* The steps that work keep it.                                            *)
LEMMA OwnWork ==
  ASSUME TypeOK, OrderInv, OwnInv, job.cleaned,
         \/ CreateVenv \/ Install \/ Work \/ Stage \/ Download \/ Publish
         \/ UploadReports \/ CheckoutPytorch \/ Move \/ RecordSha
  PROVE  OwnInv'
  <1>1. Busy /\ UNCHANGED count /\ job'.kind = job.kind /\ count \in Jobs
    BY WorkAdvances DEF OrderInv
  <1>2. \A p \in Paths : files'[p] \subseteq files[p] \union {count}
    <2>1. ASSUME NEW paths, Writes(paths)
          PROVE  \A p \in Paths : files'[p] \subseteq files[p] \union {count}
      BY <1>1, <2>1, WritesType
    <2>2. CASE CreateVenv \/ Work \/ Stage \/ RecordSha
      BY <2>1, <2>2 DEF CreateVenv, Work, Stage, RecordSha
    <2>3. CASE Download
      <3>1. CASE job.kind = "test"
        <4>1. PICK again \in BOOLEAN : files' = [files EXCEPT
                  !["artifact"] = IF again THEN {Id} ELSE @ \union {Id}]
          BY <2>3, <3>1 DEF Download
        <4>2. QED
          BY <4>1 DEF TypeOK, Id
      <3>2. QED
        BY <2>1, <2>3, <3>1 DEF Download
    <2>4. CASE CheckoutPytorch \/ Move
      BY <2>4 DEF CheckoutPytorch, Move, TypeOK, Id, Paths
    <2>5. CASE Install \/ Publish \/ UploadReports
      BY <2>5 DEF Install, Publish, UploadReports
    <2>6. QED
      BY <2>2, <2>3, <2>4, <2>5
  <1>3. repo' \in {repo, 0, count}
    BY DEF CreateVenv, Install, Work, Stage, Download, Publish, UploadReports,
           CheckoutPytorch, Move, RecordSha, Id
  <1>4. job'.used \subseteq {count}
    <2>1. \A ok : Result(ok).used = job.used /\ Result(ok).used \subseteq {count}
      BY <1>1, OwnPaths DEF Result, Passed, Failed, TypeOK, JobType
    <2>2. /\ Using({"scratch"}) \subseteq {count}
          /\ Using({"artifact", "scratch"}) \subseteq {count}
          /\ Using({"scratch", "sha"}) \subseteq {count}
          /\ Using({"artifact"}) \subseteq {count}
      BY <1>1, OwnUsing DEF Common
    <2>3. Using(Reads[job.kind]) \subseteq {count}
      <3>1. Reads[job.kind] \subseteq Common
               \union (IF job.kind = "validate" THEN {"signed", "validation"} ELSE {})
        BY DEF Reads, Common, Kinds, TypeOK, JobType
      <3>2. QED
        BY <1>1, <3>1, OwnUsing
    <2>4. \A ok, used : used \subseteq {count} =>
             [Result(ok) EXCEPT !.used = used].used \subseteq {count}
      BY DEF Result, Passed, Failed, TypeOK, JobType
    <2>5. CASE CreateVenv \/ Install \/ Stage \/ Work
      <3>1. \E ok \in BOOLEAN :
               \E used \in {Using({"scratch"}), Using({"artifact", "scratch"}),
                            Using({"scratch", "sha"}), Using(Reads[job.kind])} :
                  job' = [Result(ok) EXCEPT !.used = used]
        BY <2>5 DEF CreateVenv, Install, Stage, Work
      <3>2. QED
        BY <2>2, <2>3, <2>4, <3>1
    <2>6. CASE Download \/ Publish \/ UploadReports
      BY <2>1, <2>6 DEF Download, Publish, UploadReports
    <2>7. CASE CheckoutPytorch
      <3>1. PICK ok \in BOOLEAN : job' = [Result(ok) EXCEPT
                !.used = IF job.kind = "test" THEN Using({"artifact"}) ELSE @]
        BY <2>7 DEF CheckoutPytorch
      <3>2. QED
        BY <2>1, <2>2, <2>4, <3>1
    <2>8. CASE Move
      BY <1>1, <2>8, OwnPaths DEF Move, Passed, TypeOK, JobType
    <2>9. CASE RecordSha
      <3>1. Passed.used = job.used /\ Failed.used = job.used /\ job.used \subseteq {count}
        BY <1>1, OwnPaths DEF Passed, Failed, TypeOK, JobType
      <3>2. CASE repo = 0
        BY <2>9, <3>1, <3>2 DEF RecordSha
      <3>3. CASE repo # 0
        <4>1. job' = [Passed EXCEPT !.used = job.used \union {repo}] /\ repo = count
          BY <1>1, <2>9, <3>1, <3>3, OwnPaths DEF RecordSha
        <4>2. job'.used = job.used \union {repo}
          BY <4>1 DEF Passed, TypeOK, JobType
        <4>3. QED
          BY <3>1, <4>1, <4>2
      <3>4. QED
        BY <3>2, <3>3
    <2>10. QED
      BY <2>5, <2>6, <2>7, <2>8, <2>9
  <1>5. QED
    BY <1>1, <1>2, <1>3, <1>4, OwnKept

(* The root of a checkout goes with the tree.                              *)
LEMMA RepoNext ==
  ASSUME TypeOK, OrderInv, RepoInv, [Next]_vars
  PROVE  RepoInv'
  <1>1. CASE CreateVenv \/ Work \/ Stage \/ RecordSha \/ (Download /\ job.kind # "test")
    <2>1. PICK paths : Writes(paths)
      BY <1>1 DEF CreateVenv, Work, Stage, RecordSha, Download
    <2>2. count \in Jobs /\ UNCHANGED repo
      BY <1>1, WorkAdvances DEF OrderInv, CreateVenv, Work, Stage, RecordSha, Download
    <2>3. files["pt"] \subseteq files'["pt"]
      BY <2>1, <2>2, WritesType DEF Paths
    <2>4. QED
      BY <2>2, <2>3 DEF RepoInv
  <1>2. CASE Download /\ job.kind = "test"
    <2>1. PICK again \in BOOLEAN : files' = [files EXCEPT
              !["artifact"] = IF again THEN {Id} ELSE @ \union {Id}]
      BY <1>2 DEF Download
    <2>2. QED
      BY <1>2, <2>1 DEF Download, RepoInv, TypeOK
  <1>3. CASE CheckoutPytorch
    BY <1>3 DEF CheckoutPytorch, RepoInv, TypeOK
  <1>4. CASE Move
    BY <1>4 DEF Move, RepoInv, TypeOK, Paths
  <1>5. ASSUME NEW phase, RemoveTree(phase) PROVE RepoInv'
    BY <1>5 DEF RemoveTree, RepoInv, TypeOK, Paths
  <1>6. ASSUME NEW phase, CannotRemove(phase) PROVE RepoInv'
    BY <1>6, HeldFacts DEF Held, RepoInv
  <1>7. ASSUME \/ CheckoutOot \/ Skip \/ Cleaned \/ Finish \/ Install \/ Publish
               \/ UploadReports \/ Cancel \/ Lost \/ LetsGo \/ UNCHANGED vars
               \/ \E phase \in {"pre", "post"} : Sweep(phase)
               \/ \E kind \in Kinds : Take(kind)
        PROVE  RepoInv'
    BY <1>7 DEF CheckoutOot, Skip, Cleaned, Finish, Install, Publish, UploadReports, Cancel,
       Lost, LetsGo, vars, Sweep, Take, RepoInv
  <1>8. QED
    BY <1>1, <1>2, <1>3, <1>4, <1>5, <1>6, <1>7 DEF Next, JobStep, Clean, Over, CannotRemove

(* Every step keeps it, and the end of the clean establishes it.           *)
LEMMA OwnNext ==
  ASSUME TypeOK, OrderInv, SweepInv, RepoInv, OwnInv, [Next]_vars
  PROVE  OwnInv'
  <1> USE AtClean
  <1>1. CASE ~job'.cleaned \/ ~Busy'
    BY <1>1 DEF OwnInv
  <1>2. CASE Cleaned
    <2>1. job.at = 2 /\ job.left > Len(Removed(job.kind, "pre")) /\ job.kind \in Kinds
      BY <1>2 DEF Cleaned, Cleaning, TypeOK, JobType
    <2>2. Len(Removed(job.kind, "pre")) \in Nat
      BY <2>1, RemovedFacts, LenProperties
    <2>3. \A k \in 1..Len(Removed(job.kind, "pre")) : files[Removed(job.kind, "pre")[k]] = {}
      BY <2>1, <2>2 DEF SweepInv, TypeOK, JobType
    <2>4. files["pt"] = {}
      <3>1. PICK k \in 1..Len(Removed(job.kind, "pre")) : Removed(job.kind, "pre")[k] = "pt"
        BY <2>1, RemovedFacts DEF Common
      <3>2. QED
        BY <2>3, <3>1
    <2>5. /\ UNCHANGED <<count, files, repo>> /\ job'.kind = job.kind /\ job'.used = job.used
      BY <1>2 DEF Cleaned, Passed, TypeOK, JobType
    <2>6. repo = 0 /\ job.used = {}
      BY <2>1, <2>4 DEF RepoInv, OrderInv
    <2>7. QED
      BY <2>3, <2>5, <2>6 DEF OwnInv
  <1>3. ASSUME NEW kind \in Kinds, Take(kind) PROVE ~job'.cleaned
    BY <1>3 DEF Take, NoJob
  <1>4. CASE CheckoutOot
    BY <1>1, <1>4 DEF CheckoutOot, Ordinary, Result, Passed, Failed, TypeOK, JobType, OrderInv
  <1>5. CASE Finish \/ Lost
    BY <1>1, <1>5, NoJobType DEF Finish, Lost
  <1>6. CASE \/ CreateVenv \/ Install \/ Work \/ Stage \/ Download \/ Publish
             \/ UploadReports \/ CheckoutPytorch \/ Move \/ RecordSha
    <2>1. job'.cleaned = job.cleaned
      BY <1>6, WorkAdvances
    <2>2. QED
      BY <1>1, <1>6, <2>1, OwnWork
  <1>7. CASE Skip \/ Cancel \/ LetsGo \/ UNCHANGED vars
    <2>1. /\ UNCHANGED <<count, files, repo>> /\ job'.kind = job.kind /\ job'.used = job.used
          /\ job'.cleaned = job.cleaned /\ (Busy' => Busy)
      <3>1. CASE Skip
        BY <3>1, StepFacts DEF Skip, Passed, TypeOK, JobType, Busy
      <3>2. CASE Cancel
        BY <3>2 DEF Cancel, TypeOK, JobType, Busy
      <3>3. CASE LetsGo \/ UNCHANGED vars
        BY <3>3 DEF LetsGo, vars, Busy
      <3>4. QED
        BY <1>7, <3>1, <3>2, <3>3
    <2>2. QED
      BY <2>1 DEF OwnInv
  <1>8. ASSUME NEW phase \in {"pre", "post"}, Clean(phase) PROVE OwnInv'
    <2>1. Busy
      BY <1>8, CleanFacts
    <2>2. \/ \E left : job' = [job EXCEPT !.left = left]
          \/ job' = [Failed EXCEPT !.left = 0]
      BY <1>8, CleanFacts
    <2>3. job'.cleaned = job.cleaned /\ job'.kind = job.kind /\ job'.used = job.used
      BY <2>2 DEF Passed, Failed, TypeOK, JobType
    <2>4. /\ UNCHANGED count /\ repo' \in {repo, 0}
          /\ \A p \in Paths : files'[p] \subseteq files[p]
      <3>1. CASE Sweep(phase)
        BY <3>1 DEF Sweep
      <3>2. CASE RemoveTree(phase)
        BY <3>2 DEF RemoveTree, TypeOK
      <3>3. CASE CannotRemove(phase)
        BY <3>3, HeldFacts DEF Held
      <3>4. QED
        BY <1>8, <3>1, <3>2, <3>3 DEF Clean, CannotRemove
    <2>5. CASE job.cleaned
      <3>1. job'.used \subseteq {count}
        BY <2>1, <2>3, <2>5 DEF OwnInv
      <3>2. QED
        BY <2>1, <2>3, <2>4, <2>5, <3>1, OwnKept
    <2>6. CASE ~job.cleaned
      BY <1>1, <2>3, <2>6
    <2>7. QED
      BY <2>5, <2>6
  <1>9. QED
    BY <1>1, <1>2, <1>3, <1>4, <1>5, <1>6, <1>7, <1>8 DEF Next, JobStep, Over

(***************************************************************************)
(* What keeps a tree is known.                                             *)
(***************************************************************************)
(* Only a clean has a place, and a job that works has its checkout of oot. *)
LEMMA PlaceNext ==
  ASSUME TypeOK, OrderInv, PlaceInv, [Next]_vars
  PROVE  PlaceInv'
  <1> USE AtClean
  <1>1. ASSUME NEW kind \in Kinds, Take(kind) PROVE PlaceInv'
    BY <1>1 DEF Take, NoJob, PlaceInv
  <1>2. CASE \/ CreateVenv \/ Install \/ Work \/ Stage \/ Download \/ Publish
             \/ UploadReports \/ CheckoutPytorch \/ Move \/ RecordSha
    <2>1. /\ job'.left = job.left /\ job'.oot = job.oot /\ job'.cleaned = job.cleaned
          /\ job'.cancelled = job.cancelled /\ (job.bad => job'.bad)
          /\ job.at > 2 /\ ~At("post")
      BY <1>2, WorkAdvances
    <2>2. ~(job.left > 0)
      BY <2>1 DEF PlaceInv
    <2>3. QED
      BY <2>1, <2>2 DEF PlaceInv, Going, TypeOK, JobType
  <1>3. CASE CheckoutOot
    <2>1. job.at = 1 /\ job.left = 0 /\ ~job.cleaned
      BY <1>3 DEF CheckoutOot, Ordinary, OrderInv
    <2>2. \E ok \in BOOLEAN : /\ job'.left = 0 /\ ~job'.cleaned /\ job'.oot = ok
                             /\ (~ok => job'.bad)
      BY <1>3, <2>1 DEF CheckoutOot, Result, Passed, Failed, TypeOK, JobType
    <2>3. QED
      BY <2>2 DEF PlaceInv, Going
  <1>4. CASE Skip
    <2>1. ~Going /\ ~At("post")
      BY <1>4 DEF Skip, AlwaysRun
    <2>2. /\ job'.left = job.left /\ job'.cleaned = job.cleaned /\ job'.oot = job.oot
          /\ job'.bad = job.bad /\ job'.cancelled = job.cancelled
      BY <1>4 DEF Skip, Passed, TypeOK, JobType
    <2>3. QED
      BY <2>1, <2>2 DEF PlaceInv, Going
  <1>5. CASE Cleaned
    <2>1. job.at = 2 /\ Going
      BY <1>5 DEF Cleaned, Cleaning, AlwaysRun, At
    <2>2. job'.left = 0 /\ job'.oot = job.oot
      BY <1>5 DEF Cleaned, Passed, TypeOK, JobType
    <2>3. QED
      BY <2>1, <2>2 DEF PlaceInv
  <1>6. CASE Finish \/ Lost
    BY <1>6, NoJobType DEF Finish, Lost, PlaceInv
  <1>7. ASSUME NEW phase \in {"pre", "post"}, Clean(phase) PROVE PlaceInv'
    <2>1. At(phase) /\ (phase = "pre" => Going)
      BY <1>7, CleanFacts
    <2>2. ASSUME NEW left, job' = [job EXCEPT !.left = left] PROVE PlaceInv'
      <3>1. /\ job'.kind = job.kind /\ job'.at = job.at /\ job'.bad = job.bad
            /\ job'.cancelled = job.cancelled /\ job'.cleaned = job.cleaned /\ job'.oot = job.oot
        BY <2>2 DEF TypeOK, JobType
      <3>2. QED
        BY <2>1, <3>1 DEF PlaceInv, At, Going
    <2>3. CASE job' = [Failed EXCEPT !.left = 0]
      <3>1. job'.left = 0 /\ job'.bad /\ job'.cleaned = job.cleaned /\ job'.oot = job.oot
        BY <2>3 DEF Failed, Passed, TypeOK, JobType
      <3>2. QED
        BY <3>1 DEF PlaceInv, Going
    <2>4. QED
      BY <1>7, <2>2, <2>3, CleanFacts
  <1>8. CASE Cancel
    <2>1. /\ job'.kind = job.kind /\ job'.at = job.at /\ job'.cancelled
          /\ job'.cleaned = job.cleaned /\ job'.oot = job.oot
          /\ job'.left = IF At("post") THEN job.left ELSE 0
      BY <1>8 DEF Cancel, TypeOK, JobType
    <2>2. QED
      BY <2>1 DEF PlaceInv, At, Going
  <1>9. CASE LetsGo \/ UNCHANGED vars
    BY <1>9 DEF LetsGo, vars, PlaceInv, At, Going
  <1>10. QED
    BY <1>1, <1>2, <1>3, <1>4, <1>5, <1>6, <1>7, <1>8, <1>9 DEF Next, JobStep, Over

(* A step that is not a clean leaves the one at the end still to come.     *)
LEMMA StillToCome ==
  ASSUME TypeOK, PlaceInv, Busy, ~At("post"), job.at # 2, job.cleaned, job.oot,
         job.at <= Len(Steps[job.kind]), NEW p \in {"pt", "scratch"},
         job'.kind = job.kind, job'.at \in {job.at, job.at + 1}, job'.left \in {0, job.left},
         job'.cleaned = job.cleaned, job'.oot = job.oot
  PROVE  WillClean(p)'
  <1>1. job.left = 0 /\ job'.left = 0
    BY AtClean DEF PlaceInv, TypeOK, JobType
  <1>2. /\ job.kind \in Kinds /\ job.at \in Nat /\ job.at > 0
        /\ Len(Steps[job.kind]) \in Nat
    BY StepFacts DEF TypeOK, JobType, Busy
  <1>3. job.at # Len(Steps[job.kind])
    BY AtEnd
  <1>4. job'.at > 0 /\ job'.at <= Len(Steps[job'.kind])
    BY <1>2, <1>3
  <1>5. \E k \in 1..Len(Removed(job.kind, "post")) : Removed(job.kind, "post")[k] = p /\ k >= 0
    <2>1. PICK k \in 1..Len(Removed(job.kind, "post")) : Removed(job.kind, "post")[k] = p
      <3>1. p \in Common
        BY DEF Common
      <3>2. QED
        BY <1>2, <3>1, RemovedFacts
    <2>2. Len(Removed(job.kind, "post")) \in Nat
      BY <1>2, RemovedFacts, LenProperties
    <2>3. QED
      BY <2>1, <2>2
  <1>6. QED
    BY <1>1, <1>4, <1>5 DEF WillClean, Busy

(* The same of a step of a job that changes neither what keeps the trees   *)
(* nor what is known of it.                                                *)
LEMMA KnownMoves ==
  ASSUME TypeOK, OrderInv, PlaceInv, KnownInv, Busy, ~At("post"),
         UNCHANGED <<holders, known>>,
         job'.kind = job.kind, job'.at \in {job.at, job.at + 1}, job'.left \in {0, job.left},
         job'.cleaned = job.cleaned, job.cleaned => job'.oot = job.oot
  PROVE  KnownInv'
  <1>1. ASSUME NEW p \in Paths, holders[p] # {}, p \notin known PROVE WillClean(p)'
    <2>1. WillClean(p) /\ p \in {"pt", "scratch"}
      BY <1>1 DEF KnownInv, TypeOK
    <2>2. /\ job.cleaned /\ job.oot /\ job.at <= Len(Steps[job.kind])
          /\ job.at # 2
      BY <2>1 DEF WillClean, OrderInv
    <2>3. QED
      BY <2>1, <2>2, StillToCome
  <1>2. QED
    BY <1>1 DEF KnownInv

(* Every step keeps it.                                                    *)
LEMMA KnownNext ==
  ASSUME TypeOK, OrderInv, PlaceInv, KnownInv, [Next]_vars
  PROVE  KnownInv'
  <1> USE AtClean
  <1>1. ASSUME NEW kind \in Kinds, Take(kind) PROVE KnownInv'
    BY <1>1 DEF Take, KnownInv, WillClean
  <1>2. CASE \/ CreateVenv \/ Install \/ Stage \/ Download \/ Publish
             \/ UploadReports \/ CheckoutPytorch \/ Move \/ RecordSha
    <2>1. UNCHANGED <<holders, known>>
      BY <1>2 DEF CreateVenv, Install, Stage, Download, Publish, UploadReports,
         CheckoutPytorch, Move, RecordSha
    <2>2. QED
      BY <1>2, <2>1, WorkAdvances, KnownMoves
  <1>3. CASE Work
    <2>1. /\ Busy /\ ~At("post") /\ job.at > 2
          /\ job'.left = job.left /\ job'.oot = job.oot /\ job'.at = job.at + 1
          /\ job'.cleaned = job.cleaned /\ job'.kind = job.kind
      BY <1>3, WorkAdvances
    <2>2. Going /\ At("work")
      BY <1>3 DEF Work, Ordinary
    <2>3. job.cleaned /\ job.oot /\ job.at # 2
      BY <2>1, <2>2 DEF OrderInv, PlaceInv, TypeOK, JobType
    <2>4. job.at <= Len(Steps[job.kind])
      BY <2>2, StepFacts DEF At, TypeOK, JobType
    <2>5. \A p \in {"pt", "scratch"} : WillClean(p)'
      BY <2>1, <2>3, <2>4, StillToCome
    <2>6. \A p \in Paths : holders'[p] # {} => p \in {"pt", "scratch"}
      BY <1>3 DEF Work, TypeOK
    <2>7. QED
      BY <2>5, <2>6 DEF KnownInv
  <1>4. CASE CheckoutOot
    <2>1. job.at = 1 /\ ~job.cleaned /\ Busy /\ ~At("post") /\ UNCHANGED <<holders, known>>
      BY <1>4 DEF CheckoutOot, Ordinary, OrderInv, Busy, At
    <2>2. /\ job'.kind = job.kind /\ job'.at = job.at + 1 /\ job'.left = job.left
          /\ job'.cleaned = job.cleaned
      BY <1>4 DEF CheckoutOot, Result, Passed, Failed, TypeOK, JobType
    <2>3. QED
      BY <2>1, <2>2, KnownMoves
  <1>5. CASE Skip
    <2>1. Busy /\ ~At("post") /\ UNCHANGED <<holders, known>>
      BY <1>5, StepFacts DEF Skip, AlwaysRun, Busy, TypeOK, JobType
    <2>2. /\ job'.kind = job.kind /\ job'.at = job.at + 1 /\ job'.left = job.left
          /\ job'.cleaned = job.cleaned /\ job'.oot = job.oot
      BY <1>5 DEF Skip, Passed, TypeOK, JobType
    <2>3. QED
      BY <2>1, <2>2, KnownMoves
  <1>6. CASE Cleaned
    <2>1. job.at = 2 /\ ~job.cleaned /\ UNCHANGED <<holders, known>>
      BY <1>6 DEF Cleaned, Cleaning, OrderInv
    <2>2. QED
      BY <2>1 DEF KnownInv, WillClean
  <1>7. CASE Finish
    <2>1. \A p : ~WillClean(p)
      <3>1. CASE At("post") /\ job.left > Len(Removed(job.kind, "post"))
        <4>1. Len(Removed(job.kind, "post")) \in Nat /\ job.left \in Nat
          BY RemovedFacts, LenProperties DEF TypeOK, JobType
        <4>2. QED
          BY <3>1, <4>1 DEF WillClean
      <3>2. CASE ~job.oot
        BY <3>2 DEF WillClean
      <3>3. CASE job.at > Len(Steps[job.kind])
        BY <3>3, StepFacts DEF WillClean, TypeOK, JobType
      <3>4. QED
        BY <1>7, <3>1, <3>2, <3>3 DEF Finish
    <2>2. QED
      BY <1>7, <2>1 DEF Finish, KnownInv
  <1>8. CASE Lost
    BY <1>8 DEF Lost, KnownInv
  <1>9. ASSUME NEW phase \in {"pre", "post"}, Clean(phase) PROVE KnownInv'
    <2>1. Busy /\ At(phase)
      BY <1>9, CleanFacts
    <2>2. \A p \in Paths : holders'[p] # {} => holders[p] # {}
      <3>1. CASE Sweep(phase)
        <4>1. PICK spared \in SUBSET Caught : \E fading \in SUBSET (Caught \ spared) :
                 holders' = [p \in Paths |->
                    {h \in holders[p] : h \in Swept => <<p, h>> \in spared}
                    \union {h \in {"fading"} : \E k \in Swept : <<p, k>> \in fading}]
          BY <3>1 DEF Sweep
        <4>2. PICK fading \in SUBSET (Caught \ spared) :
                 holders' = [p \in Paths |->
                    {h \in holders[p] : h \in Swept => <<p, h>> \in spared}
                    \union {h \in {"fading"} : \E k \in Swept : <<p, k>> \in fading}]
          BY <4>1
        <4>3. QED
          BY <4>2 DEF Caught
      <3>2. CASE RemoveTree(phase) \/ CannotRemove(phase)
        BY <3>2, HeldFacts DEF RemoveTree
      <3>3. QED
        BY <1>9, <3>1, <3>2 DEF Clean, CannotRemove
    <2>3. RemoveTree(phase) => holders'[Current(phase)] = {}
      BY DEF RemoveTree
    <2>4. /\ known \ {Current(phase)} \subseteq known'
          /\ ~RemoveTree(phase) => known \subseteq known'
      <3>1. CASE Sweep(phase) \/ RemoveTree(phase)
        BY <3>1 DEF Sweep, RemoveTree
      <3>2. CASE CannotRemove(phase)
        BY <3>2, HeldFacts DEF CleanFails
      <3>3. QED
        BY <1>9, <3>1, <3>2 DEF Clean, CannotRemove
    <2>5. ASSUME NEW p \in Paths, holders'[p] # {} PROVE p \in known' \/ WillClean(p)'
      <3>1. CASE p \in known
        BY <2>3, <2>4, <2>5, <3>1
      <3>2. CASE p \notin known
        <4>1. WillClean(p)
          BY <2>2, <2>5, <3>2 DEF KnownInv
        <4>2. phase = "post"
          BY <2>1, <4>1 DEF WillClean, OrderInv
        <4>3. PICK k \in 1..Len(Removed(job.kind, "post")) :
                 Removed(job.kind, "post")[k] = p /\ k >= job.left
          BY <2>1, <4>1, <4>2 DEF WillClean
        <4>4. k \in Nat /\ k >= 1 /\ job.left \in Nat
          BY RemovedFacts, LenProperties DEF TypeOK, JobType
        <4>5. ASSUME NEW left \in Nat, k >= left, job' = [job EXCEPT !.left = left]
              PROVE  WillClean(p)'
          <5>1. /\ job'.kind = job.kind /\ job'.at = job.at /\ job'.cleaned = job.cleaned
                /\ job'.oot = job.oot /\ job'.left = left
            BY <4>5 DEF TypeOK, JobType
          <5>2. QED
            BY <4>1, <4>3, <4>5, <5>1 DEF WillClean, Busy
        <4>6. CASE Sweep(phase)
          BY <4>4, <4>5, <4>6 DEF Sweep
        <4>7. CASE RemoveTree(phase)
          <5>1. p # Current(phase)
            BY <2>3, <2>5, <4>7
          <5>2. k # job.left
            BY <4>2, <4>3, <5>1 DEF Current
          <5>3. job.left + 1 \in Nat /\ k >= job.left + 1
            BY <4>3, <4>4, <5>2
          <5>4. job' = [job EXCEPT !.left = job.left + 1]
            BY <4>7 DEF RemoveTree
          <5>5. QED
            BY <4>5, <5>3, <5>4
        <4>8. CASE CannotRemove(phase)
          <5>1. CASE CleanFails(phase)
            <6>1. k \in DOMAIN Removed(job.kind, phase)
              <7>1. Removed(job.kind, phase) \in Seq(Paths)
                BY RemovedFacts DEF TypeOK, JobType
              <7>2. QED
                BY <4>2, <4>3, <7>1, LenProperties
            <6>2. QED
              BY <4>2, <4>3, <5>1, <6>1 DEF CleanFails
          <5>2. CASE /\ job' = [job EXCEPT !.left = @ + 1]
                     /\ known' = known \union {Current(phase)}
            <6>1. CASE k = job.left
              BY <4>2, <4>3, <5>2, <6>1 DEF Current
            <6>2. CASE k # job.left
              <7>1. job.left + 1 \in Nat /\ k >= job.left + 1
                BY <4>3, <4>4, <6>2
              <7>2. job' = [job EXCEPT !.left = job.left + 1]
                BY <5>2
              <7>3. QED
                BY <4>5, <7>1, <7>2
            <6>3. QED
              BY <6>1, <6>2
          <5>3. QED
            BY <4>8, <5>1, <5>2, HeldFacts
        <4>9. QED
          BY <1>9, <4>6, <4>7, <4>8 DEF Clean, CannotRemove
      <3>3. QED
        BY <3>1, <3>2
    <2>6. QED
      BY <2>5 DEF KnownInv
  <1>10. CASE Cancel
    <2>1. /\ job'.kind = job.kind /\ job'.at = job.at /\ job'.cleaned = job.cleaned
          /\ job'.oot = job.oot /\ job'.left = (IF At("post") THEN job.left ELSE 0)
          /\ UNCHANGED <<holders, known>> /\ Busy
      BY <1>10 DEF Cancel, TypeOK, JobType
    <2>2. CASE At("post")
      <3>1. \A p : WillClean(p)' = WillClean(p)
        BY <2>1, <2>2 DEF WillClean, Busy, At
      <3>2. QED
        BY <2>1, <3>1 DEF KnownInv
    <2>3. CASE ~At("post")
      BY <2>1, <2>3, KnownMoves
    <2>4. QED
      BY <2>2, <2>3
  <1>11. CASE LetsGo
    <2>1. /\ UNCHANGED <<job, known>>
          /\ \A p \in Paths : holders'[p] # {} => holders[p] # {}
      BY <1>11 DEF LetsGo, TypeOK
    <2>2. \A p : WillClean(p)' = WillClean(p)
      BY <2>1 DEF WillClean, Busy, At
    <2>3. QED
      BY <2>1, <2>2 DEF KnownInv
  <1>12. CASE UNCHANGED vars
    BY <1>12 DEF vars, KnownInv, WillClean, Busy, At
  <1>13. QED
    BY <1>1, <1>2, <1>3, <1>4, <1>5, <1>6, <1>7, <1>8, <1>9, <1>10, <1>11, <1>12
       DEF Next, JobStep, Over

(***************************************************************************)
(* What is uploaded.                                                       *)
(***************************************************************************)
(* A job that is clean uploads its own, and only such a job publishes.     *)
LEMMA UploadNext ==
  ASSUME TypeOK, OrderInv, OwnInv, OnlyOwnFiles, [Next]_vars
  PROVE  OnlyOwnFiles'
  <1>1. CASE UNCHANGED uploads
    BY <1>1 DEF OnlyOwnFiles
  <1>2. CASE Publish
    <2>1. Busy /\ job.at > 2 /\ count \in Jobs /\ Going
      BY <1>2, WorkAdvances DEF OrderInv, Publish, Ordinary
    <2>2. job.cleaned
      BY <2>1 DEF OrderInv
    <2>3. files["artifact"] \subseteq {count} /\ job.used \subseteq {count}
      BY <2>1, <2>2, OwnPaths DEF Common
    <2>4. \A u \in uploads' \ uploads : u.by = count /\ u.of = files["artifact"] \union job.used
      BY <1>2, <2>1, UploadsType DEF Publish, Paths
    <2>5. QED
      BY <2>3, <2>4 DEF OnlyOwnFiles
  <1>3. CASE UploadReports
    <2>1. Busy /\ count \in Jobs
      BY <1>3, WorkAdvances DEF OrderInv
    <2>2. Reports[job.kind] \in Paths
      BY DEF Reports, Paths, Kinds, TypeOK, JobType
    <2>3. \A u \in uploads' \ uploads :
             /\ u.by = count /\ u.what = "reports" /\ u.cleaned = job.cleaned
             /\ u.of = files[Reports[job.kind]] \union job.used
      BY <1>3, <2>1, <2>2, UploadsType DEF UploadReports
    <2>4. job.cleaned => files[Reports[job.kind]] \subseteq {count} /\ job.used \subseteq {count}
      BY <2>1, OwnPaths DEF Common, Reports, Kinds, TypeOK, JobType
    <2>5. QED
      BY <2>3, <2>4 DEF OnlyOwnFiles
  <1>4. QED
    BY <1>1, <1>2, <1>3 DEF Next, JobStep, Clean, Take, CheckoutOot, Skip, Cleaned, Finish,
       CreateVenv, Download, CheckoutPytorch, Move, RecordSha, Install, Work, Stage, Sweep,
       RemoveTree, GivesUp, RobocopyFails, Cancel, Lost, LetsGo, Over, vars

(***************************************************************************)
(* Theorems.                                                               *)
(***************************************************************************)
(* The invariant holds of every machine.                                   *)
THEOREM Invariance == Spec => []IInv
  <1>1. Init => IInv
    <2>1. Init => /\ OrderInv /\ SweepInv /\ RepoInv /\ OwnInv /\ PlaceInv /\ KnownInv
                  /\ OnlyOwnFiles
      BY NoJobType DEF Init, OrderInv, SweepInv, RepoInv, OwnInv, PlaceInv, KnownInv,
         OnlyOwnFiles, Busy
    <2>2. QED
      BY <2>1, TypeInit DEF IInv
  <1>2. IInv /\ [Next]_vars => IInv'
    BY TypeNext, OrderNext, SweepNext, RepoNext, OwnNext, PlaceNext, KnownNext, UploadNext
       DEF IInv
  <1>3. QED
    BY <1>1, <1>2, PTL DEF Spec

(* The variables keep to their types.                                      *)
THEOREM TypeCorrect == Spec => []TypeOK
  <1>1. IInv => TypeOK
    BY DEF IInv
  <1>2. QED
    BY <1>1, Invariance, PTL

(* No wheel is published, and no report of a job past its clean uploaded,  *)
(* that another job's files are in or went into.                           *)
THEOREM OnlyOwnFilesHolds == Spec => []OnlyOwnFiles
  <1>1. IInv => OnlyOwnFiles
    BY DEF IInv
  <1>2. QED
    BY <1>1, Invariance, PTL

(* The clean at the start of a job fails only over a tree that was with a  *)
(* lost job, or that an earlier clean said it had not removed.             *)
THEOREM OnlyKnownLeftoversHolds == Spec => OnlyKnownLeftovers
  <1> DEFINE Known == At("pre") /\ ~job.bad /\ job'.bad => Current("pre") \in known
  <1>1. IInv /\ [Next]_vars => Known
    <2>1. SUFFICES ASSUME IInv, [Next]_vars, At("pre"), ~job.bad, job'.bad
                   PROVE  Current("pre") \in known
      OBVIOUS
    <2>2. TypeOK /\ OrderInv /\ KnownInv /\ job.at = 2
      BY <2>1, AtClean DEF IInv
    <2>3. CASE CannotRemove("pre")
      <3>1. /\ job.left \in DOMAIN Removed(job.kind, "pre") /\ job.kind \in Kinds
            /\ holders[Current("pre")] # {}
        BY <2>2, <2>3, HeldFacts DEF Held, Removing, TypeOK, JobType
      <3>2. Current("pre") \in Paths
        <4>1. Removed(job.kind, "pre") \in Seq(Paths)
          BY <3>1, RemovedFacts
        <4>2. QED
          BY <3>1, <4>1, ElementOfSeq, LenProperties DEF Current
      <3>3. ~WillClean(Current("pre"))
        BY <2>2 DEF WillClean, OrderInv
      <3>4. QED
        BY <2>2, <3>1, <3>2, <3>3 DEF KnownInv
    <2>4. ASSUME NEW phase \in {"pre", "post"}, Sweep(phase) \/ RemoveTree(phase)
          PROVE  FALSE
      BY <2>1, <2>2, <2>4 DEF Sweep, RemoveTree, TypeOK, JobType
    <2>5. ASSUME CannotRemove("post") PROVE FALSE
      <3>1. At("post")
        BY <2>5, HeldFacts DEF Held, Removing, Cleaning
      <3>2. QED
        BY <2>2, <3>1, PastClean
    <2>6. CASE \/ CreateVenv \/ Install \/ Work \/ Stage \/ Download \/ Publish
               \/ UploadReports \/ CheckoutPytorch \/ Move \/ RecordSha
      BY <2>2, <2>6, WorkAdvances
    <2>7. CASE CheckoutOot
      BY <2>2, <2>7, AtClean DEF CheckoutOot, Ordinary
    <2>8. ASSUME Skip \/ Cleaned \/ Finish \/ Cancel \/ Lost \/ LetsGo \/ UNCHANGED vars
          PROVE  FALSE
      <3>1. job'.bad = job.bad \/ job' = NoJob
        <4>1. CASE Skip
          BY <4>1 DEF Skip, Passed, TypeOK, JobType
        <4>2. CASE Cleaned
          BY <4>2 DEF Cleaned, Passed, TypeOK, JobType
        <4>3. CASE Cancel
          BY <4>3 DEF Cancel, TypeOK, JobType
        <4>4. CASE Finish \/ Lost \/ LetsGo \/ UNCHANGED vars
          BY <4>4 DEF Finish, Lost, LetsGo, vars
        <4>5. QED
          BY <2>8, <4>1, <4>2, <4>3, <4>4
      <3>2. QED
        <4>1. ~NoJob.bad
          BY DEF NoJob
        <4>2. CASE job'.bad = job.bad
          BY <2>1, <4>2
        <4>3. CASE job' = NoJob
          BY <2>1, <4>1, <4>3
        <4>4. QED
          BY <3>1, <4>2, <4>3
    <2>9. ASSUME NEW kind \in Kinds, Take(kind) PROVE FALSE
      BY <2>2, <2>9 DEF Take, Busy, TypeOK, JobType
    <2>10. QED
      BY <2>1, <2>3, <2>4, <2>5, <2>6, <2>7, <2>8, <2>9
         DEF Next, JobStep, Clean, CannotRemove, Over
  <1>2. QED
    BY <1>1, Invariance, PTL DEF Spec, OnlyKnownLeftovers
================================================================================
