------------------------------ MODULE PrGate_proofs ------------------------------
(* IInv is an invariant of PrGate, for any pull requests, pipelines,       *)
(* reviewers and bounds, and with it the safety properties of the gate.    *)
EXTENDS PrGate, TLAPS

--------------------------------------------------------------------------------
(* Jobs and their results.                                                 *)

(* The gating jobs and the pipelines are jobs, and differ.                 *)
LEMMA JobNames ==
  /\ "gate" \in Jobs /\ "approval" \in Jobs /\ "authorize" \in Jobs
  /\ \A p \in Pipelines : p \in Jobs /\ p # "gate" /\ p # "approval" /\ p # "authorize"
BY GateAssumption DEF Jobs, Gating

(* SetJob changes the result of one job, to another result.                *)
LEMMA SetJobFacts ==
  ASSUME TypeOK, NEW r \in RunIds, NEW j \in Jobs, NEW result \in Results,
         SetJob(r, j, result)
  PROVE  /\ job' \in [RunIds -> [Jobs -> Results]]
         /\ \A q \in RunIds, k \in Jobs :
              job'[q][k] = IF q = r /\ k = j THEN result ELSE job[q][k]
<1>1. job \in [RunIds -> [Jobs -> Results]]
  BY DEF TypeOK
<1>2. job' = [job EXCEPT ![r] = [job[r] EXCEPT ![j] = result]]
  BY <1>1 DEF SetJob
<1> QED BY <1>1, <1>2

(* A run that enters its group leaves no other run of the PR in progress   *)
(* and touches nothing else.                                               *)
LEMMA EnterGroupFacts ==
  ASSUME TypeOK, NEW r \in RunIds, NEW pr, NEW jobs \in [Jobs -> Results],
         EnterGroup(r, pr, jobs)
  PROVE  /\ job' \in [RunIds -> [Jobs -> Results]]
         /\ job'[r] = jobs
         /\ \A q \in RunIds \ {r}, k \in Jobs :
              \/ job'[q][k] = job[q][k]
              \/ job'[q][k] = "cancelled" /\ job[q][k] \in Live /\ q <= started
         /\ \A q \in RunIds \ {r} : q <= started /\ event[q].pr = pr =>
              \A k \in Jobs : job'[q][k] \notin Live
<1>1. job \in [RunIds -> [Jobs -> Results]]
  BY DEF TypeOK
<1>2. ASSUME NEW q \in RunIds
      PROVE  /\ Cancelled(q) \in [Jobs -> Results]
             /\ \A k \in Jobs :
                  Cancelled(q)[k] = IF job[q][k] \in Live THEN "cancelled" ELSE job[q][k]
  BY <1>1 DEF Cancelled, Results
<1>3. job' \in [RunIds -> [Jobs -> Results]] /\ job'[r] = jobs
  BY <1>1, <1>2 DEF EnterGroup
<1>4. \A q \in RunIds \ {r} :
        job'[q] = IF InProgress(q) /\ event[q].pr = pr THEN Cancelled(q) ELSE job[q]
  BY DEF EnterGroup
<1>5. ASSUME NEW q \in RunIds \ {r}, NEW k \in Jobs
      PROVE  \/ job'[q][k] = job[q][k]
             \/ job'[q][k] = "cancelled" /\ job[q][k] \in Live /\ q <= started
  <2>1. CASE InProgress(q) /\ event[q].pr = pr
    <3>1. job'[q] = Cancelled(q)
      BY <1>4, <2>1
    <3>2. Cancelled(q)[k] = IF job[q][k] \in Live THEN "cancelled" ELSE job[q][k]
      BY <1>2
    <3>3. q <= started
      BY <2>1 DEF InProgress
    <3> QED BY <3>1, <3>2, <3>3
  <2>2. CASE ~(InProgress(q) /\ event[q].pr = pr)
    <3>1. job'[q] = job[q]
      BY <1>4, <2>2
    <3> QED BY <3>1
  <2> QED BY <2>1, <2>2
<1>6. ASSUME NEW q \in RunIds \ {r}, q <= started, event[q].pr = pr, NEW k \in Jobs
      PROVE  job'[q][k] \notin Live
  <2>1. CASE InProgress(q)
    <3>1. job'[q] = Cancelled(q)
      BY <1>4, <1>6, <2>1
    <3>2. Cancelled(q)[k] = IF job[q][k] \in Live THEN "cancelled" ELSE job[q][k]
      BY <1>2
    <3> QED BY <3>1, <3>2 DEF Live
  <2>2. CASE ~InProgress(q)
    <3>1. job'[q] = job[q]
      BY <1>4, <2>2
    <3>2. job[q][k] \notin Live
      BY <1>6, <2>2 DEF InProgress
    <3> QED BY <3>1, <3>2
  <2> QED BY <2>1, <2>2
<1> QED BY <1>3, <1>5, <1>6

(* A job starts once, after the jobs it needs have succeeded.              *)
LEMMA StartableFacts ==
  ASSUME NEW r \in RunIds, NEW j \in Jobs, Startable(r, j)
  PROVE  /\ r <= started /\ job[r][j] = "none"
         /\ j # "gate" => job[r]["gate"] = "success"
         /\ j = "authorize" => job[r]["approval"] = "success"
         /\ j \in Pipelines => job[r]["authorize"] = "success"
<1>1. r <= started /\ job[r][j] = "none" /\ \A n \in Needs[j] : job[r][n] = "success"
  BY DEF Startable, Due
<1>2. j = "approval" => Needs[j] = {"gate"}
  BY DEF Needs, Jobs, Gating
<1>3. j = "authorize" => Needs[j] = {"gate", "approval"}
  BY DEF Needs, Jobs, Gating
<1>4. j \in Pipelines => Needs[j] = {"gate", "authorize"}
  BY JobNames DEF Needs
<1> QED BY <1>1, <1>2, <1>3, <1>4, JobNames DEF Jobs, Gating

(* Whatever a re-run repeats, its jobs are none or what they were.         *)
LEMMA RestartedFacts ==
  ASSUME TypeOK, NEW r \in RunIds, NEW S
  PROVE  /\ Restarted(r, S) \in [Jobs -> Results]
         /\ \A k \in Jobs : Restarted(r, S)[k] = IF k \in S THEN "none" ELSE job[r][k]
BY DEF TypeOK, Restarted, Results

(* Where the latest review is an approval, the approver is who gave it.    *)
LEMMA LastApproval ==
  ASSUME TypeOK, NEW r \in RunIds, reviews[r] # <<>>, LastReview(r).approved
  PROVE  Approver(r) = LastReview(r).by /\ Approver(r) \in Reviewers
<1> DEFINE n == Len(reviews[r])
           Latest(i) == \A k \in Approvals(r) : k <= i
<1>1. reviews[r] \in Seq(Reviews) /\ n \in Nat \ {0}
  BY DEF TypeOK
<1>2. n \in Approvals(r) /\ Latest(n)
  BY <1>1 DEF Approvals, LastReview
<1>3. \A i \in Approvals(r) : Latest(i) => i = n
  BY <1>1, <1>2 DEF Approvals
<1>4. (CHOOSE i \in Approvals(r) : Latest(i)) = n
  BY <1>2, <1>3
<1>5. Approver(r) = reviews[r][n].by
  BY <1>4 DEF Approver
<1>6. reviews[r][n] \in Reviews
  BY <1>1
<1> QED BY <1>5, <1>6 DEF LastReview, Reviews

(* What is re-run takes along what needs it.                               *)
LEMMA NeedingFacts ==
  ASSUME NEW S \in SUBSET Jobs
  PROVE  /\ S \subseteq Needing(S)
         /\ "gate" \in Needing(S) => Jobs \subseteq Needing(S)
         /\ "approval" \in Needing(S) => "authorize" \in Needing(S)
         /\ "authorize" \in Needing(S) => Pipelines \subseteq Needing(S)
BY JobNames, Zenon DEF Needing

(* Every re-run repeats a set of jobs closed under that.                   *)
LEMMA RerunSteps ==
  ASSUME NEW r \in RunIds, RerunFailed(r) \/ RerunAll(r)
  PROVE  \E S \in SUBSET Jobs : Rerun(r, Needing(S))
<1>1. CASE RerunFailed(r)
  BY <1>1 DEF RerunFailed, Unsuccessful
<1>2. CASE RerunAll(r)
  <2>1. Needing(Jobs) = Jobs
    BY DEF Needing, Jobs, Gating
  <2> QED BY <1>2, <2>1 DEF RerunAll
<1> QED BY <1>1, <1>2

--------------------------------------------------------------------------------
(* Types.                                                                  *)

(* The initial states are well typed.                                      *)
LEMMA InitTyped == Init => TypeOK
BY GateAssumption DEF Init, TypeOK, Shas, RunIds, Results

(* Every step keeps the types.                                             *)
LEMMA StepTyped == TypeOK /\ IInv /\ [Next]_vars => TypeOK'
<1> SUFFICES ASSUME TypeOK, IInv, [Next]_vars
             PROVE  TypeOK'
  OBVIOUS
<1> USE DEF outside
<1>u. CASE UNCHANGED vars
  BY <1>u DEF TypeOK, vars
<1>s. ASSUME NEW r \in RunIds, NEW j \in Jobs, NEW result \in Results, SetJob(r, j, result),
             UNCHANGED <<head, mode, started, event, reruns>>,
             output' \in [RunIds -> Outputs \union {None}],
             reviews' \in [RunIds -> Seq(Reviews)],
             record' \in [RunIds -> Records \union {None}],
             ref' \in [RunIds -> [Pipelines -> Shas \union {None}]]
      PROVE  TypeOK'
  BY <1>s, SetJobFacts DEF TypeOK
<1>k. output' = output => output' \in [RunIds -> Outputs \union {None}]
  BY DEF TypeOK
<1>v. reviews' = reviews => reviews' \in [RunIds -> Seq(Reviews)]
  BY DEF TypeOK
<1>d. record' = record => record' \in [RunIds -> Records \union {None}]
  BY DEF TypeOK
<1>f. ref' = ref => ref' \in [RunIds -> [Pipelines -> Shas \union {None}]]
  BY DEF TypeOK
<1>1. ASSUME NEW r \in RunIds, NEW j \in Jobs, Skip(r, j)
      PROVE  TypeOK'
  BY <1>1, <1>s, <1>k, <1>v, <1>d, <1>f DEF Skip, Results
<1>2. ASSUME NEW r \in RunIds, NEW j \in Jobs, JobFails(r, j)
      PROVE  TypeOK'
  BY <1>2, <1>s, <1>k, <1>v, <1>d, <1>f DEF JobFails, Results
<1>3. ASSUME NEW r \in RunIds, StartGate(r)
      PROVE  TypeOK'
  BY <1>3, <1>s, <1>k, <1>v, <1>d, <1>f, JobNames DEF StartGate, Results
<1>4. ASSUME NEW r \in RunIds, NEW isOpen \in BOOLEAN, NEW onMain \in BOOLEAN,
             NEW allowlist \in SUBSET Authors, Triage(r, isOpen, onMain, allowlist)
      PROVE  TypeOK'
  <2>1. event[r] \in Events
    <3>1. job[r]["gate"] # "none"
      BY <1>4 DEF Triage
    <3>2. r <= started
      BY <3>1, JobNames DEF IInv, ControlInv, ControlOf, TypeOK, RunIds
    <3> QED BY <3>2 DEF TypeOK
  <2>2. Assessed(r) \in Shas
    BY <2>1 DEF Assessed, TypeOK, Events
  <2>3. Proceed(r, isOpen, onMain, allowlist) \in BOOLEAN
    BY DEF Proceed
  <2>4. output' \in [RunIds -> Outputs \union {None}]
    BY <1>4, <2>2, <2>3 DEF Triage, Outputs, TypeOK
  <2> QED BY <1>4, <2>4, <1>s, <1>v, <1>d, <1>f, JobNames DEF Triage, Results
<1>5. ASSUME NEW r \in RunIds, Ask(r)
      PROVE  TypeOK'
  BY <1>5, <1>s, <1>k, <1>v, <1>d, <1>f, JobNames DEF Ask, Results
<1>6. ASSUME NEW r \in RunIds, NEW by \in Reviewers, NEW approved \in BOOLEAN,
             Review(r, by, approved)
      PROVE  TypeOK'
  <2>1. output[r] \in Outputs
    BY <1>6 DEF Review, IInv, ControlInv, ControlOf, TypeOK
  <2>2. [approved |-> approved, by |-> by, sha |-> output[r].sha] \in Reviews
    BY <2>1 DEF Outputs, Reviews
  <2>3. Append(reviews[r], [approved |-> approved, by |-> by, sha |-> output[r].sha])
          \in Seq(Reviews)
    BY <2>2 DEF TypeOK
  <2>4. reviews' \in [RunIds -> Seq(Reviews)]
    BY <1>6, <2>3 DEF Review, TypeOK
  <2> QED BY <1>6, <2>4, <1>s, <1>k, <1>d, <1>f, JobNames DEF Review, Results
<1>7. ASSUME NEW r \in RunIds, NoteApproval(r)
      PROVE  TypeOK'
  BY <1>7, <1>s, <1>k, <1>v, <1>d, <1>f, JobNames DEF NoteApproval, Results
<1>8. ASSUME NEW r \in RunIds, StartAuthorize(r)
      PROVE  TypeOK'
  BY <1>8, <1>s, <1>k, <1>v, <1>d, <1>f, JobNames DEF StartAuthorize, Results
<1>9. ASSUME NEW r \in RunIds, Authorize(r)
      PROVE  TypeOK'
  <2>1. output[r] \in Outputs
    BY <1>9 DEF Authorize, IInv, ControlInv, ControlOf, TypeOK
  <2>2. Approver(r) \in Reviewers
    BY <1>9, LastApproval DEF Authorize, IInv, ControlInv, ControlOf, ReviewInv, ReviewOf
  <2>3. record' \in [RunIds -> Records \union {None}]
    BY <1>9, <2>1, <2>2 DEF Authorize, Outputs, Records, TypeOK
  <2> QED BY <1>9, <2>3, <1>s, <1>k, <1>v, <1>f, JobNames DEF Authorize, Results
<1>10. ASSUME NEW r \in RunIds, NEW p \in Pipelines, StartPipeline(r, p)
       PROVE  TypeOK'
  <2>1. output[r] \in Outputs
    BY <1>10, JobNames, StartableFacts DEF StartPipeline, IInv, ControlInv, ControlOf, TypeOK
  <2>2. ref' = [ref EXCEPT ![r] = [ref[r] EXCEPT ![p] = output[r].sha]]
    BY <1>10 DEF StartPipeline, PytorchRef, TypeOK
  <2>3. ref' \in [RunIds -> [Pipelines -> Shas \union {None}]]
    BY <2>1, <2>2 DEF Outputs, TypeOK
  <2> QED BY <1>10, <2>3, <1>s, <1>k, <1>v, <1>d, JobNames DEF StartPipeline, Results
<1>11. ASSUME NEW r \in RunIds, NEW p \in Pipelines, PipelineSucceeds(r, p)
       PROVE  TypeOK'
  BY <1>11, <1>s, <1>k, <1>v, <1>d, <1>f, JobNames DEF PipelineSucceeds, Results
<1>12. ASSUME NEW r \in RunIds, NEW S, Rerun(r, S)
       PROVE  TypeOK'
  <2>1. job' \in [RunIds -> [Jobs -> Results]]
    BY <1>12, RestartedFacts, EnterGroupFacts DEF Rerun
  <2>2. output' \in [RunIds -> Outputs \union {None}]
    BY <1>12 DEF Rerun, TypeOK
  <2>3. reruns' \in 0..MaxReruns
    BY <1>12, GateAssumption DEF Rerun, TypeOK
  <2> QED BY <1>12, <2>1, <2>2, <2>3 DEF Rerun, TypeOK
<1>13. ASSUME NEW e \in Events, Dispatch(e)
       PROVE  TypeOK'
  <2>1. started + 1 \in RunIds /\ started' = started + 1 /\ started' \in 0..MaxRuns
    BY <1>13, GateAssumption DEF Dispatch, TypeOK, RunIds
  <2>2. job' \in [RunIds -> [Jobs -> Results]]
    <3>1. [j \in Jobs |-> "none"] \in [Jobs -> Results]
      BY DEF Results
    <3> QED BY <1>13, <2>1, <3>1, EnterGroupFacts DEF Dispatch
  <2>3. /\ event' \in [RunIds -> Events \union {None}]
        /\ \A r \in RunIds : r <= started' => event'[r] # None
    BY <1>13, <2>1, GateAssumption DEF Dispatch, TypeOK, RunIds
  <2> QED BY <1>13, <2>1, <2>2, <2>3 DEF Dispatch, TypeOK
<1>14. ASSUME NEW p \in PRs, Push(p)
       PROVE  TypeOK'
  BY <1>14, GateAssumption DEF Push, TypeOK, Shas
<1>15. CASE SetMode
  BY <1>15 DEF SetMode, TypeOK
<1> QED
  BY <1>u, <1>1, <1>2, <1>3, <1>4, <1>5, <1>6, <1>7, <1>8, <1>9, <1>10, <1>11, <1>12, <1>13,
     <1>14, <1>15 DEF Next, RunStep, Outside, RerunFailed, RerunAll

--------------------------------------------------------------------------------
(* The order of the jobs.                                                  *)

(* Every step keeps what a job that has run says of the jobs it needs.     *)
LEMMA StepControl == TypeOK /\ IInv /\ [Next]_vars => ControlInv'
<1> SUFFICES ASSUME TypeOK, IInv, [Next]_vars
             PROVE  ControlInv'
  OBVIOUS
<1> USE JobNames DEF IInv, outside
<1>u. CASE UNCHANGED vars
  BY <1>u DEF ControlInv, ControlOf, vars
<1>s. ASSUME NEW r \in RunIds, NEW j \in Jobs, NEW result \in Results, SetJob(r, j, result),
             UNCHANGED <<started, output, ref>>, r <= started, job[r][j] # "success",
             j = "gate" => result # "success",
             j = "approval" /\ result \in {"waiting", "running", "success"} =>
               job[r]["gate"] = "success",
             j = "authorize" /\ result \in {"running", "success"} =>
               job[r]["approval"] = "success",
             j \in Pipelines /\ result = "running" => job[r]["authorize"] = "success"
      PROVE  ControlInv'
  BY <1>s, SetJobFacts DEF ControlInv, ControlOf, TypeOK, RunIds
<1>a. ASSUME NEW r \in RunIds, NEW j \in Jobs, job[r][j] # "none"
      PROVE  r <= started
  BY <1>a DEF ControlInv, ControlOf, TypeOK, RunIds
<1>1. ASSUME NEW r \in RunIds, NEW j \in Jobs, Skip(r, j)
      PROVE  ControlInv'
  BY <1>1, <1>s DEF Skip, Due, Results
<1>2. ASSUME NEW r \in RunIds, NEW j \in Jobs, JobFails(r, j)
      PROVE  ControlInv'
  BY <1>2, <1>s, <1>a DEF JobFails, Results
<1>3. ASSUME NEW r \in RunIds, StartGate(r)
      PROVE  ControlInv'
  BY <1>3, <1>s, StartableFacts DEF StartGate, Results
<1>4. ASSUME NEW r \in RunIds, NEW isOpen \in BOOLEAN, NEW onMain \in BOOLEAN,
             NEW allowlist \in SUBSET Authors, Triage(r, isOpen, onMain, allowlist)
      PROVE  ControlInv'
  <2>1. r <= started /\ SetJob(r, "gate", "success") /\ "success" \in Results
    BY <1>4, <1>a DEF Triage, Results
  <2>2. output'[r] # None /\ \A q \in RunIds \ {r} : output'[q] = output[q]
    <3>1. Assessed(r) \in Shas /\ Proceed(r, isOpen, onMain, allowlist) \in BOOLEAN
      BY <2>1 DEF Assessed, TypeOK, Events, Proceed
    <3> QED BY <1>4, <3>1, GateAssumption DEF Triage, Outputs, TypeOK
  <2>3. \A q \in RunIds, k \in Jobs :
          job'[q][k] = IF q = r /\ k = "gate" THEN "success" ELSE job[q][k]
    BY <2>1, SetJobFacts
  <2> QED BY <1>4, <2>1, <2>2, <2>3 DEF ControlInv, ControlOf, Triage, TypeOK, RunIds
<1>5. ASSUME NEW r \in RunIds, Ask(r)
      PROVE  ControlInv'
  BY <1>5, <1>s, StartableFacts DEF Ask, Results
<1>6. ASSUME NEW r \in RunIds, NEW by \in Reviewers, NEW approved \in BOOLEAN,
             Review(r, by, approved)
      PROVE  ControlInv'
  BY <1>6, <1>s, <1>a DEF Review, Results, ControlInv, ControlOf
<1>7. ASSUME NEW r \in RunIds, NoteApproval(r)
      PROVE  ControlInv'
  BY <1>7, <1>s, <1>a DEF NoteApproval, Results, ControlInv, ControlOf
<1>8. ASSUME NEW r \in RunIds, StartAuthorize(r)
      PROVE  ControlInv'
  BY <1>8, <1>s, StartableFacts DEF StartAuthorize, Results
<1>9. ASSUME NEW r \in RunIds, Authorize(r)
      PROVE  ControlInv'
  BY <1>9, <1>s, <1>a DEF Authorize, Results, ControlInv, ControlOf
<1>10. ASSUME NEW r \in RunIds, NEW p \in Pipelines, StartPipeline(r, p)
       PROVE  ControlInv'
  <2>1. SetJob(r, p, "running") /\ "running" \in Results
    BY <1>10 DEF StartPipeline, Results
  <2>2. r <= started /\ job[r]["authorize"] = "success" /\ job[r][p] = "none"
    BY <1>10, StartableFacts DEF StartPipeline
  <2>3. \A q \in RunIds, k \in Jobs :
          job'[q][k] = IF q = r /\ k = p THEN "running" ELSE job[q][k]
    BY <2>1, SetJobFacts
  <2>4. \A q \in RunIds : q > started => ref'[q] = ref[q]
    BY <1>10, <2>2 DEF StartPipeline, TypeOK, RunIds
  <2> QED BY <1>10, <2>2, <2>3, <2>4 DEF ControlInv, ControlOf, StartPipeline
<1>11. ASSUME NEW r \in RunIds, NEW p \in Pipelines, PipelineSucceeds(r, p)
       PROVE  ControlInv'
  BY <1>11, <1>s, <1>a DEF PipelineSucceeds, Results
<1>12. ASSUME NEW r \in RunIds, NEW S \in SUBSET Jobs, Rerun(r, Needing(S))
       PROVE  ControlInv'
  <2> DEFINE T == Needing(S)
  <2>1. r <= started /\ \A k \in Jobs : job[r][k] \notin Live
    BY <1>12 DEF Rerun, Over
  <2>2. /\ \A k \in Jobs : job'[r][k] = IF k \in T THEN "none" ELSE job[r][k]
        /\ \A q \in RunIds \ {r}, k \in Jobs :
             \/ job'[q][k] = job[q][k]
             \/ job'[q][k] = "cancelled" /\ job[q][k] \in Live /\ q <= started
    BY <1>12, RestartedFacts, EnterGroupFacts DEF Rerun
  <2>3. /\ "gate" \in T => Jobs \subseteq T
        /\ "approval" \in T => "authorize" \in T
        /\ "authorize" \in T => Pipelines \subseteq T
    BY NeedingFacts
  <2>4. /\ output'[r] = IF "gate" \in T THEN None ELSE output[r]
        /\ \A q \in RunIds \ {r} : output'[q] = output[q]
    BY <1>12 DEF Rerun, TypeOK
  <2>5. UNCHANGED <<started, ref>>
    BY <1>12 DEF Rerun
  <2>6. ASSUME NEW q \in RunIds, q # r
        PROVE  ControlOf(q)'
    <3>1. ControlOf(q)
      BY DEF ControlInv
    <3>2. output'[q] = output[q] /\ ref'[q] = ref[q] /\ started' = started
      BY <2>4, <2>5, <2>6
    <3>3. \A k \in Jobs :
            \/ job'[q][k] = job[q][k]
            \/ job'[q][k] = "cancelled" /\ job[q][k] \in Live /\ q <= started
      BY <2>2, <2>6
    <3> QED BY <3>1, <3>2, <3>3 DEF ControlOf, Live, TypeOK, RunIds
  <2>7. ControlOf(r)'
    <3>1. ControlOf(r)
      BY DEF ControlInv
    <3>2. ~(r > started')
      BY <2>1, <2>5 DEF TypeOK, RunIds
    <3> QED BY <2>1, <2>2, <2>3, <2>4, <2>5, <3>1, <3>2 DEF ControlOf, Live
  <2> QED BY <2>6, <2>7 DEF ControlInv
<1>13. ASSUME NEW e \in Events, Dispatch(e)
       PROVE  ControlInv'
  <2>1. started + 1 \in RunIds /\ started' = started + 1 /\ UNCHANGED <<output, ref>>
    BY <1>13, GateAssumption DEF Dispatch, TypeOK, RunIds
  <2> PICK n \in RunIds : n = started + 1
    BY <2>1
  <2>2. /\ \A k \in Jobs : job'[n][k] = "none"
        /\ \A q \in RunIds \ {n}, k \in Jobs :
             \/ job'[q][k] = job[q][k]
             \/ job'[q][k] = "cancelled" /\ job[q][k] \in Live /\ q <= started
    <3>1. [j \in Jobs |-> "none"] \in [Jobs -> Results]
      BY DEF Results
    <3> QED BY <1>13, <2>1, <3>1, EnterGroupFacts DEF Dispatch
  <2>3. \A k \in Jobs : job[n][k] = "none"
    <3>1. n > started
      BY GateAssumption DEF TypeOK
    <3>2. ControlOf(n)
      BY <2>1 DEF ControlInv
    <3> QED BY <3>1, <3>2 DEF ControlOf
  <2>4. ControlOf(n)'
    <3>1. ~(n > started')
      BY <2>1, GateAssumption DEF TypeOK
    <3>2. ControlOf(n)
      BY <2>1 DEF ControlInv
    <3> QED BY <2>1, <2>2, <2>3, <3>1, <3>2 DEF ControlOf
  <2>5. ASSUME NEW q \in RunIds, q # n
        PROVE  ControlOf(q)'
    <3>1. ControlOf(q)
      BY DEF ControlInv
    <3>2. q > started' => q > started
      BY <2>1, GateAssumption DEF TypeOK, RunIds
    <3>3. \A k \in Jobs :
            \/ job'[q][k] = job[q][k]
            \/ job'[q][k] = "cancelled" /\ job[q][k] \in Live /\ q <= started
      BY <2>2, <2>5
    <3> QED BY <2>1, <3>1, <3>2, <3>3 DEF ControlOf, Live, TypeOK, RunIds
  <2> QED BY <2>4, <2>5 DEF ControlInv
<1>14. ASSUME NEW p \in PRs, Push(p)
       PROVE  ControlInv'
  BY <1>14 DEF Push, ControlInv, ControlOf
<1>15. CASE SetMode
  BY <1>15 DEF SetMode, ControlInv, ControlOf
<1> QED
  BY <1>u, <1>1, <1>2, <1>3, <1>4, <1>5, <1>6, <1>7, <1>8, <1>9, <1>10, <1>11, <1>12, <1>13,
     <1>14, <1>15, RerunSteps DEF Next, RunStep, Outside

--------------------------------------------------------------------------------
(* Reviews and records.                                                    *)

(* The initial states satisfy the invariant.                               *)
LEMMA InitIInv == Init => IInv
<1> SUFFICES ASSUME Init
             PROVE  IInv
  OBVIOUS
<1>1. TypeOK
  BY InitTyped
<1>2. ControlInv
  BY JobNames, GateAssumption DEF Init, ControlInv, ControlOf
<1>3. ReviewInv
  BY JobNames DEF Init, ReviewInv, ReviewOf
<1>4. HeadInv
  BY DEF Init, HeadInv, HeadOf, OrderOf, RunIds
<1> QED BY <1>1, <1>2, <1>3, <1>4 DEF IInv

(* Every step keeps what reviews and records say of the assessed commit.   *)
LEMMA StepReview == TypeOK /\ IInv /\ [Next]_vars => ReviewInv'
<1> SUFFICES ASSUME TypeOK, IInv, [Next]_vars
             PROVE  ReviewInv'
  OBVIOUS
<1> USE JobNames DEF IInv, outside
<1>u. CASE UNCHANGED vars
  BY <1>u DEF ReviewInv, ReviewOf, LastReview, vars
<1>s. ASSUME NEW r \in RunIds, NEW j \in Jobs, NEW result \in Results, SetJob(r, j, result),
             UNCHANGED <<output, reviews, record, ref>>,
             j = "approval" /\ result \in {"running", "success"} =>
               job[r]["approval"] \in {"running", "success"},
             j = "authorize" => result # "success",
             j \in Pipelines => result # "running"
      PROVE  ReviewInv'
  <2>1. \A q \in RunIds, k \in Jobs :
          job'[q][k] = IF q = r /\ k = j THEN result ELSE job[q][k]
    BY <1>s, SetJobFacts
  <2>2. ASSUME NEW q \in RunIds
        PROVE  ReviewOf(q)'
    <3>1. ReviewOf(q)
      BY DEF ReviewInv
    <3>2. /\ job'[q]["approval"] \in {"running", "success"} =>
               job[q]["approval"] \in {"running", "success"}
          /\ job'[q]["authorize"] = "success" => job[q]["authorize"] = "success"
          /\ \A p \in Pipelines : job'[q][p] = "running" => job[q][p] = "running"
      BY <1>s, <2>1
    <3> QED BY <1>s, <3>1, <3>2 DEF ReviewOf, LastReview
  <2> QED BY <2>2 DEF ReviewInv
<1>1. ASSUME NEW r \in RunIds, NEW j \in Jobs, Skip(r, j)
      PROVE  ReviewInv'
  BY <1>1, <1>s DEF Skip, Results
<1>2. ASSUME NEW r \in RunIds, NEW j \in Jobs, JobFails(r, j)
      PROVE  ReviewInv'
  BY <1>2, <1>s DEF JobFails, Results
<1>3. ASSUME NEW r \in RunIds, StartGate(r)
      PROVE  ReviewInv'
  BY <1>3, <1>s DEF StartGate, Results
<1>4. ASSUME NEW r \in RunIds, NEW isOpen \in BOOLEAN, NEW onMain \in BOOLEAN,
             NEW allowlist \in SUBSET Authors, Triage(r, isOpen, onMain, allowlist)
      PROVE  ReviewInv'
  <2>1. \A q \in RunIds, k \in Jobs :
          job'[q][k] = IF q = r /\ k = "gate" THEN "success" ELSE job[q][k]
    BY <1>4, SetJobFacts DEF Triage, Results
  <2>2. \A q \in RunIds \ {r} : output'[q] = output[q]
    BY <1>4 DEF Triage, TypeOK
  <2>3. /\ job[r]["approval"] \notin {"running", "success"}
        /\ job[r]["authorize"] # "success"
        /\ \A p \in Pipelines : job[r][p] # "running"
    BY <1>4 DEF Triage, ControlInv, ControlOf
  <2> QED BY <1>4, <2>1, <2>2, <2>3 DEF Triage, ReviewInv, ReviewOf, LastReview
<1>5. ASSUME NEW r \in RunIds, Ask(r)
      PROVE  ReviewInv'
  BY <1>5, <1>s DEF Ask, Results
<1>6. ASSUME NEW r \in RunIds, NEW by \in Reviewers, NEW approved \in BOOLEAN,
             Review(r, by, approved)
      PROVE  ReviewInv'
  <2> DEFINE review == [approved |-> approved, by |-> by, sha |-> output[r].sha]
             result == IF approved THEN "running" ELSE "failure"
  <2>1. \A q \in RunIds, k \in Jobs :
          job'[q][k] = IF q = r /\ k = "approval" THEN result ELSE job[q][k]
    BY <1>6, SetJobFacts DEF Review, Results
  <2>2. reviews'[r] = Append(reviews[r], review) /\ \A q \in RunIds \ {r} : reviews'[q] = reviews[q]
    BY <1>6 DEF Review, TypeOK
  <2>3. reviews'[r] # <<>> /\ LastReview(r)' = review
    <3>1. reviews[r] \in Seq(Reviews)
      BY DEF TypeOK
    <3>2. review \in Reviews
      BY <1>6 DEF Review, ControlInv, ControlOf, TypeOK, Outputs, Reviews
    <3> HIDE DEF review
    <3> QED BY <2>2, <3>1, <3>2 DEF LastReview
  <2>4. job[r]["authorize"] # "success" /\ \A p \in Pipelines : job[r][p] # "running"
    BY <1>6 DEF Review, ControlInv, ControlOf
  <2>5. ReviewOf(r)'
    BY <1>6, <2>1, <2>3, <2>4 DEF Review, ReviewOf
  <2>6. ASSUME NEW q \in RunIds, q # r
        PROVE  ReviewOf(q)'
    BY <1>6, <2>1, <2>2, <2>6 DEF Review, ReviewInv, ReviewOf, LastReview
  <2> QED BY <2>5, <2>6 DEF ReviewInv
<1>7. ASSUME NEW r \in RunIds, NoteApproval(r)
      PROVE  ReviewInv'
  BY <1>7, <1>s DEF NoteApproval, Results
<1>8. ASSUME NEW r \in RunIds, StartAuthorize(r)
      PROVE  ReviewInv'
  BY <1>8, <1>s DEF StartAuthorize, Results
<1>9. ASSUME NEW r \in RunIds, Authorize(r)
      PROVE  ReviewInv'
  <2>1. \A q \in RunIds, k \in Jobs :
          job'[q][k] = IF q = r /\ k = "authorize" THEN "success" ELSE job[q][k]
    BY <1>9, SetJobFacts DEF Authorize, Results
  <2>2. /\ output[r] \in Outputs
        /\ reviews[r] # <<>> /\ LastReview(r).approved
        /\ Approver(r) = LastReview(r).by /\ Approver(r) \in Reviewers
    BY <1>9, LastApproval DEF Authorize, ControlInv, ControlOf, ReviewInv, ReviewOf, TypeOK
  <2>3. PICK by \in {Unknown, LastReview(r).by} :
          record' = [record EXCEPT ![r] = [by |-> by, sha |-> output[r].sha]]
    BY <1>9, <2>2 DEF Authorize
  <2>4. [by |-> by, sha |-> output[r].sha] \in Records
    BY <2>2, <2>3 DEF Records, Outputs
  <2>5. /\ record'[r] # None /\ record'[r].sha = output[r].sha
        /\ record'[r].by # Unknown => record'[r].by = LastReview(r).by
        /\ \A q \in RunIds \ {r} : record'[q] = record[q]
    BY <2>3, <2>4, GateAssumption DEF TypeOK
  <2> QED BY <1>9, <2>1, <2>5 DEF Authorize, ReviewInv, ReviewOf, LastReview
<1>10. ASSUME NEW r \in RunIds, NEW p \in Pipelines, StartPipeline(r, p)
       PROVE  ReviewInv'
  <2>1. \A q \in RunIds, k \in Jobs :
          job'[q][k] = IF q = r /\ k = p THEN "running" ELSE job[q][k]
    BY <1>10, SetJobFacts DEF StartPipeline, Results
  <2>2. /\ ref'[r][p] = output[r].sha
        /\ \A q \in RunIds, k \in Pipelines : q # r \/ k # p => ref'[q][k] = ref[q][k]
    BY <1>10 DEF StartPipeline, PytorchRef, TypeOK
  <2> QED BY <1>10, <2>1, <2>2 DEF StartPipeline, ReviewInv, ReviewOf, LastReview
<1>11. ASSUME NEW r \in RunIds, NEW p \in Pipelines, PipelineSucceeds(r, p)
       PROVE  ReviewInv'
  BY <1>11, <1>s DEF PipelineSucceeds, Results
<1>12. ASSUME NEW r \in RunIds, NEW S \in SUBSET Jobs, Rerun(r, Needing(S))
       PROVE  ReviewInv'
  <2> DEFINE T == Needing(S)
  <2>1. \A k \in Jobs : job[r][k] \notin Live
    BY <1>12 DEF Rerun, Over
  <2>2. /\ \A k \in Jobs : job'[r][k] = IF k \in T THEN "none" ELSE job[r][k]
        /\ \A q \in RunIds \ {r}, k \in Jobs : job'[q][k] = job[q][k] \/ job'[q][k] = "cancelled"
    BY <1>12, RestartedFacts, EnterGroupFacts DEF Rerun
  <2>3. "gate" \in T => Jobs \subseteq T
    BY NeedingFacts
  <2>4. /\ "gate" \notin T => output'[r] = output[r]
        /\ \A q \in RunIds \ {r} : output'[q] = output[q]
        /\ UNCHANGED <<reviews, record, ref>>
    BY <1>12 DEF Rerun, TypeOK
  <2>5. ReviewOf(r)'
    BY <2>1, <2>2, <2>3, <2>4 DEF ReviewInv, ReviewOf, LastReview, Live
  <2>6. ASSUME NEW q \in RunIds, q # r
        PROVE  ReviewOf(q)'
    BY <2>2, <2>4, <2>6 DEF ReviewInv, ReviewOf, LastReview
  <2> QED BY <2>5, <2>6 DEF ReviewInv
<1>13. ASSUME NEW e \in Events, Dispatch(e)
       PROVE  ReviewInv'
  <2>1. started + 1 \in RunIds /\ UNCHANGED <<output, reviews, record, ref>>
    BY <1>13, GateAssumption DEF Dispatch, TypeOK, RunIds
  <2>2. \A q \in RunIds, k \in Jobs :
          job'[q][k] = job[q][k] \/ job'[q][k] \in {"none", "cancelled"}
    <3>1. [j \in Jobs |-> "none"] \in [Jobs -> Results]
      BY DEF Results
    <3> QED BY <1>13, <2>1, <3>1, EnterGroupFacts DEF Dispatch
  <2>3. \A q \in RunIds, k \in Jobs :
          job'[q][k] \in {"running", "success"} => job[q][k] = job'[q][k]
    BY <2>2
  <2> QED BY <2>1, <2>3 DEF ReviewInv, ReviewOf, LastReview
<1>14. ASSUME NEW p \in PRs, Push(p)
       PROVE  ReviewInv'
  BY <1>14 DEF Push, ReviewInv, ReviewOf, LastReview
<1>15. CASE SetMode
  BY <1>15 DEF SetMode, ReviewInv, ReviewOf, LastReview
<1> QED
  BY <1>u, <1>1, <1>2, <1>3, <1>4, <1>5, <1>6, <1>7, <1>8, <1>9, <1>10, <1>11, <1>12, <1>13,
     <1>14, <1>15, RerunSteps DEF Next, RunStep, Outside

--------------------------------------------------------------------------------
(* Heads.                                                                  *)

(* What a run in progress does to its jobs brings no run back to life.     *)
LEMMA SetJobProgress ==
  ASSUME TypeOK, NEW r \in RunIds, NEW j \in Jobs, NEW result \in Results,
         SetJob(r, j, result), r <= started, job[r][j] \in Live, started' = started,
         NEW q \in RunIds
  PROVE  /\ InProgress(q)' => InProgress(q)
         /\ Over(q) => Over(q)' /\ q # r
<1>1. \A k \in Jobs : job'[q][k] = IF q = r /\ k = j THEN result ELSE job[q][k]
  BY SetJobFacts
<1>2. CASE q = r
  BY <1>2 DEF InProgress, Over
<1>3. CASE q # r
  BY <1>1, <1>3 DEF InProgress, Over
<1> QED BY <1>2, <1>3

(* Every step keeps the order of heads and runs.                           *)
LEMMA StepHead == TypeOK /\ IInv /\ [Next]_vars => HeadInv'
<1> SUFFICES ASSUME TypeOK, IInv, [Next]_vars
             PROVE  HeadInv'
  OBVIOUS
<1> USE JobNames DEF IInv, outside
<1>u. CASE UNCHANGED vars
  BY <1>u DEF HeadInv, HeadOf, OrderOf, InProgress, Over, vars
<1>s. ASSUME NEW r \in RunIds, NEW j \in Jobs, NEW result \in Results, SetJob(r, j, result),
             r <= started, job[r][j] \in Live,
             UNCHANGED <<head, started, event, output, ref, reruns>>
      PROVE  HeadInv'
  <2>1. ASSUME NEW q \in RunIds
        PROVE  HeadOf(q)'
    BY <1>s, <2>1 DEF HeadInv, HeadOf
  <2>2. ASSUME NEW q \in RunIds, NEW s \in RunIds
        PROVE  OrderOf(q, s)'
    BY <1>s, <2>2, SetJobProgress DEF HeadInv, OrderOf
  <2> QED BY <2>1, <2>2 DEF HeadInv
<1>a. ASSUME NEW r \in RunIds, NEW j \in Jobs, job[r][j] # "none"
      PROVE  r <= started
  BY <1>a DEF ControlInv, ControlOf, TypeOK, RunIds
<1>1. ASSUME NEW r \in RunIds, NEW j \in Jobs, Skip(r, j)
      PROVE  HeadInv'
  BY <1>1, <1>s DEF Skip, Due, Results, Live
<1>2. ASSUME NEW r \in RunIds, NEW j \in Jobs, JobFails(r, j)
      PROVE  HeadInv'
  BY <1>2, <1>s, <1>a DEF JobFails, Results, Live
<1>3. ASSUME NEW r \in RunIds, StartGate(r)
      PROVE  HeadInv'
  BY <1>3, <1>s, StartableFacts DEF StartGate, Results, Live
<1>4. ASSUME NEW r \in RunIds, NEW isOpen \in BOOLEAN, NEW onMain \in BOOLEAN,
             NEW allowlist \in SUBSET Authors, Triage(r, isOpen, onMain, allowlist)
      PROVE  HeadInv'
  <2>1. /\ r <= started /\ SetJob(r, "gate", "success") /\ "success" \in Results
        /\ job[r]["gate"] \in Live
        /\ UNCHANGED <<head, started, event, ref, reruns>>
    BY <1>4, <1>a DEF Triage, Results, Live
  <2>2. InProgress(r)
    BY <2>1 DEF InProgress
  <2>3. /\ output'[r] # None /\ output'[r].sha = head[event[r].pr]
        /\ \A q \in RunIds \ {r} : output'[q] = output[q]
    <3>1. Assessed(r) \in Shas /\ Proceed(r, isOpen, onMain, allowlist) \in BOOLEAN
      BY <2>1 DEF Assessed, TypeOK, Events, Proceed
    <3> QED BY <1>4, <3>1, GateAssumption DEF Triage, Outputs, TypeOK, Assessed
  <2>4. output[r] = None
    BY <1>4 DEF Triage, ControlInv, ControlOf
  <2>5. \A q \in RunIds : q <= started => event[q].pr \in PRs /\ head[event[q].pr] \in Nat
    BY DEF TypeOK, Events, Shas
  <2>6. ASSUME NEW q \in RunIds
        PROVE  HeadOf(q)'
    BY <2>1, <2>3, <2>4, <2>5, <2>6 DEF HeadInv, HeadOf
  <2>7. ASSUME NEW q \in RunIds, NEW s \in RunIds
        PROVE  OrderOf(q, s)'
    <3>1. /\ InProgress(q)' => InProgress(q)
          /\ InProgress(s)' => InProgress(s)
          /\ Over(q) => Over(q)' /\ q # r
      BY <2>1, SetJobProgress
    <3>2. q < s /\ s <= started => q <= started
      BY DEF RunIds, TypeOK
    <3>3. HeadOf(q) /\ OrderOf(q, s)
      BY DEF HeadInv
    <3> QED BY <2>1, <2>3, <3>1, <3>2, <3>3 DEF HeadOf, OrderOf
  <2> QED BY <2>6, <2>7 DEF HeadInv
<1>5. ASSUME NEW r \in RunIds, Ask(r)
      PROVE  HeadInv'
  BY <1>5, <1>s, StartableFacts DEF Ask, Results, Live
<1>6. ASSUME NEW r \in RunIds, NEW by \in Reviewers, NEW approved \in BOOLEAN,
             Review(r, by, approved)
      PROVE  HeadInv'
  BY <1>6, <1>s, <1>a DEF Review, Results, Live
<1>7. ASSUME NEW r \in RunIds, NoteApproval(r)
      PROVE  HeadInv'
  BY <1>7, <1>s, <1>a DEF NoteApproval, Results, Live
<1>8. ASSUME NEW r \in RunIds, StartAuthorize(r)
      PROVE  HeadInv'
  BY <1>8, <1>s, StartableFacts DEF StartAuthorize, Results, Live
<1>9. ASSUME NEW r \in RunIds, Authorize(r)
      PROVE  HeadInv'
  BY <1>9, <1>s, <1>a DEF Authorize, Results, Live
<1>10. ASSUME NEW r \in RunIds, NEW p \in Pipelines, StartPipeline(r, p)
       PROVE  HeadInv'
  <2>1. /\ r <= started /\ job[r][p] \in Live /\ job[r]["gate"] = "success"
        /\ SetJob(r, p, "running") /\ "running" \in Results
        /\ UNCHANGED <<head, started, event, output, reruns>>
    BY <1>10, StartableFacts DEF StartPipeline, Results, Live
  <2>2. /\ ref'[r][p] = output[r].sha
        /\ \A q \in RunIds, k \in Pipelines : q # r \/ k # p => ref'[q][k] = ref[q][k]
    BY <1>10 DEF StartPipeline, PytorchRef, TypeOK
  <2>3. output[r] # None
    BY <2>1 DEF ControlInv, ControlOf
  <2>4. ASSUME NEW q \in RunIds
        PROVE  HeadOf(q)'
    BY <2>1, <2>2, <2>3 DEF HeadInv, HeadOf
  <2>5. ASSUME NEW q \in RunIds, NEW s \in RunIds
        PROVE  OrderOf(q, s)'
    BY <2>1, SetJobProgress DEF HeadInv, OrderOf
  <2> QED BY <2>4, <2>5 DEF HeadInv
<1>11. ASSUME NEW r \in RunIds, NEW p \in Pipelines, PipelineSucceeds(r, p)
       PROVE  HeadInv'
  BY <1>11, <1>s, <1>a DEF PipelineSucceeds, Results, Live
<1>12. ASSUME NEW r \in RunIds, NEW S, Rerun(r, S)
       PROVE  HeadInv'
  <2>1. /\ r <= started /\ reruns' # 0 /\ UNCHANGED <<head, started, event, ref>>
        /\ \A q \in RunIds : output'[q] # None => output'[q] = output[q]
    BY <1>12 DEF Rerun, Over, TypeOK
  <2>2. /\ \A q \in RunIds \ {r}, k \in Jobs : job'[q][k] \in Live => job[q][k] \in Live
        /\ \A q \in RunIds \ {r} : q <= started /\ event[q].pr = event[r].pr =>
             \A k \in Jobs : job'[q][k] \notin Live
    BY <1>12, RestartedFacts, EnterGroupFacts DEF Rerun, Live
  <2>3. ASSUME NEW q \in RunIds
        PROVE  HeadOf(q)'
    BY <2>1 DEF HeadInv, HeadOf
  <2>4. ASSUME NEW q \in RunIds, NEW s \in RunIds
        PROVE  OrderOf(q, s)'
    <3>1. q # r /\ InProgress(q)' => InProgress(q) /\ event[q].pr # event[r].pr
      BY <2>1, <2>2 DEF InProgress
    <3>2. s # r /\ InProgress(s)' => InProgress(s) /\ event[s].pr # event[r].pr
      BY <2>1, <2>2 DEF InProgress
    <3>3. q < s => q # s
      BY DEF RunIds
    <3> QED BY <2>1, <3>1, <3>2, <3>3 DEF HeadInv, OrderOf
  <2> QED BY <2>3, <2>4 DEF HeadInv
<1>13. ASSUME NEW e \in Events, Dispatch(e)
       PROVE  HeadInv'
  <2>1. started + 1 \in RunIds /\ started' = started + 1 /\ UNCHANGED <<head, output, ref, reruns>>
    BY <1>13, GateAssumption DEF Dispatch, TypeOK, RunIds
  <2> PICK n \in RunIds : n = started + 1
    BY <2>1
  <2>2. event'[n] = e /\ \A q \in RunIds \ {n} : event'[q] = event[q]
    BY <1>13 DEF Dispatch, TypeOK
  <2>3. /\ \A q \in RunIds \ {n}, k \in Jobs : job'[q][k] \in Live => job[q][k] \in Live
        /\ \A q \in RunIds \ {n} : q <= started /\ event[q].pr = e.pr =>
             \A k \in Jobs : job'[q][k] \notin Live
    <3>1. [j \in Jobs |-> "none"] \in [Jobs -> Results]
      BY DEF Results
    <3> QED BY <1>13, <3>1, EnterGroupFacts DEF Dispatch, Live
  <2>4. \A q \in RunIds : q # n /\ q <= started' <=> q <= started
    BY <2>1 DEF RunIds, TypeOK
  <2>5. output[n] = None /\ \A p \in Pipelines : ref[n][p] = None
    <3>1. ControlOf(n) /\ n > started
      BY DEF ControlInv, TypeOK, RunIds
    <3> QED BY <3>1 DEF ControlOf
  <2>6. ASSUME NEW q \in RunIds
        PROVE  HeadOf(q)'
    <3>1. CASE q = n
      BY <2>1, <2>5, <3>1 DEF HeadOf
    <3>2. CASE q # n
      BY <2>1, <2>2, <2>4, <3>2 DEF HeadInv, HeadOf
    <3> QED BY <3>1, <3>2
  <2>7. ASSUME NEW q \in RunIds, NEW s \in RunIds
        PROVE  OrderOf(q, s)'
    <3> SUFFICES ASSUME q < s, s <= started', event'[q].pr = event'[s].pr
                 PROVE  /\ ~(InProgress(q)' /\ InProgress(s)')
                        /\ reruns' = 0 => Over(q)'
                        /\ reruns' = 0 /\ output'[q] # None /\ output'[s] # None
                             => output'[q].sha <= output'[s].sha
      BY DEF OrderOf
    <3>1. q # n /\ q <= started /\ q <= started'
      BY <2>1 DEF RunIds, TypeOK
    <3>2. CASE s = n
      <4>1. \A k \in Jobs : job'[q][k] \notin Live
        BY <2>2, <2>3, <3>1, <3>2
      <4> QED BY <2>1, <2>5, <3>1, <3>2, <4>1 DEF InProgress, Over
    <3>3. CASE s # n
      <4>1. OrderOf(q, s) /\ s <= started /\ event[q].pr = event[s].pr
        BY <2>2, <2>4, <3>1, <3>3 DEF HeadInv
      <4>2. \A k \in Jobs : /\ job'[q][k] \in Live => job[q][k] \in Live
                            /\ job'[s][k] \in Live => job[s][k] \in Live
        BY <2>3, <3>1, <3>3
      <4> QED BY <2>1, <3>1, <4>1, <4>2 DEF OrderOf, InProgress, Over
    <3> QED BY <3>2, <3>3
  <2> QED BY <2>6, <2>7 DEF HeadInv
<1>14. ASSUME NEW p \in PRs, Push(p)
       PROVE  HeadInv'
  <2>1. /\ \A x \in PRs : head[x] \in Nat /\ head'[x] \in Nat /\ head[x] <= head'[x]
        /\ UNCHANGED <<started, event, job, output, ref, reruns>>
    BY <1>14 DEF Push, TypeOK, Shas
  <2>2. \A q \in RunIds : q <= started => event[q].pr \in PRs
    BY DEF TypeOK, Events
  <2>3. \A q \in RunIds : output[q] # None => output[q].sha \in Nat
    BY DEF TypeOK, Outputs, Shas
  <2>4. ASSUME NEW q \in RunIds
        PROVE  HeadOf(q)'
    BY <2>1, <2>2, <2>3 DEF HeadInv, HeadOf
  <2>5. ASSUME NEW q \in RunIds, NEW s \in RunIds
        PROVE  OrderOf(q, s)'
    BY <2>1 DEF HeadInv, OrderOf, InProgress, Over
  <2> QED BY <2>4, <2>5 DEF HeadInv
<1>15. CASE SetMode
  BY <1>15 DEF SetMode, HeadInv, HeadOf, OrderOf, InProgress, Over
<1> QED
  BY <1>u, <1>1, <1>2, <1>3, <1>4, <1>5, <1>6, <1>7, <1>8, <1>9, <1>10, <1>11, <1>12, <1>13,
     <1>14, <1>15, RerunSteps DEF Next, RunStep, Outside

--------------------------------------------------------------------------------
(* The properties.                                                         *)

(* IInv is an invariant.                                                   *)
THEOREM Invariance == Spec => []IInv
<1>1. IInv /\ [Next]_vars => IInv'
  BY StepTyped, StepControl, StepReview, StepHead DEF IInv
<1> QED BY <1>1, InitIInv, PTL DEF Spec

(* Every variable keeps its type.                                          *)
THEOREM TypeCorrect == Spec => []TypeOK
<1>1. IInv => TypeOK
  BY DEF IInv
<1> QED BY <1>1, Invariance, PTL

(* What builds is the commit its run's last review approved.               *)
THEOREM ApprovedOnly == Spec => []BuildsWhatWasApproved
<1>1. IInv => BuildsWhatWasApproved
  BY JobNames DEF IInv, ControlInv, ControlOf, ReviewInv, ReviewOf, BuildsWhatWasApproved
<1> QED BY <1>1, Invariance, PTL

(* What builds was recorded, under nobody else's name.                     *)
THEOREM Audited == Spec => []BuildsAreAudited
<1>1. IInv => BuildsAreAudited
  <2> SUFFICES ASSUME IInv, NEW r \in RunIds, NEW p \in Pipelines, job[r][p] = "running"
               PROVE  /\ record[r] # None /\ record[r].sha = ref[r][p]
                      /\ record[r].by # Unknown =>
                           [approved |-> TRUE, by |-> record[r].by, sha |-> ref[r][p]]
                             = LastReview(r)
    BY DEF BuildsAreAudited
  <2>1. /\ reviews[r] # <<>> /\ LastReview(r).approved /\ LastReview(r).sha = output[r].sha
        /\ record[r] # None /\ record[r].sha = output[r].sha /\ ref[r][p] = output[r].sha
        /\ record[r].by # Unknown => record[r].by = LastReview(r).by
    BY JobNames DEF IInv, ControlInv, ControlOf, ReviewInv, ReviewOf
  <2>2. LastReview(r) \in Reviews
    BY <2>1 DEF IInv, TypeOK, LastReview
  <2> QED BY <2>1, <2>2 DEF Reviews
<1> QED BY <1>1, Invariance, PTL

(* Without re-runs no later run builds an older commit.                    *)
THEOREM Forward == Spec => []NeverGoesBack
<1>1. IInv => NeverGoesBack
  <2> SUFFICES ASSUME IInv, NEW q \in RunIds, NEW r \in RunIds,
                      NEW p \in Pipelines, NEW s \in Pipelines,
                      reruns = 0, q < r, r <= started, event[q].pr = event[r].pr,
                      ref[q][p] # None, ref[r][s] # None
               PROVE  ref[q][p] <= ref[r][s]
    BY DEF NeverGoesBack
  <2>1. q <= started
    BY DEF IInv, TypeOK, RunIds
  <2>2. HeadOf(q) /\ HeadOf(r) /\ OrderOf(q, r)
    BY DEF IInv, HeadInv
  <2> QED BY <2>1, <2>2 DEF HeadOf, OrderOf
<1> QED BY <1>1, Invariance, PTL

================================================================================
