------------------------ MODULE KitmakerRelease_proofs ------------------------
(***************************************************************************)
(* Proofs about KitmakerRelease, for every set of wheels and packages,     *)
(* every order of submission and every number of attempts and polls.       *)
(***************************************************************************)
EXTENDS KitmakerRelease, TLAPS

(* Every action keeps every variable in its type; in particular an         *)
(* approval always covers every package of the release.                    *)
LEMMA TypeInit == Init => TypeOK
<1> SUFFICES ASSUME Init PROVE TypeOK
  OBVIOUS
<1> USE PublicationAssumption DEF Init, TypeOK
<1>1. inputs \in [channel : Channels, dryRun : BOOLEAN, release : BOOLEAN]
  OBVIOUS
<1>2. result \in [Jobs -> Results]
  BY DEF Results
<1>3. kit \in [Requests -> Submissions \union {Unsubmitted}]
  OBVIOUS
<1>4. seen \in [Wheels -> Listings \union {"unread"}]
  BY DEF Unread
<1>5. index \in [Wheels -> Listings]
  BY DEF Listings
<1>6. attempt \in 1..MaxAttempts /\ k \in 1..Len(Order) /\ polls \in 0..MaxPolls
  OBVIOUS
<1> QED
  BY <1>1, <1>2, <1>3, <1>4, <1>5, <1>6 DEF Jobs

(* What submit sends is a request body, in the dry run and in production.  *)
LEMMA BodyType ==
  ASSUME TypeOK, ControlInv, at = "submit" PROVE BodyToSend \in Bodies
<1> USE PublicationAssumption
<1>1. k \in 1..Len(Order) /\ Order[k] \in Packages
  BY DEF TypeOK
<1>2. CASE job = "kitmaker-release"
  <2>1. approved[Order[k]] \in Bodies
    BY <1>1, <1>2 DEF TypeOK, ControlInv
  <2> QED
    BY <1>2, <2>1 DEF BodyToSend, ProductionBody, Bodies
<1>3. CASE job # "kitmaker-release"
  BY <1>1, <1>3 DEF TypeOK, ControlInv, BodyToSend, Body, RequestBody, Bodies, KitmakerJobs
<1> QED
  BY <1>2, <1>3

(* What a submission records about a request is one of Submissions.        *)
LEMMA SubmissionType ==
  ASSUME TypeOK, ControlInv, at = "submit", Accept
  PROVE  kit' \in [Requests -> Submissions \union {Unsubmitted}]
<1>1. Current \in Requests
  BY PublicationAssumption DEF TypeOK, Current, Requests
<1>2. [status |-> "pending", body |-> BodyToSend] \in Submissions
  BY BodyType DEF Submissions
<1> QED
  BY <1>1, <1>2 DEF TypeOK, Accept

(* A job that ends, begins or refuses to begin leaves its script's         *)
(* variables in their types.                                               *)
LEMMA EndType ==
  ASSUME TypeOK, NEW r \in Results, End(r),
         approved' \in [Packages -> Bodies] \union {NoApproval},
         released' \in BOOLEAN, checked' \in BOOLEAN,
         kit' \in [Requests -> Submissions \union {Unsubmitted}],
         index' \in [Wheels -> Listings]
  PROVE  TypeOK'
  BY PublicationAssumption DEF TypeOK, End, Fresh, Unread

(* A job that starts has the types of a fresh script.                      *)
LEMMA BeginType ==
  ASSUME TypeOK, NEW j \in Jobs, NEW where \in {"before", "check"}, Begin(j, where)
  PROVE  TypeOK'
  BY PublicationAssumption DEF TypeOK, Begin, Fresh, Unread, outputs

(* A job that refuses to start only gets its result.                       *)
LEMMA RefuseType ==
  ASSUME TypeOK, NEW j \in Jobs, Refuse(j) PROVE TypeOK'
  BY PublicationAssumption DEF TypeOK, Refuse, Results, outputs, script

(* Every position up to the last names a package.                          *)
LEMMA OrderFacts ==
  ASSUME TypeOK
  PROVE  /\ Len(Order) \in Nat /\ k \in Nat /\ k \in 1..Len(Order)
         /\ k = Len(Order) => \A i \in 1..Len(Order) : i < k \/ i = k
         /\ \A i \in 1..Len(Order) : i < k + 1 => i < k \/ i = k
         /\ Order[k] \in Packages
<1>1. Len(Order) \in Nat /\ k \in 1..Len(Order)
  BY PublicationAssumption DEF TypeOK
<1>2. Order[k] \in Packages
  BY <1>1, PublicationAssumption
<1> QED
  BY <1>1, <1>2

(* The position after one that is not the last is a position too.          *)
LEMMA NextInOrder ==
  ASSUME TypeOK, k # Len(Order) PROVE k + 1 \in 1..Len(Order)
<1>1. Len(Order) \in Nat /\ k \in 1..Len(Order)
  BY PublicationAssumption DEF TypeOK
<1> HIDE DEF TypeOK
<1> QED
  BY <1>1

(* Every step keeps the types.                                             *)
LEMMA TypeStep ==
  ASSUME TypeOK, ControlInv, [Next]_vars PROVE TypeOK'
<1> USE PublicationAssumption DEF TypeOK, outputs, script, Results
<1>1. CASE \E j \in Jobs : Skip(j)
  BY <1>1 DEF Skip, Due, Startable
<1>2. CASE Gate
  <2>1. "gate" \in Jobs
    BY DEF Jobs
  <2>2. result' \in [Jobs -> Results]
    <3> HIDE DEF TypeOK
    <3>1. result \in [Jobs -> Results]
      BY DEF TypeOK
    <3>2. QED
      BY <1>2, <2>1, <3>1 DEF Gate
  <2> QED
    BY <1>2, <2>2 DEF Gate
<1>3. CASE GithubReleaseJob
  <2>1. "github-release" \in Jobs
    BY DEF Jobs
  <2>2. result' \in [Jobs -> Results]
    BY <1>3, <2>1 DEF GithubReleaseJob
  <2> QED
    BY <1>3, <2>2 DEF GithubReleaseJob
<1>4. CASE StartDryRun
  BY <1>4, BeginType, RefuseType DEF StartDryRun, Jobs
<1>5. CASE DryRunIndexRead
  <2>1. CASE Mismatched
    BY <1>5, <2>1, EndType DEF DryRunIndexRead
  <2>2. CASE ~Mismatched
    BY <1>5, <2>2 DEF DryRunIndexRead, KitmakerJobs
  <2> QED
    BY <2>1, <2>2
<1>6. CASE FinishDryRun
  <2>1. done = Packages /\ who \in Pics
    BY <1>6 DEF FinishDryRun, ControlInv, KitmakerJobs
  <2>2. \A p \in Packages : Body(p, who) \in Bodies
    BY <2>1 DEF Body, RequestBody, Bodies
  <2>3. approved' \in [Packages -> Bodies]
    BY <1>6, <2>1, <2>2 DEF FinishDryRun
  <2>4. PICK r \in Results : End(r)
    BY <1>6 DEF FinishDryRun
  <2> QED
    BY <1>6, <2>3, <2>4, EndType DEF FinishDryRun
<1>7. CASE StartRelease
  BY <1>7, BeginType, RefuseType DEF StartRelease, Jobs
<1>8. CASE ReleaseIndexRead
  <2>1. CASE End("failure")
    BY <1>8, <2>1, EndType DEF ReleaseIndexRead
  <2>2. CASE ~End("failure")
    BY <1>8, <2>2 DEF ReleaseIndexRead, KitmakerJobs, Unread
  <2> QED
    BY <2>1, <2>2
<1>9. CASE Confirmed
  BY <1>9, EndType DEF Confirmed
<1>10. CASE ConfirmAgain
  BY <1>10 DEF ConfirmAgain, MayWait, OneMore, Unread
<1>11. CASE ConfirmFailed
  BY <1>11, EndType DEF ConfirmFailed
<1>12. ASSUME NEW w \in Wheels, ReadIndex(w) PROVE TypeOK'
  BY <1>12 DEF ReadIndex
<1>13. ASSUME NEW w \in Wheels, CheckWheel(w) PROVE TypeOK'
  <2>1. PICK verdict \in Listings : seen' = [seen EXCEPT ![w] = verdict]
    BY <1>13 DEF CheckWheel, Listings
  <2> QED
    BY <1>13, <2>1 DEF CheckWheel
<1>14. CASE Submit
  BY SubmissionType, <1>14 DEF Submit
<1>15. CASE SubmitAnswerLost
  BY SubmissionType, EndType, <1>15 DEF SubmitAnswerLost
<1>16. CASE PollCompleted
  <2>1. Order[k] \in Packages
    OBVIOUS
  <2>2. CASE k = Len(Order)
    BY <1>16, <2>1, <2>2 DEF PollCompleted, AfterRequests, Unread
  <2>3. CASE k # Len(Order)
    <3>1. k' \in 1..Len(Order)
      <4> HIDE DEF TypeOK
      <4>1. k' = k + 1
        BY <1>16, <2>3 DEF PollCompleted
      <4>2. QED
        BY <2>3, <4>1, NextInOrder
    <3>2. done' \in SUBSET Packages /\ at' = "submit" /\ polls' = 0
      <4> HIDE DEF TypeOK
      <4>1. done' = done \union {Order[k]} /\ at' = "submit" /\ polls' = 0
        BY <1>16, <2>3 DEF PollCompleted
      <4>2. done \in SUBSET Packages
        BY DEF TypeOK
      <4>3. QED
        BY <2>1, <4>1, <4>2
    <3>3. at = "poll" /\ job' = job
      BY <1>16 DEF PollCompleted
    <3>4. job \in KitmakerJobs
      BY <3>3
    <3>5. 0 \in 0..MaxPolls
      BY PublicationAssumption
    <3>6. UNCHANGED <<inputs, pic, attempt, result, approved, released, checked,
                      job, who, kit, index, seen>>
      BY <1>16, <2>3 DEF PollCompleted
    <3> QED
      BY <3>1, <3>2, <3>4, <3>5, <3>6
  <2> QED
    BY <2>2, <2>3
<1>17. CASE PollFailed
  BY <1>17, EndType DEF PollFailed
<1>18. CASE PollAgain
  BY <1>18 DEF PollAgain, MayWait, OneMore
<1>19. CASE PollDeadline
  BY <1>19, EndType DEF PollDeadline
<1>20. CASE StartIndexCheck
  BY <1>20, BeginType DEF StartIndexCheck, Jobs
<1>21. CASE FinishIndexCheck
  BY <1>21, EndType DEF FinishIndexCheck, AllPresent
<1>22. CASE Interrupt
  BY <1>22, EndType DEF Interrupt
<1>23. CASE RerunFailed
  BY <1>23 DEF RerunFailed, Rerun
<1>24. CASE RerunAll
  BY <1>24 DEF RerunAll, Rerun
<1>25. CASE SetPic
  BY <1>25 DEF SetPic
<1>26. ASSUME NEW r \in Requests, KitmakerDecides(r) PROVE TypeOK'
  <2>1. kit[r] \in Submissions
    BY <1>26 DEF KitmakerDecides, Unsubmitted
  <2>2. PICK s \in {"completed", "failed"} : kit' = [kit EXCEPT ![r].status = s]
    BY <1>26 DEF KitmakerDecides
  <2>3. [kit[r] EXCEPT !.status = s] \in Submissions
    BY <2>1 DEF Submissions
  <2>4. kit' \in [Requests -> Submissions \union {Unsubmitted}]
    BY <2>2, <2>3
  <2> QED
    BY <1>26, <2>4 DEF KitmakerDecides
<1>27. ASSUME NEW r \in Requests, NEW w \in Wheels, KitmakerLists(r, w) PROVE TypeOK'
  BY <1>27 DEF KitmakerLists, Listings
<1>28. ASSUME NEW w \in Wheels, OtherPublisher(w) PROVE TypeOK'
  BY <1>28 DEF OtherPublisher, Listings
<1>29. CASE UNCHANGED vars
  BY <1>29 DEF vars
<1> QED
  BY <1>1, <1>2, <1>3, <1>4, <1>5, <1>6, <1>7, <1>8, <1>9, <1>10,
     <1>11, <1>12, <1>13, <1>14, <1>15, <1>16, <1>17, <1>18, <1>19, <1>20,
     <1>21, <1>22, <1>23, <1>24, <1>25, <1>26, <1>27, <1>28, <1>29
  DEF Next, Progress, Environment

(* The place a script has reached, its arguments and the requests it has   *)
(* completed stay consistent, across jobs and attempts.                    *)
LEMMA ControlStep ==
  ASSUME TypeOK, ControlInv, [Next]_vars PROVE ControlInv'
<1> USE PublicationAssumption DEF ControlInv, outputs, script
<1>1. CASE \E j \in Jobs : Skip(j)
  BY <1>1 DEF Skip, Due
<1>2. CASE Gate
  BY <1>2 DEF Gate, Startable, Due
<1>3. CASE GithubReleaseJob
  BY <1>3 DEF GithubReleaseJob, Startable, Due
<1>4. CASE StartDryRun
  BY <1>4 DEF StartDryRun, Startable, Due, Condition, Begin, Refuse, Fresh, KitmakerJobs, TypeOK
<1>5. CASE DryRunIndexRead
  <2>1. CASE Mismatched
    BY <1>5, <2>1 DEF DryRunIndexRead, End
  <2>2. CASE ~Mismatched
    BY <1>5, <2>2 DEF DryRunIndexRead, TypeOK
  <2> QED
    BY <2>1, <2>2
<1>6. CASE FinishDryRun
  <2>1. PICK r \in {"success", "failure"} : End(r)
    BY <1>6 DEF FinishDryRun
  <2>2. inputs' = inputs /\ at' = "rest"
    BY <2>1 DEF End
  <2>3. inputs.dryRun /\ inputs.channel # "rehearsal"
    BY <1>6 DEF FinishDryRun, KitmakerJobs
  <2> QED
    BY <2>2, <2>3
<1>7. CASE StartRelease
  BY <1>7 DEF StartRelease, ApprovalMatches, Startable, Due, Condition, Begin, Refuse, Fresh, KitmakerJobs, TypeOK
<1>8. CASE ReleaseIndexRead
  <2>1. CASE End("failure")
    BY <1>8, <2>1 DEF ReleaseIndexRead, End
  <2>2. CASE ~End("failure")
    BY <1>8, <2>2 DEF ReleaseIndexRead, TypeOK
  <2> QED
    BY <2>1, <2>2
<1>9. CASE Confirmed
  BY <1>9 DEF Confirmed, End
<1>10. CASE ConfirmAgain
  BY <1>10 DEF ConfirmAgain
<1>11. CASE ConfirmFailed
  BY <1>11 DEF ConfirmFailed, End
<1>12. ASSUME NEW w \in Wheels, ReadIndex(w) PROVE ControlInv'
  BY <1>12 DEF ReadIndex
<1>13. ASSUME NEW w \in Wheels, CheckWheel(w) PROVE ControlInv'
  BY <1>13 DEF CheckWheel
<1>14. CASE Submit
  BY <1>14 DEF Submit
<1>15. CASE SubmitAnswerLost
  BY <1>15 DEF SubmitAnswerLost, End
<1>16. CASE PollCompleted
  <2> USE DEF PollCompleted
  <2>1. \A i \in 1..Len(Order) : i < k \/ i = k => Order[i] \in done'
    BY <1>16
  <2>2. CASE k = Len(Order)
    <3>1. \A i \in 1..Len(Order) : Order[i] \in done'
      BY <2>1, <2>2, OrderFacts
    <3>2. done' = Packages
      <4>1. done' \subseteq Packages
        <5>1. done' = done \union {Order[k]}
          BY <1>16
        <5>2. done \subseteq Packages
          BY DEF TypeOK
        <5> QED
          BY <5>1, <5>2, OrderFacts
      <4>2. \A p \in Packages : p \in done'
        BY <3>1
      <4> QED
        BY <4>1, <4>2
    <3>3. job = "kitmaker-dry-run" \/ job = "kitmaker-release"
      BY <1>16 DEF TypeOK, KitmakerJobs
    <3>4. CASE job = "kitmaker-dry-run"
      BY <1>16, <2>2, <3>2, <3>4 DEF AfterRequests
    <3>5. CASE job = "kitmaker-release"
      BY <1>16, <2>2, <3>2, <3>5 DEF AfterRequests
    <3> QED
      BY <3>3, <3>4, <3>5
  <2>3. CASE k # Len(Order)
    <3>1. k' = k + 1
      BY <1>16, <2>3
    <3>2. \A i \in 1..Len(Order) : i < k' => i < k \/ i = k
      BY <3>1, OrderFacts
    <3> QED
      BY <1>16, <2>1, <2>3, <3>2
  <2> QED
    BY <2>2, <2>3
<1>17. CASE PollFailed
  BY <1>17 DEF PollFailed, End
<1>18. CASE PollAgain
  BY <1>18 DEF PollAgain
<1>19. CASE PollDeadline
  BY <1>19 DEF PollDeadline, End
<1>20. CASE StartIndexCheck
  BY <1>20 DEF StartIndexCheck, Startable, Due, Begin, Fresh, KitmakerJobs
<1>21. CASE FinishIndexCheck
  BY <1>21 DEF FinishIndexCheck, End
<1>22. CASE Interrupt
  BY <1>22 DEF Interrupt, End
<1>23. CASE RerunFailed
  BY <1>23 DEF RerunFailed, Rerun
<1>24. CASE RerunAll
  BY <1>24 DEF RerunAll, Rerun
<1>25. CASE SetPic
  BY <1>25 DEF SetPic
<1>26. ASSUME NEW r \in Requests, KitmakerDecides(r) PROVE ControlInv'
  BY <1>26 DEF KitmakerDecides
<1>27. ASSUME NEW r \in Requests, NEW w \in Wheels, KitmakerLists(r, w) PROVE ControlInv'
  BY <1>27 DEF KitmakerLists
<1>28. ASSUME NEW w \in Wheels, OtherPublisher(w) PROVE ControlInv'
  BY <1>28 DEF OtherPublisher
<1>29. CASE UNCHANGED vars
  BY <1>29 DEF vars
<1> QED
  BY <1>1, <1>2, <1>3, <1>4, <1>5, <1>6, <1>7, <1>8, <1>9, <1>10,
     <1>11, <1>12, <1>13, <1>14, <1>15, <1>16, <1>17, <1>18, <1>19, <1>20,
     <1>21, <1>22, <1>23, <1>24, <1>25, <1>26, <1>27, <1>28, <1>29
  DEF Next, Progress, Environment

(* What Kitmaker says of a request is one of its statuses.                 *)
LEMMA StatusType ==
  ASSUME TypeOK, NEW r \in Requests
  PROVE  /\ kit[r].status \in {"none", "pending", "completed", "failed"}
         /\ kit[r].status = "none" <=> kit[r] = Unsubmitted
         /\ kit[r].status # "none" => kit[r] \in Submissions
<1>1. CASE kit[r] = Unsubmitted
  <2>1. kit[r].status = "none"
    BY <1>1 DEF Unsubmitted
  <2> QED
    BY <1>1, <2>1
<1>2. CASE kit[r] \in Submissions
  <2>1. kit[r].status \in {"pending", "completed", "failed"}
    BY <1>2 DEF Submissions
  <2>2. kit[r] # Unsubmitted
    BY <2>1 DEF Unsubmitted
  <2> QED
    BY <1>2, <2>1, <2>2
<1> QED
  BY <1>1, <1>2 DEF TypeOK

(* A step leaves Kitmaker's records alone, submits the current request or  *)
(* lets Kitmaker decide one that is pending.                               *)
LEMMA KitSteps ==
  ASSUME [Next]_vars
  PROVE  \/ UNCHANGED kit
         \/ at = "submit" /\ Accept
         \/ \E r \in Requests : KitmakerDecides(r)
<1> USE DEF outputs, script
<1>1. ASSUME Progress
      PROVE  UNCHANGED kit \/ (at = "submit" /\ Accept)
  BY <1>1 DEF Progress, Skip, Gate, GithubReleaseJob, StartDryRun, DryRunIndexRead,
     FinishDryRun, StartRelease, ReleaseIndexRead, Confirmed, ConfirmAgain, ConfirmFailed,
     ReadIndex, CheckWheel, Submit, SubmitAnswerLost, PollCompleted, PollFailed, PollAgain,
     PollDeadline, StartIndexCheck, FinishIndexCheck, Begin, Refuse
<1>2. ASSUME Environment
      PROVE  UNCHANGED kit \/ \E r \in Requests : KitmakerDecides(r)
  BY <1>2 DEF Environment, Interrupt, RerunFailed, RerunAll, Rerun, SetPic,
     KitmakerLists, OtherPublisher
<1> QED
  BY <1>1, <1>2 DEF Next, vars

(* A request, once submitted, keeps its body, and once completed stays so; *)
(* only submit makes a new one.                                            *)
LEMMA KitMonotone ==
  ASSUME TypeOK, FreshInv, [Next]_vars, NEW r \in Requests
  PROVE  /\ kit[r].status # "none" =>
              kit'[r].status # "none" /\ kit'[r].body = kit[r].body
         /\ kit[r].status = "completed" => kit'[r].status = "completed"
         /\ kit[r].status = "none" =>
              \/ kit'[r] = kit[r]
              \/ at = "submit" /\ r = Current
                 /\ kit'[r] = [status |-> "pending", body |-> BodyToSend]
<1>1. CASE UNCHANGED kit
  BY <1>1
<1>2. CASE at = "submit" /\ Accept
  <2>1. Current \in Requests /\ kit[Current] = Unsubmitted
    BY <1>2, PublicationAssumption DEF FreshInv, Current, TypeOK, Requests
  <2>2. kit' = [kit EXCEPT ![Current] = [status |-> "pending", body |-> BodyToSend]]
    BY <1>2 DEF Accept
  <2>3. CASE r = Current
    BY <1>2, <2>1, <2>2, <2>3 DEF TypeOK, Unsubmitted
  <2>4. CASE r # Current
    BY <2>2, <2>4 DEF TypeOK
  <2> QED
    BY <2>3, <2>4
<1>3. CASE \E q \in Requests : KitmakerDecides(q)
  <2>1. PICK q \in Requests : KitmakerDecides(q)
    BY <1>3
  <2>2. PICK s \in {"completed", "failed"} : kit' = [kit EXCEPT ![q].status = s]
    BY <2>1 DEF KitmakerDecides
  <2>3. kit[q].status = "pending" /\ kit[q] \in Submissions
    BY <2>1, StatusType DEF KitmakerDecides
  <2>4. CASE r = q
    BY <2>2, <2>3, <2>4 DEF TypeOK, Submissions
  <2>5. CASE r # q
    BY <2>2, <2>5 DEF TypeOK
  <2> QED
    BY <2>4, <2>5
<1> QED
  BY <1>1, <1>2, <1>3, KitSteps

(* Nothing of this run is submitted twice: a request not yet due in this   *)
(* attempt is unknown to Kitmaker.                                         *)
LEMMA FreshStep ==
  ASSUME TypeOK, ControlInv, FreshInv, [Next]_vars PROVE FreshInv'
<1> USE DEF FreshInv, NotStarted, outputs, script
<1>1. CASE \E j \in Jobs : Skip(j)
  BY <1>1 DEF Skip, Due, Current, TypeOK, KitmakerJobs, Jobs
<1>2. CASE Gate
  BY <1>2 DEF Gate, Startable, Due, Current, TypeOK, KitmakerJobs, Jobs
<1>3. CASE GithubReleaseJob
  BY <1>3 DEF GithubReleaseJob, Startable, Due, Current, TypeOK, KitmakerJobs, Jobs
<1>4. ASSUME NEW j \in Jobs, NEW where \in {"before", "check"}, Startable(j), Begin(j, where)
      PROVE  FreshInv'
  BY <1>4 DEF Begin, Startable, Due, Current
<1>5. ASSUME NEW j \in Jobs, Startable(j), Refuse(j) PROVE FreshInv'
  BY <1>5 DEF Refuse, Startable, Due, Current, TypeOK, KitmakerJobs, Jobs
<1>6. ASSUME NEW r \in Results \ {"none"}, End(r), UNCHANGED kit PROVE FreshInv'
  BY <1>6 DEF End, Current, TypeOK, KitmakerJobs, Jobs
<1>7. ASSUME at = "before", at' = "submit", UNCHANGED <<attempt, result, job, k, kit>>
      PROVE  FreshInv'
  <2>1. job \in KitmakerJobs /\ attempt \in 1..MaxAttempts
    BY <1>7 DEF ControlInv, TypeOK
  <2>2. \A i \in 1..Len(Order) : Order[i] \in Packages
    BY PublicationAssumption
  <2> QED
    BY <1>7, <2>1, <2>2
<1>8. ASSUME at \in {"before", "poll", "confirm", "check"},
             at = "poll" => at' = "poll" \/ at' = "confirm" \/ at' = "report" \/ at' = "submit",
             at = "before" => at' \in {"before", "confirm"},
             at \in {"confirm", "check"} => at' = at,
             at' = "submit" => k' = k + 1,
             at' = "poll" => k' = k,
             UNCHANGED <<attempt, result, job, kit>>
      PROVE  FreshInv'
  <2>1. result[job] = "none"
    BY <1>8 DEF ControlInv
  <2>2. \A i \in 1..Len(Order) : i > k + 1 \/ i = k + 1 => i > k
    BY OrderFacts
  <2> QED
    BY <1>8, <2>1, <2>2 DEF Current
<1>9. CASE Submit
  <2>1. at = "submit" /\ at' = "poll" /\ Accept /\ UNCHANGED <<attempt, result, job, k>>
    BY <1>9 DEF Submit
  <2>2. Current \in Requests /\ attempt \in 1..MaxAttempts /\ job \in KitmakerJobs
    BY <2>1, PublicationAssumption DEF Current, TypeOK, Requests
  <2>3. kit' = [kit EXCEPT ![Current] = [status |-> "pending", body |-> BodyToSend]]
    BY <2>1 DEF Accept
  <2>4. kit'[Current].status # "none"
    BY <2>2, <2>3 DEF TypeOK
  <2>5. \A i \in 1..Len(Order) : i > k =>
          kit'[<<attempt, job, Order[i]>>] = Unsubmitted
    <3> SUFFICES ASSUME NEW i \in 1..Len(Order), i > k
                 PROVE  kit'[<<attempt, job, Order[i]>>] = Unsubmitted
      OBVIOUS
    <3>1. Order[i] \in Packages /\ Order[i] # Order[k]
      BY PublicationAssumption, OrderFacts
    <3>2. <<attempt, job, Order[i]>> \in Requests /\ <<attempt, job, Order[i]>> # Current
      BY <2>2, <3>1 DEF Requests, Current
    <3> QED
      BY <2>1, <2>3, <3>2 DEF TypeOK
  <2>6. ASSUME NEW a \in 1..MaxAttempts, NEW j \in KitmakerJobs, NEW p \in Packages,
               NotStarted(a, j)'
        PROVE  kit'[<<a, j, p>>] = Unsubmitted
    <3>1. ~(a = attempt /\ j = job) /\ NotStarted(a, j)
      BY <2>1, <2>2, <2>6 DEF TypeOK
    <3>2. <<a, j, p>> # Current /\ <<a, j, p>> \in Requests
      BY <3>1 DEF Current, Requests
    <3> QED
      BY <2>3, <3>1, <3>2 DEF TypeOK
  <2> QED
    BY <2>1, <2>4, <2>5, <2>6 DEF Current
<1>10. CASE SubmitAnswerLost
  <2>1. at = "submit" /\ Accept /\ End("failure")
    BY <1>10 DEF SubmitAnswerLost
  <2>2. kit' = [kit EXCEPT ![Current] = [status |-> "pending", body |-> BodyToSend]]
    BY <2>1 DEF Accept
  <2>3. attempt' = attempt /\ job' = job /\ at' = "rest" /\ job \in KitmakerJobs
        /\ result' = [result EXCEPT ![job] = "failure"] /\ attempt \in 1..MaxAttempts
    BY <2>1 DEF End, TypeOK
  <2>4. ASSUME NEW a \in 1..MaxAttempts, NEW j \in KitmakerJobs, NEW p \in Packages,
               NotStarted(a, j)'
        PROVE  kit'[<<a, j, p>>] = Unsubmitted
    <3>1. ~(a = attempt /\ j = job) /\ NotStarted(a, j)
      BY <2>3, <2>4 DEF TypeOK, Jobs, KitmakerJobs
    <3>2. <<a, j, p>> # Current /\ <<a, j, p>> \in Requests
      BY <3>1 DEF Current, Requests
    <3> QED
      BY <2>2, <3>1, <3>2 DEF TypeOK
  <2> QED
    BY <2>3, <2>4
<1>11. ASSUME NEW S, Rerun(S) PROVE FreshInv'
  BY <1>11 DEF Rerun, TypeOK
<1>12. ASSUME NEW r \in Requests, KitmakerDecides(r) PROVE FreshInv'
  <2>1. PICK s : s \in {"completed", "failed"} /\ kit' = [kit EXCEPT ![r].status = s]
    BY <1>12 DEF KitmakerDecides
  <2>2. \A q \in Requests : kit[q] = Unsubmitted => kit'[q] = Unsubmitted
    BY <1>12, <2>1, StatusType DEF KitmakerDecides, TypeOK
  <2>3. \A q \in Requests : kit[q].status # "none" => kit'[q].status # "none"
    BY KitMonotone
  <2>4. UNCHANGED <<attempt, result, job, at, k>>
    BY <1>12 DEF KitmakerDecides
  <2>5. at \in {"submit", "poll"} => \A i \in 1..Len(Order) : <<attempt, job, Order[i]>> \in Requests
    BY PublicationAssumption DEF TypeOK, Requests
  <2>6. \A a \in 1..MaxAttempts, j \in KitmakerJobs, p \in Packages : <<a, j, p>> \in Requests
    BY DEF Requests
  <2> QED
    BY <2>2, <2>3, <2>4, <2>5, <2>6, OrderFacts DEF Current
<1>13. ASSUME UNCHANGED <<attempt, result, job, at, k, kit>> PROVE FreshInv'
  BY <1>13 DEF Current
<1>14. ASSUME Progress PROVE FreshInv'
  <2>1. CASE StartDryRun
    BY <1>4, <1>5, <2>1 DEF StartDryRun, Jobs
  <2>2. CASE StartRelease
    BY <1>4, <1>5, <2>2 DEF StartRelease, Jobs
  <2>3. CASE StartIndexCheck
    BY <1>4, <2>3 DEF StartIndexCheck, Jobs
  <2>4. CASE DryRunIndexRead \/ ReleaseIndexRead
    BY <1>6, <1>7, <1>8, <2>4 DEF DryRunIndexRead, ReleaseIndexRead, Results
  <2>5. CASE FinishDryRun \/ Confirmed \/ ConfirmFailed \/ PollFailed \/ PollDeadline \/ FinishIndexCheck
    BY <1>6, <2>5 DEF FinishDryRun, Confirmed, ConfirmFailed, PollFailed, PollDeadline,
       FinishIndexCheck, Results
  <2>6. CASE ConfirmAgain \/ PollAgain \/ \E w \in Wheels : ReadIndex(w) \/ CheckWheel(w)
    BY <1>13, <2>6 DEF ConfirmAgain, PollAgain, ReadIndex, CheckWheel
  <2>7. CASE PollCompleted
    <3>1. AfterRequests \in {"confirm", "report"}
      BY DEF AfterRequests
    <3> QED
      BY <1>8, <2>7, <3>1 DEF PollCompleted
  <2> QED
    BY <1>1, <1>2, <1>3, <1>9, <1>10, <1>14, <2>1, <2>2, <2>3, <2>4, <2>5, <2>6, <2>7
    DEF Progress
<1>15. ASSUME Environment PROVE FreshInv'
  <2>1. CASE Interrupt
    BY <1>6, <2>1 DEF Interrupt, Results
  <2>2. CASE RerunFailed \/ RerunAll
    BY <1>11, <2>2 DEF RerunFailed, RerunAll
  <2>3. CASE SetPic \/ \E w \in Wheels : OtherPublisher(w) \/ \E r \in Requests : KitmakerLists(r, w)
    BY <1>13, <2>3 DEF SetPic, OtherPublisher, KitmakerLists
  <2> QED
    BY <1>12, <1>15, <2>1, <2>2, <2>3 DEF Environment
<1> QED
  BY <1>13, <1>14, <1>15 DEF Next, vars

(* A wheel read as present is on the index for good.                       *)
LEMMA IndexMonotone ==
  ASSUME TypeOK, [Next]_vars, NEW w \in Wheels, index[w] = "present"
  PROVE  index'[w] = "present"
<1> USE DEF outputs, script
<1>1. ASSUME Progress PROVE UNCHANGED index
  BY <1>1 DEF Progress, Skip, Gate, GithubReleaseJob, StartDryRun, DryRunIndexRead,
     FinishDryRun, StartRelease, ReleaseIndexRead, Confirmed, ConfirmAgain, ConfirmFailed,
     ReadIndex, CheckWheel, Submit, SubmitAnswerLost, PollCompleted, PollFailed, PollAgain,
     PollDeadline, StartIndexCheck, FinishIndexCheck, Begin, Refuse
<1>2. ASSUME Environment PROVE index'[w] = "present"
  BY <1>2 DEF Environment, Interrupt, RerunFailed, RerunAll, Rerun, SetPic,
     KitmakerDecides, KitmakerLists, OtherPublisher, TypeOK
<1> QED
  BY <1>1, <1>2 DEF Next, vars

(* What a script read as listed at our hash still is.                      *)
LEMMA SeenStep ==
  ASSUME TypeOK, SeenInv, [Next]_vars PROVE SeenInv'
<1> SUFFICES ASSUME NEW w \in Wheels, seen'[w] = "present" PROVE index'[w] = "present"
  BY DEF SeenInv
<1> USE DEF outputs, script
<1>1. ASSUME seen'[w] = seen[w] PROVE index'[w] = "present"
  BY <1>1, IndexMonotone DEF SeenInv
<1>2. ASSUME seen' = Unread PROVE FALSE
  BY <1>2 DEF Unread
<1>3. ASSUME NEW v \in Wheels, ReadIndex(v) \/ CheckWheel(v) PROVE index'[w] = "present"
  <2>1. CASE w = v
    BY <1>3, <2>1 DEF ReadIndex, CheckWheel, TypeOK
  <2>2. CASE w # v
    BY <1>1, <1>3, <2>2 DEF ReadIndex, CheckWheel, TypeOK
  <2> QED
    BY <2>1, <2>2
<1>4. ASSUME Progress PROVE index'[w] = "present"
  BY <1>1, <1>2, <1>3, <1>4
  DEF Progress, Skip, Gate, GithubReleaseJob, StartDryRun, DryRunIndexRead,
     FinishDryRun, StartRelease, ReleaseIndexRead, Confirmed, ConfirmAgain, ConfirmFailed,
     Submit, SubmitAnswerLost, PollCompleted, PollFailed, PollAgain,
     PollDeadline, StartIndexCheck, FinishIndexCheck, Begin, Refuse, End, Fresh
<1>5. ASSUME Environment PROVE index'[w] = "present"
  BY <1>1, <1>2, <1>5
  DEF Environment, Interrupt, End, Fresh, RerunFailed, RerunAll, Rerun, SetPic,
     KitmakerDecides, KitmakerLists, OtherPublisher
<1> QED
  BY <1>1, <1>4, <1>5 DEF Next, vars

(* The outputs other jobs act on are only ever set by a job that read      *)
(* every wheel as present.                                                 *)
LEMMA ReportedStep ==
  ASSUME TypeOK, SeenInv, ReportedMeansListed, [Next]_vars PROVE ReportedMeansListed'
<1> USE DEF ReportedMeansListed, outputs, script
<1>1. ASSUME released' => released, checked' => checked PROVE ReportedMeansListed'
  BY <1>1, IndexMonotone
<1>2. ASSUME AllPresent PROVE ReportedMeansListed'
  BY <1>2, IndexMonotone DEF SeenInv, AllPresent
<1>3. ASSUME Progress PROVE ReportedMeansListed'
  BY <1>1, <1>2, <1>3
  DEF Progress, Skip, Gate, GithubReleaseJob, StartDryRun, DryRunIndexRead,
     FinishDryRun, StartRelease, ReleaseIndexRead, Confirmed, ConfirmAgain, ConfirmFailed,
     ReadIndex, CheckWheel, Submit, SubmitAnswerLost, PollCompleted, PollFailed, PollAgain,
     PollDeadline, StartIndexCheck, FinishIndexCheck, Begin, Refuse
<1>4. ASSUME Environment PROVE ReportedMeansListed'
  BY <1>1, <1>4
  DEF Environment, Interrupt, RerunFailed, RerunAll, Rerun, SetPic,
     KitmakerDecides, KitmakerLists, OtherPublisher
<1> QED
  BY <1>1, <1>3, <1>4 DEF Next, vars

(* The inputs of a run never change.                                       *)
LEMMA InputsFixed == ASSUME [Next]_vars PROVE inputs' = inputs
<1> USE DEF outputs, script
<1>1. ASSUME Progress PROVE inputs' = inputs
  BY <1>1
  DEF Progress, Skip, Gate, GithubReleaseJob, StartDryRun, DryRunIndexRead,
     FinishDryRun, StartRelease, ReleaseIndexRead, Confirmed, ConfirmAgain, ConfirmFailed,
     ReadIndex, CheckWheel, Submit, SubmitAnswerLost, PollCompleted, PollFailed, PollAgain,
     PollDeadline, StartIndexCheck, FinishIndexCheck, Begin, Refuse, End
<1>2. ASSUME Environment PROVE inputs' = inputs
  BY <1>2
  DEF Environment, Interrupt, End, RerunFailed, RerunAll, Rerun, SetPic,
     KitmakerDecides, KitmakerLists, OtherPublisher
<1> QED
  BY <1>1, <1>2 DEF Next, vars

(* What submit makes Kitmaker hold, by the job that submits it.            *)
LEMMA SubmittedBody ==
  ASSUME TypeOK, ControlInv, at = "submit"
  PROVE  /\ job = "kitmaker-dry-run" => BodyToSend = Body(Order[k], who) /\ ~BodyToSend.upload
         /\ job = "kitmaker-release" => /\ approved # NoApproval
                                        /\ BodyToSend = ProductionBody(approved[Order[k]])
         /\ job \in KitmakerJobs /\ Order[k] \in Packages
<1>1. job \in KitmakerJobs /\ Order[k] \in Packages
  BY OrderFacts DEF TypeOK
<1>2. job = "kitmaker-dry-run" => BodyToSend = Body(Order[k], who)
  BY DEF BodyToSend
<1>3. ~Body(Order[k], who).upload
  BY DEF Body, RequestBody
<1>4. job = "kitmaker-release" => BodyToSend = ProductionBody(approved[Order[k]]) /\ approved # NoApproval
  BY DEF BodyToSend, ControlInv
<1> QED
  BY <1>1, <1>2, <1>3, <1>4

(* No request of a dry-run job asks Kitmaker to upload.                    *)
LEMMA EvidenceDryRuns ==
  ASSUME TypeOK, ControlInv, FreshInv, EvidenceInv, [Next]_vars,
         NEW a \in 1..MaxAttempts, NEW p \in Packages,
         kit'[<<a, "kitmaker-dry-run", p>>].status # "none"
  PROVE  ~kit'[<<a, "kitmaker-dry-run", p>>].body.upload
<1> DEFINE r == <<a, "kitmaker-dry-run", p>>
<1>1. r \in Requests
  BY DEF Requests, KitmakerJobs
<1>2. CASE kit[r].status # "none"
  BY <1>1, <1>2, KitMonotone DEF EvidenceInv
<1>3. CASE kit[r].status = "none"
  <2>1. at = "submit" /\ r = Current /\ kit'[r] = [status |-> "pending", body |-> BodyToSend]
    BY <1>1, <1>3, KitMonotone
  <2>2. job = "kitmaker-dry-run"
    BY <2>1 DEF Current
  <2> QED
    BY <2>1, <2>2, SubmittedBody
<1> QED
  BY <1>2, <1>3

(* How a step moves the running script.                                    *)
LEMMA ScriptSteps ==
  ASSUME [Next]_vars
  PROVE  \/ UNCHANGED <<attempt, job, at, k, who, done>>
         \/ at' \in {"rest", "before", "confirm", "check"}
         \/ at = "before" /\ at' = "submit" /\ UNCHANGED <<attempt, job, k, who, done>>
         \/ Submit
         \/ PollCompleted
<1> USE DEF outputs, script
<1>1. ASSUME StartDryRun \/ StartRelease \/ StartIndexCheck
      PROVE  \/ UNCHANGED <<attempt, job, at, k, who, done>>
             \/ at' \in {"rest", "before", "confirm", "check"}
  BY <1>1 DEF StartDryRun, StartRelease, StartIndexCheck, Begin, Refuse
<1>2. ASSUME NEW r, End(r) PROVE at' = "rest"
  BY <1>2 DEF End
<1>3. ASSUME FinishDryRun \/ Confirmed \/ ConfirmFailed \/ SubmitAnswerLost \/ PollFailed
             \/ PollDeadline \/ FinishIndexCheck \/ Interrupt
      PROVE  at' = "rest"
  BY <1>2, <1>3 DEF FinishDryRun, Confirmed, ConfirmFailed, SubmitAnswerLost, PollFailed,
     PollDeadline, FinishIndexCheck, Interrupt
<1>4. ASSUME DryRunIndexRead \/ ReleaseIndexRead
      PROVE  \/ at' \in {"rest", "before", "confirm", "check"}
             \/ at = "before" /\ at' = "submit" /\ UNCHANGED <<attempt, job, k, who, done>>
  BY <1>2, <1>4 DEF DryRunIndexRead, ReleaseIndexRead
<1>5. ASSUME \/ \E j \in Jobs : Skip(j)
             \/ Gate \/ GithubReleaseJob \/ ConfirmAgain \/ PollAgain
             \/ \E w \in Wheels : ReadIndex(w) \/ CheckWheel(w)
      PROVE  UNCHANGED <<attempt, job, at, k, who, done>>
  BY <1>5 DEF Skip, Gate, GithubReleaseJob, ConfirmAgain, PollAgain, ReadIndex, CheckWheel
<1>6. ASSUME RerunFailed \/ RerunAll PROVE at' = "rest"
  BY <1>6 DEF RerunFailed, RerunAll, Rerun
<1>7. ASSUME \/ SetPic
             \/ \E r \in Requests : KitmakerDecides(r) \/ \E w \in Wheels : KitmakerLists(r, w)
             \/ \E w \in Wheels : OtherPublisher(w)
      PROVE  UNCHANGED <<attempt, job, at, k, who, done>>
  BY <1>7 DEF SetPic, KitmakerDecides, KitmakerLists, OtherPublisher
<1> QED
  BY <1>1, <1>3, <1>4, <1>5, <1>6, <1>7 DEF Next, Progress, Environment, vars

(* A package counts as done only when Kitmaker completed its request.      *)
LEMMA EvidenceDone ==
  ASSUME TypeOK, ControlInv, FreshInv, EvidenceInv, [Next]_vars,
         at' \in {"submit", "poll", "report"}, NEW p \in done'
  PROVE  /\ kit'[<<attempt', job', p>>].status = "completed"
         /\ job' = "kitmaker-dry-run" => kit'[<<attempt', job', p>>].body = Body(p, who)'
<1>0. Body(p, who)' = Body(p, who')
  BY InputsFixed DEF Body, RequestBody
<1>1. ASSUME at \in {"submit", "poll", "report"}, p \in done,
             UNCHANGED <<attempt, job, who>>
      PROVE  /\ kit'[<<attempt', job', p>>].status = "completed"
             /\ job' = "kitmaker-dry-run" => kit'[<<attempt', job', p>>].body = Body(p, who)'
  <2> DEFINE r == <<attempt, job, p>>
  <2>1. r \in Requests
    BY <1>1 DEF Requests, TypeOK, ControlInv, KitmakerJobs
  <2>2. kit[r].status = "completed" /\ (job = "kitmaker-dry-run" => kit[r].body = Body(p, who))
    BY <1>1 DEF EvidenceInv
  <2>3. kit'[r].status = "completed" /\ kit'[r].body = kit[r].body
    BY <2>1, <2>2, KitMonotone
  <2> QED
    BY <1>0, <1>1, <2>2, <2>3
<1>2. CASE UNCHANGED <<attempt, job, at, k, who, done>>
  BY <1>1, <1>2
<1>3. CASE at = "before" /\ at' = "submit" /\ UNCHANGED <<attempt, job, k, who, done>>
  BY <1>3 DEF ControlInv
<1>4. CASE Submit
  BY <1>1, <1>4 DEF Submit
<1>5. CASE PollCompleted
  <2>1. CASE p \in done
    BY <1>1, <1>5, <2>1 DEF PollCompleted
  <2>2. CASE p = Order[k]
    BY <1>0, <1>5, <2>2 DEF PollCompleted, Completed, EvidenceInv, Current
  <2> QED
    BY <1>5, <2>1, <2>2 DEF PollCompleted
<1> QED
  BY <1>2, <1>3, <1>4, <1>5, ScriptSteps

(* A dry run polls the request it made with the body it would make again.  *)
LEMMA EvidencePoll ==
  ASSUME TypeOK, ControlInv, FreshInv, EvidenceInv, [Next]_vars,
         at' = "poll", job' = "kitmaker-dry-run"
  PROVE  (kit[Current].body = Body(Order[k], who))'
<1>0. \A q, c : Body(q, c)' = Body(q, c)
  BY InputsFixed DEF Body, RequestBody
<1>1. CASE UNCHANGED <<attempt, job, at, k, who, done>>
  <2>1. Current \in Requests /\ Current' = Current
    BY <1>1, OrderFacts DEF Current, Requests, TypeOK
  <2>2. kit[Current].status # "none" /\ kit[Current].body = Body(Order[k], who)
    BY <1>1 DEF FreshInv, EvidenceInv
  <2>3. kit'[Current].body = kit[Current].body
    BY <2>1, <2>2, KitMonotone
  <2> QED
    BY <1>1, <2>1, <2>2, <2>3, InputsFixed DEF Body, RequestBody
<1>2. CASE Submit
  <2>1. Current \in Requests /\ Current' = Current /\ kit' = [kit EXCEPT ![Current] = [status |-> "pending", body |-> BodyToSend]]
    BY <1>2, OrderFacts DEF Submit, Accept, Current, Requests, TypeOK
  <2>2. kit'[Current'].body = BodyToSend
    BY <2>1 DEF TypeOK
  <2>3. BodyToSend = Body(Order[k], who)
    BY <1>2, SubmittedBody DEF Submit
  <2> QED
    BY <1>2, <2>2, <2>3, InputsFixed DEF Submit, Body, RequestBody
<1>3. CASE PollCompleted
  BY <1>3 DEF PollCompleted, AfterRequests
<1> QED
  BY <1>1, <1>2, <1>3, ScriptSteps

(* Only a dry run that ends and a re-run change the approval.              *)
LEMMA ApprovalSteps ==
  ASSUME [Next]_vars PROVE approved' \in {approved, NoApproval} \/ FinishDryRun
<1> USE DEF outputs, script
<1>1. ASSUME Progress PROVE approved' = approved \/ FinishDryRun
  BY <1>1
  DEF Progress, Skip, Gate, GithubReleaseJob, StartDryRun, DryRunIndexRead,
     StartRelease, ReleaseIndexRead, Confirmed, ConfirmAgain, ConfirmFailed,
     ReadIndex, CheckWheel, Submit, SubmitAnswerLost, PollCompleted, PollFailed, PollAgain,
     PollDeadline, StartIndexCheck, FinishIndexCheck, Begin, Refuse
<1>2. ASSUME Environment PROVE approved' \in {approved, NoApproval}
  BY <1>2
  DEF Environment, Interrupt, RerunFailed, RerunAll, Rerun, SetPic,
     KitmakerDecides, KitmakerLists, OtherPublisher
<1> QED
  BY <1>1, <1>2 DEF Next, vars

(* An approval stands for dry-run requests that Kitmaker completed.        *)
LEMMA EvidenceApproved ==
  ASSUME TypeOK, ControlInv, FreshInv, EvidenceInv, [Next]_vars,
         approved' # NoApproval, NEW p \in Packages
  PROVE  \E a \in 1..MaxAttempts :
           /\ kit'[<<a, "kitmaker-dry-run", p>>].status = "completed"
           /\ kit'[<<a, "kitmaker-dry-run", p>>].body = approved'[p]
<1>1. ASSUME NEW a \in 1..MaxAttempts, NEW b,
             kit[<<a, "kitmaker-dry-run", p>>].status = "completed",
             kit[<<a, "kitmaker-dry-run", p>>].body = b
      PROVE  /\ kit'[<<a, "kitmaker-dry-run", p>>].status = "completed"
             /\ kit'[<<a, "kitmaker-dry-run", p>>].body = b
  <2>1. <<a, "kitmaker-dry-run", p>> \in Requests
    BY DEF Requests, KitmakerJobs
  <2> QED
    BY <1>1, <2>1, KitMonotone
<1>2. CASE approved' = approved
  <2>1. PICK a \in 1..MaxAttempts :
          /\ kit[<<a, "kitmaker-dry-run", p>>].status = "completed"
          /\ kit[<<a, "kitmaker-dry-run", p>>].body = approved[p]
    BY <1>2 DEF EvidenceInv
  <2> QED
    BY <1>1, <1>2, <2>1
<1>3. CASE FinishDryRun
  <2>1. job = "kitmaker-dry-run" /\ done = Packages /\ at = "report"
    BY <1>3 DEF FinishDryRun, ControlInv
  <2>2. approved'[p] = Body(p, who)
    BY <1>3, <2>1 DEF FinishDryRun
  <2>3. kit[<<attempt, "kitmaker-dry-run", p>>].status = "completed"
        /\ kit[<<attempt, "kitmaker-dry-run", p>>].body = Body(p, who)
    BY <2>1 DEF EvidenceInv
  <2>4. attempt \in 1..MaxAttempts
    BY DEF TypeOK
  <2> QED
    BY <1>1, <2>2, <2>3, <2>4
<1> QED
  BY <1>2, <1>3, ApprovalSteps

(* An approval is backed by requests that Kitmaker completed, and a        *)
(* running dry run by those it has counted as done.                        *)
LEMMA EvidenceStep ==
  ASSUME TypeOK, ControlInv, FreshInv, EvidenceInv, [Next]_vars PROVE EvidenceInv'
<1>1. (\A a \in 1..MaxAttempts, p \in Packages :
        kit[<<a, "kitmaker-dry-run", p>>].status # "none"
          => ~kit[<<a, "kitmaker-dry-run", p>>].body.upload)'
  BY EvidenceDryRuns
<1>2. (at \in {"submit", "poll", "report"} => \A p \in done :
        /\ kit[<<attempt, job, p>>].status = "completed"
        /\ job = "kitmaker-dry-run" => kit[<<attempt, job, p>>].body = Body(p, who))'
  BY EvidenceDone
<1>3. (at = "poll" /\ job = "kitmaker-dry-run" => kit[Current].body = Body(Order[k], who))'
  BY EvidencePoll
<1>4. (approved # NoApproval => \A p \in Packages : \E a \in 1..MaxAttempts :
        /\ kit[<<a, "kitmaker-dry-run", p>>].status = "completed"
        /\ kit[<<a, "kitmaker-dry-run", p>>].body = approved[p])'
  BY EvidenceApproved
<1> QED
  BY <1>1, <1>2, <1>3, <1>4 DEF EvidenceInv

(* No step makes a production request that differs from its dry run.       *)
LEMMA ReplayStep ==
  ASSUME TypeOK, ControlInv, FreshInv, EvidenceInv, ProductionReplaysDryRun, [Next]_vars
  PROVE  ProductionReplaysDryRun'
<1> SUFFICES ASSUME NEW r \in Requests, kit'[r].status # "none", kit'[r].body.upload
             PROVE  \E d \in Requests : /\ kit'[d].status = "completed"
                                        /\ ~kit'[d].body.upload
                                        /\ kit'[r].body = ProductionBody(kit'[d].body)
  BY DEF ProductionReplaysDryRun, ProductionBody
<1>1. ASSUME NEW d \in Requests, kit[d].status = "completed", ~kit[d].body.upload,
             kit'[r].body = ProductionBody(kit[d].body)
      PROVE  \E e \in Requests : /\ kit'[e].status = "completed"
                                 /\ ~kit'[e].body.upload
                                 /\ kit'[r].body = ProductionBody(kit'[e].body)
  <2>1. kit'[d].status = "completed" /\ kit'[d].body = kit[d].body
    BY <1>1, KitMonotone
  <2> QED
    BY <1>1, <2>1
<1>2. CASE kit[r].status # "none"
  <2>1. kit'[r].body = kit[r].body
    BY <1>2, KitMonotone
  <2>2. PICK d \in Requests : /\ kit[d].status = "completed"
                              /\ ~kit[d].body.upload
                              /\ kit[r].body = ProductionBody(kit[d].body)
    BY <1>2, <2>1 DEF ProductionReplaysDryRun
  <2> QED
    BY <1>1, <2>1, <2>2
<1>3. CASE kit[r].status = "none"
  <2>1. at = "submit" /\ kit'[r] = [status |-> "pending", body |-> BodyToSend]
    BY <1>3, KitMonotone
  <2>2. job = "kitmaker-release" /\ approved # NoApproval
        /\ kit'[r].body = ProductionBody(approved[Order[k]]) /\ Order[k] \in Packages
    BY <2>1, SubmittedBody DEF KitmakerJobs
  <2>3. PICK a \in 1..MaxAttempts :
          /\ kit[<<a, "kitmaker-dry-run", Order[k]>>].status = "completed"
          /\ kit[<<a, "kitmaker-dry-run", Order[k]>>].body = approved[Order[k]]
    BY <2>2 DEF EvidenceInv
  <2>4. <<a, "kitmaker-dry-run", Order[k]>> \in Requests
        /\ ~kit[<<a, "kitmaker-dry-run", Order[k]>>].body.upload
    BY <2>2, <2>3 DEF EvidenceInv, Requests, KitmakerJobs
  <2> QED
    BY <1>1, <2>2, <2>3, <2>4
<1> QED
  BY <1>2, <1>3

(* No step submits a package while an earlier one of the job is not        *)
(* completed.                                                              *)
LEMMA StopsStep ==
  ASSUME TypeOK, ControlInv, FreshInv, EvidenceInv, StopsAtFirstFailure, [Next]_vars
  PROVE  StopsAtFirstFailure'
<1> SUFFICES ASSUME NEW a \in 1..MaxAttempts, NEW j \in KitmakerJobs,
                    NEW m \in 1..Len(Order), NEW n \in 1..Len(Order),
                    m < n, kit'[<<a, j, Order[n]>>].status # "none"
             PROVE  kit'[<<a, j, Order[m]>>].status = "completed"
  BY DEF StopsAtFirstFailure
<1>1. Order[m] \in Packages /\ Order[n] \in Packages
  BY PublicationAssumption
<1>2. <<a, j, Order[m]>> \in Requests /\ <<a, j, Order[n]>> \in Requests
  BY <1>1 DEF Requests
<1>3. CASE kit[<<a, j, Order[n]>>].status # "none"
  BY <1>2, <1>3, KitMonotone DEF StopsAtFirstFailure
<1>4. CASE kit[<<a, j, Order[n]>>].status = "none"
  <2>1. at = "submit" /\ a = attempt /\ j = job /\ Order[n] = Order[k]
    BY <1>2, <1>4, KitMonotone DEF Current
  <2>2. n = k
    BY <2>1, PublicationAssumption, OrderFacts
  <2>3. Order[m] \in done
    BY <2>1, <2>2 DEF ControlInv
  <2>4. kit[<<a, j, Order[m]>>].status = "completed"
    BY <2>1, <2>3 DEF EvidenceInv
  <2> QED
    BY <1>2, <2>4, KitMonotone
<1> QED
  BY <1>3, <1>4

(* No step asks Kitmaker for more than the inputs allow.                   *)
LEMMA RequestedStep ==
  ASSUME TypeOK, ControlInv, FreshInv, OnlyAsRequested, [Next]_vars
  PROVE  OnlyAsRequested'
<1> SUFFICES ASSUME NEW r \in Requests, kit'[r].status # "none"
             PROVE  /\ inputs.dryRun /\ inputs.channel # "rehearsal"
                    /\ kit'[r].body.upload => inputs.release
  BY InputsFixed DEF OnlyAsRequested
<1>1. CASE kit[r].status # "none"
  BY <1>1, KitMonotone DEF OnlyAsRequested
<1>2. CASE kit[r].status = "none"
  <2>1. at = "submit" /\ kit'[r] = [status |-> "pending", body |-> BodyToSend]
    BY <1>2, KitMonotone
  <2>2. job \in KitmakerJobs /\ (job = "kitmaker-dry-run" => ~BodyToSend.upload)
    BY <2>1, SubmittedBody
  <2> QED
    BY <2>1, <2>2 DEF ControlInv, KitmakerJobs
<1> QED
  BY <1>1, <1>2

(* Nothing is submitted, read or approved in the initial state.            *)
LEMMA InvariantInit == Init => IInv
<1> SUFFICES ASSUME Init PROVE IInv
  OBVIOUS
<1>1. TypeOK
  BY TypeInit
<1>2. \A r \in Requests : kit[r] = Unsubmitted /\ kit[r].status = "none"
  BY DEF Init, Unsubmitted
<1>3. \A a \in 1..MaxAttempts, j \in KitmakerJobs, p \in Packages : <<a, j, p>> \in Requests
  BY DEF Requests
<1>4. ControlInv /\ FreshInv /\ EvidenceInv
  <2>1. ControlInv
    BY DEF Init, ControlInv
  <2>2. FreshInv
    BY <1>2, <1>3 DEF Init, FreshInv
  <2>3. EvidenceInv
    BY <1>2, <1>3 DEF Init, EvidenceInv, KitmakerJobs
  <2> QED
    BY <2>1, <2>2, <2>3
<1>5. SeenInv /\ ReportedMeansListed
  BY DEF Init, SeenInv, ReportedMeansListed, Unread
<1>6. ProductionReplaysDryRun /\ OnlyAsRequested
  BY <1>2 DEF ProductionReplaysDryRun, OnlyAsRequested
<1>7. StopsAtFirstFailure
  BY <1>2, <1>3, PublicationAssumption DEF StopsAtFirstFailure
<1> QED
  BY <1>1, <1>4, <1>5, <1>6, <1>7 DEF IInv

(* IInv is inductive.                                                      *)
LEMMA InvariantStep == IInv /\ [Next]_vars => IInv'
  BY TypeStep, ControlStep, FreshStep, EvidenceStep, SeenStep, ReplayStep, StopsStep,
     ReportedStep, RequestedStep DEF IInv

(* The inductive invariant holds in every reachable state.                 *)
THEOREM Invariance == Spec => []IInv
  BY InvariantInit, InvariantStep, PTL DEF Spec

(* The types of the workflow's outputs and of Kitmaker's records.          *)
THEOREM TypeCorrect == Spec => []TypeOK
<1>1. IInv => TypeOK
  BY DEF IInv
<1> QED
  BY Invariance, <1>1, PTL

(* Production never asks Kitmaker for anything but a dry run that Kitmaker *)
(* completed, with `upload` flipped: Note [Production replays the dry run  *)
(* exactly], over any number of attempts, lost answers and edits of the    *)
(* point of contact.                                                       *)
THEOREM ProductionReplays == Spec => []ProductionReplaysDryRun
<1>1. IInv => ProductionReplaysDryRun
  BY DEF IInv
<1> QED
  BY Invariance, <1>1, PTL

(* A later package is never submitted in an attempt whose earlier package  *)
(* did not complete (_run_requests).                                       *)
THEOREM StopsAtFailure == Spec => []StopsAtFirstFailure
<1>1. IInv => StopsAtFirstFailure
  BY DEF IInv
<1> QED
  BY Invariance, <1>1, PTL

(* `released` and index-check's wheels imply a complete listing, although  *)
(* every look at the index reads it one wheel at a time.                   *)
THEOREM ReportedListed == Spec => []ReportedMeansListed
<1>1. IInv => ReportedMeansListed
  BY DEF IInv
<1> QED
  BY Invariance, <1>1, PTL

(* Kitmaker is never asked for what the run's inputs did not request.      *)
THEOREM AsRequested == Spec => []OnlyAsRequested
<1>1. IInv => OnlyAsRequested
  BY DEF IInv
<1> QED
  BY Invariance, <1>1, PTL

--------------------------------------------------------------------------------
(* KitmakerRelease implements WheelPublication.                            *)

(* An upload=true request finds every package validated, not only its own. *)
AllValidated ==
  \A r \in Requests : kit[r].status # "none" /\ kit[r].body.upload => Validated = Packages

(* A package that the abstract specification calls validated stays so.     *)
LEMMA ValidatedMonotone ==
  ASSUME TypeOK, FreshInv, [Next]_vars
  PROVE  Validated \subseteq Validated' /\ Validated' \subseteq Packages
<1>1. ASSUME NEW p \in Validated PROVE p \in Validated'
  <2>1. PICK r \in Requests : r[3] = p /\ kit[r].status = "completed" /\ ~kit[r].body.upload
    BY DEF Validated
  <2>2. kit'[r].status = "completed" /\ kit'[r].body = kit[r].body
    BY <2>1, KitMonotone
  <2> QED
    BY <2>1, <2>2 DEF Validated
<1> QED
  BY <1>1 DEF Validated

(* A production request is made only when every package is validated.      *)
LEMMA AllValidatedStep ==
  ASSUME IInv, AllValidated, [Next]_vars PROVE AllValidated'
<1> SUFFICES ASSUME NEW r \in Requests, kit'[r].status # "none", kit'[r].body.upload
             PROVE  Validated = Packages
  BY ValidatedMonotone DEF AllValidated, IInv
<1>1. CASE kit[r].status # "none"
  BY <1>1, KitMonotone DEF AllValidated, IInv
<1>2. CASE kit[r].status = "none"
  <2>1. at = "submit" /\ kit'[r] = [status |-> "pending", body |-> BodyToSend]
    BY <1>2, KitMonotone DEF IInv
  <2>2. approved # NoApproval
    BY <2>1, SubmittedBody DEF KitmakerJobs, IInv
  <2>3. ASSUME NEW p \in Packages PROVE p \in Validated
    <3>1. PICK a \in 1..MaxAttempts : kit[<<a, "kitmaker-dry-run", p>>].status = "completed"
      BY <2>2 DEF EvidenceInv, IInv
    <3>2. <<a, "kitmaker-dry-run", p>> \in Requests
          /\ ~kit[<<a, "kitmaker-dry-run", p>>].body.upload
      BY <3>1 DEF EvidenceInv, Requests, KitmakerJobs, IInv
    <3> QED
      BY <3>1, <3>2 DEF Validated
  <2> QED
    BY <2>3 DEF Validated
<1> QED
  BY <1>1, <1>2

Announced == released \/ checked

(* Every step is a step of WheelPublication, or none at all.               *)
LEMMA PublicationStep ==
  ASSUME IInv, AllValidated, [Next]_vars
  PROVE  [Publication!Next]_<<Validated, index, Announced>>
<1> USE DEF outputs, script
<1>1. ASSUME kit' = kit PROVE Validated' = Validated
  BY <1>1 DEF Validated
<1>2. ASSUME at = "submit", Accept PROVE Validated' = Validated
  <2>1. ASSUME NEW p \in Validated' PROVE p \in Validated
    <3>1. PICK r \in Requests : r[3] = p /\ kit'[r].status = "completed" /\ ~kit'[r].body.upload
      BY DEF Validated
    <3>2. Current \in Requests
      BY <1>2, OrderFacts DEF IInv, TypeOK, Current, Requests
    <3>3. r # Current /\ kit'[r] = kit[r]
      BY <1>2, <3>1, <3>2 DEF Accept, IInv, TypeOK
    <3> QED
      BY <3>1, <3>3 DEF Validated
  <2> QED
    BY <2>1, ValidatedMonotone DEF IInv
<1>3. ASSUME NEW r \in Requests, KitmakerDecides(r)
      PROVE  [Publication!Next]_<<Validated, index, Announced>>
  <2>1. r[3] \in Packages
    BY DEF Requests
  <2>2. PICK s : kit' = [kit EXCEPT ![r].status = s]
    BY <1>3 DEF KitmakerDecides
  <2>3. ASSUME NEW p \in Validated' PROVE p \in Validated \union {r[3]}
    <3>1. PICK q \in Requests : q[3] = p /\ kit'[q].status = "completed" /\ ~kit'[q].body.upload
      BY DEF Validated
    <3>2. CASE q = r
      BY <3>1, <3>2
    <3>3. CASE q # r
      BY <2>2, <3>1, <3>3 DEF Validated, IInv, TypeOK
    <3> QED
      BY <3>2, <3>3
  <2>4. Validated' = Validated \/ Validated' = Validated \union {r[3]}
    BY <2>3, ValidatedMonotone DEF IInv
  <2>5. index' = index /\ Announced' = Announced
    BY <1>3 DEF KitmakerDecides, Announced
  <2> QED
    BY <2>1, <2>4, <2>5 DEF Publication!Next, Publication!Validate, Announced
<1>4. ASSUME Validated' = Validated, index' = index, Announced' = Announced
      PROVE  [Publication!Next]_<<Validated, index, Announced>>
  BY <1>4
<1>5. ASSUME Validated' = Validated, index' = index, AllPresent
      PROVE  [Publication!Next]_<<Validated, index, Announced>>
  <2>1. \A w \in Wheels : index[w] = "present"
    BY <1>5 DEF IInv, SeenInv, AllPresent
  <2>2. CASE Announced' = TRUE
    BY <1>5, <2>1, <2>2 DEF Publication!Next, Publication!Announce, Announced
  <2>3. CASE Announced' = FALSE
    BY <1>5, <2>3 DEF Publication!Next, Publication!Withdraw, Announced
  <2> QED
    BY <2>2, <2>3 DEF Announced
<1>6. ASSUME Validated' = Validated, index' = index, ~Announced'
      PROVE  [Publication!Next]_<<Validated, index, Announced>>
  BY <1>6 DEF Publication!Next, Publication!Withdraw, Announced
<1>7. ASSUME NEW w \in Wheels, OtherPublisher(w)
      PROVE  [Publication!Next]_<<Validated, index, Announced>>
  BY <1>1, <1>7 DEF OtherPublisher, Publication!Next, Publication!Taken, Announced
<1>8. ASSUME NEW r \in Requests, NEW w \in Wheels, KitmakerLists(r, w)
      PROVE  [Publication!Next]_<<Validated, index, Announced>>
  <2>1. Validated = Packages
    BY <1>8 DEF KitmakerLists, AllValidated
  <2> QED
    BY <1>1, <1>8, <2>1 DEF KitmakerLists, Publication!Next, Publication!List, Announced
<1>9. ASSUME Progress PROVE [Publication!Next]_<<Validated, index, Announced>>
  <2>1. Validated' = Validated /\ index' = index
    <3>1. kit' = kit \/ (at = "submit" /\ Accept)
      BY <1>9 DEF Progress, Skip, Gate, GithubReleaseJob, StartDryRun, DryRunIndexRead,
         FinishDryRun, StartRelease, ReleaseIndexRead, Confirmed, ConfirmAgain, ConfirmFailed,
         ReadIndex, CheckWheel, Submit, SubmitAnswerLost, PollCompleted, PollFailed, PollAgain,
         PollDeadline, StartIndexCheck, FinishIndexCheck, Begin, Refuse
    <3>2. index' = index
      BY <1>9 DEF Progress, Skip, Gate, GithubReleaseJob, StartDryRun, DryRunIndexRead,
         FinishDryRun, StartRelease, ReleaseIndexRead, Confirmed, ConfirmAgain, ConfirmFailed,
         ReadIndex, CheckWheel, Submit, SubmitAnswerLost, PollCompleted, PollFailed, PollAgain,
         PollDeadline, StartIndexCheck, FinishIndexCheck, Begin, Refuse
    <3> QED
      BY <1>1, <1>2, <3>1, <3>2
  <2>2. CASE Confirmed
    BY <1>5, <2>1, <2>2 DEF Confirmed
  <2>3. CASE FinishIndexCheck
    <3>1. CASE AllPresent
      BY <1>5, <2>1, <3>1
    <3>2. CASE ~AllPresent
      <4>1. released' = released /\ ~checked'
        BY <2>3, <3>2 DEF FinishIndexCheck
      <4>2. CASE released
        BY <1>4, <2>1, <4>1, <4>2 DEF Announced
      <4>3. CASE ~released
        BY <1>6, <2>1, <4>1, <4>3 DEF Announced
      <4> QED
        BY <4>2, <4>3
    <3> QED
      BY <3>1, <3>2
  <2>4. CASE ~Confirmed /\ ~FinishIndexCheck
    <3>1. released' = released /\ checked' = checked
      BY <1>9, <2>4 DEF Progress, Skip, Gate, GithubReleaseJob, StartDryRun, DryRunIndexRead,
         FinishDryRun, StartRelease, ReleaseIndexRead, ConfirmAgain, ConfirmFailed,
         ReadIndex, CheckWheel, Submit, SubmitAnswerLost, PollCompleted, PollFailed, PollAgain,
         PollDeadline, StartIndexCheck, Begin, Refuse
    <3> QED
      BY <1>4, <2>1, <3>1 DEF Announced
  <2> QED
    BY <2>2, <2>3, <2>4
<1>10. ASSUME NEW S, Rerun(S) PROVE [Publication!Next]_<<Validated, index, Announced>>
  <2>1. Validated' = Validated /\ index' = index
    BY <1>1, <1>10 DEF Rerun
  <2>2. released' => released
    BY <1>10 DEF Rerun
  <2>3. checked' => checked
    BY <1>10 DEF Rerun
  <2>4. CASE Announced' = Announced
    BY <1>4, <2>1, <2>4
  <2>5. CASE ~Announced'
    BY <1>6, <2>1, <2>5
  <2> QED
    BY <2>2, <2>3, <2>4, <2>5 DEF Announced
<1>11. ASSUME Interrupt \/ SetPic PROVE [Publication!Next]_<<Validated, index, Announced>>
  BY <1>1, <1>4, <1>11 DEF Interrupt, SetPic, Announced
<1>12. ASSUME UNCHANGED vars PROVE [Publication!Next]_<<Validated, index, Announced>>
  BY <1>1, <1>4, <1>12 DEF vars, Announced
<1> QED
  BY <1>3, <1>7, <1>8, <1>9, <1>10, <1>11, <1>12
  DEF Next, Environment, RerunFailed, RerunAll

(* The publication jobs implement WheelPublication: a run lists nothing    *)
(* before every package passed its dry run, replaces nothing on the index  *)
(* and announces only a complete listing.                                  *)
THEOREM Implements == Spec => PublishesAsPromised
<1>1. Init => Publication!Init /\ AllValidated
  <2> SUFFICES ASSUME Init PROVE Publication!Init /\ AllValidated
    OBVIOUS
  <2>1. \A r \in Requests : kit[r].status = "none"
    BY DEF Init, Unsubmitted
  <2>2. Validated = {} /\ AllValidated
    BY <2>1 DEF Validated, AllValidated
  <2> QED
    BY <2>2 DEF Init, Publication!Init
<1>2. IInv /\ AllValidated /\ [Next]_vars => AllValidated'
  BY AllValidatedStep
<1>3. IInv /\ AllValidated /\ [Next]_vars
        => [Publication!Next]_<<Validated, index, released \/ checked>>
  BY PublicationStep DEF Announced
<1> QED
  BY <1>1, <1>2, <1>3, Invariance, PTL DEF Spec, PublishesAsPromised, Publication!Spec
================================================================================
