---------------------------- MODULE TestShard_proofs ----------------------------
(* Theorems about TestShard, for any files, durations and bounds, and about *)
(* RecordFile, the record its test-file processes write, for any calls.    *)
EXTENDS TestShard, RecordFile, FiniteSetTheorems, TLAPS

(* What ShardAssumption says of each constant.                             *)
LEMMA Constants ==
  /\ Attempts \in Nat /\ Attempts > 0 /\ Cap \in Nat /\ Cap > 0
  /\ Bound \in Nat /\ Bound > 0 /\ Grace \in Nat /\ Grace > 0
  /\ Threshold \in Nat /\ Median \in Nat /\ Piece \in Nat /\ MaxHangs \in Nat
  /\ Whole \in [Files -> Nat]
  BY ShardAssumption

(* A file without a process has a record of the type too.                  *)
LEMMA NoProcessType == NoProcess \in Processes
  BY Constants DEF NoProcess, Processes, Stages, Timers

(* What Processes says of the fields of one.                               *)
LEMMA Fields ==
  ASSUME TypeOK, NEW f \in Files
  PROVE  /\ proc[f] \in Processes
         /\ proc[f].at \in Stages \union {"none"}
         /\ proc[f].stuck \in {"no", "waiting", "gil"}
         /\ proc[f].age \in 0..Cap + 1
         /\ proc[f].timers \subseteq Timers
         /\ proc[f].killer \in BOOLEAN
  BY DEF TypeOK, Processes

(* The end of the step, or of orphaned workers, changes nothing else.      *)
LEMMA Aftermath ==
  ASSUME StepEnds \/ \E f \in Files : WorkersEnd(f)
  PROVE  /\ UNCHANGED <<costs, slice, bound, perTest, code, exitCode, clock, runner, runCode,
                        proc, tries, outcome, hangs, killed, junit>>
         /\ orphans' \subseteq orphans
         /\ phase' = phase \/ (phase = "exited" /\ phase' = "over")
  BY DEF StepEnds, WorkersEnd, setup, env, verdict, tests

(***************************************************************************)
(* Types.                                                                  *)
(***************************************************************************)
(* No process is older than the run.                                       *)
AgeInv == \A f \in Files : proc[f].age <= clock

TypeInv == TypeOK /\ AgeInv

(* The step starts with every variable in its type.                        *)
LEMMA TypeInit == Init => TypeInv
  <1> SUFFICES ASSUME Init PROVE TypeInv
    OBVIOUS
  <1>1. \A f \in Files : proc[f] = NoProcess /\ proc[f].age = 0
    BY DEF Init, NoProcess
  <1>2. TypeOK
    <2>1. /\ costs \in {Backfilled, <<>>} /\ slice \subseteq Files
          /\ bound \in {0, Bound} /\ perTest \in BOOLEAN
      BY DEF Init
    <2>2. /\ proc \in [Files -> Processes] /\ tries \in [Files -> 0..Attempts]
          /\ outcome \in [Files -> {"none", "passing", "failing", "pass", "fail", "killed"}]
      BY Constants, NoProcessType DEF Init
    <2>3. clock \in 0..Cap + 1 /\ hangs \in 0..MaxHangs
      BY Constants DEF Init
    <2>4. junit \subseteq Files \union Synthetic
      BY DEF Init
    <2>5. QED
      BY <2>1, <2>2, <2>3, <2>4 DEF Init, TypeOK
  <1>3. QED
    BY <1>1, <1>2 DEF TypeInv, AgeInv, Init

(* The step's own script keeps the types.                                  *)
LEMMA ScriptType ==
  ASSUME TypeInv, Script PROVE TypeInv'
  <1> USE DEF TypeInv, env, verdict, setup, tests
  <1>1. CASE ArmBound
    BY <1>1, Constants DEF ArmBound, ArmedBound, TypeOK, AgeInv
  <1>2. CASE ImportFails \/ TorchLibMissing \/ ProbeHangs
    BY <1>2, Constants DEF ImportFails, TorchLibMissing, ProbeHangs, Exit, TypeOK, AgeInv, Synthetic
  <1>3. CASE Launch
    BY <1>3, Constants DEF Launch, TypeOK, AgeInv
  <1>4. CASE SeeExit
    BY <1>4, Constants DEF SeeExit, Exit, TypeOK, AgeInv
  <1>5. CASE Expire
    BY <1>5, Constants DEF Expire, TypeOK, AgeInv
  <1>6. CASE KillTree \/ (MarkFails /\ RunnerAlive)
    <2>1. StopTree /\ UNCHANGED clock
      BY <1>6 DEF KillTree, MarkFails
    <2>2. proc' \in [Files -> Processes] /\ AgeInv'
      <3>1. NoProcess.age = 0
        BY DEF NoProcess
      <3>2. QED
        BY <2>1, <3>1, NoProcessType DEF StopTree, AgeInv, TypeOK
    <2>3. /\ runner' \in {"none", "running", "stuck", "ended", "killed"}
          /\ outcome' \in [Files -> {"none", "passing", "failing", "pass", "fail", "killed"}]
      BY <2>1 DEF StopTree, TypeOK
    <2>4. QED
      BY <1>6, <2>2, <2>3 DEF KillTree, MarkFails, Exit, TypeOK
  <1>7. CASE Mark \/ (MarkFails /\ ~ RunnerAlive)
    BY <1>7, Constants DEF Mark, MarkFails, Exit, TypeOK, AgeInv
  <1>8. CASE Report
    <2>2. \A xmls : Resolved(code, xmls) \in {0, 1, TimedOut, NoReport, None}
      BY DEF Resolved, TypeOK
    <2>3. junit' \subseteq Files \union Synthetic
      BY <1>8 DEF Report, TypeOK, Synthetic
    <2>4. QED
      BY <1>8, <2>2, <2>3 DEF Report, Exit, TypeOK, AgeInv
  <1>9. QED
    BY <1>1, <1>2, <1>3, <1>4, <1>5, <1>6, <1>7, <1>8 DEF Script

(* A step that replaces one process by another of the type.                *)
LEMMA OneProcessType ==
  ASSUME TypeInv, NEW f \in Files, NEW p \in Processes, p.age <= clock,
         proc' = [proc EXCEPT ![f] = p], clock' = clock
  PROVE  proc' \in [Files -> Processes] /\ AgeInv'
  BY DEF TypeInv, TypeOK, AgeInv

(* The end of a process keeps the types.                                   *)
LEMMA GoneType ==
  ASSUME TypeInv, NEW f \in Files, NEW r \in {"pass", "fail"}, NEW w \in BOOLEAN, Gone(f, r, w),
         killed' \subseteq Files, junit' = junit
  PROVE  TypeInv'
  <1>1. NoProcess.age <= clock
    BY DEF NoProcess, TypeInv, TypeOK
  <1>2. proc' \in [Files -> Processes] /\ AgeInv'
    BY <1>1, OneProcessType, NoProcessType DEF Gone
  <1>3. QED
    BY <1>2 DEF Gone, TypeInv, TypeOK, setup, env, verdict

(* Every step keeps the types: of the step, of run_test.py, of a test file.*)
LEMMA TypeStep == TypeInv /\ [Next]_vars => TypeInv'
  <1> SUFFICES ASSUME TypeInv, [Next]_vars PROVE TypeInv'
    OBVIOUS
  <1> USE DEF TypeInv, env, verdict, setup, tests
  <1>1. CASE UNCHANGED vars
    BY <1>1 DEF vars, TypeOK, AgeInv
  <1>2. CASE Script
    BY <1>2, ScriptType
  <1>3. CASE CrashOnLoad \/ RunnerEnds \/ RunnerHangs
    BY <1>3, Constants DEF CrashOnLoad, RunnerEnds, RunnerHangs, TypeOK, AgeInv
  <1>4. ASSUME NEW f \in Files, Start(f) PROVE TypeInv'
    <2> DEFINE p == [NoProcess EXCEPT !.at = "import", !.timers = ArmedTimers]
    <2>1. p \in Processes /\ p.age = 0
      BY NoProcessType DEF Processes, Stages, ArmedTimers, Timers, NoProcess
    <2>2. p.age <= clock
      BY <2>1 DEF TypeOK
    <2>3. proc' \in [Files -> Processes] /\ AgeInv'
      BY <1>4, <2>1, <2>2, OneProcessType DEF Start
    <2>4. tries' \in [Files -> 0..Attempts]
      <3>1. tries[f] /= Attempts /\ tries' = [tries EXCEPT ![f] = tries[f] + 1]
        BY <1>4 DEF Start, Settled
      <3>2. tries[f] + 1 \in 0..Attempts
        BY <3>1, Constants DEF TypeOK
      <3>3. QED
        BY <3>1, <3>2 DEF TypeOK
    <2>5. QED
      BY <1>4, <2>3, <2>4 DEF Start, TypeOK
  <1>5. ASSUME NEW f \in Files, FirstTest(f) PROVE TypeInv'
    <2> DEFINE p == [proc[f] EXCEPT !.at = "test"]
    <2>1. p \in Processes /\ p.age = proc[f].age
      BY Fields DEF Processes, Stages
    <2>2. proc' = [proc EXCEPT ![f] = p]
      BY <1>5 DEF FirstTest
    <2>3. proc' \in [Files -> Processes] /\ AgeInv'
      BY <1>5, <2>1, <2>2, OneProcessType DEF FirstTest, AgeInv
    <2>5. QED
      BY <1>5, <2>3 DEF FirstTest, TypeOK
  <1>6. ASSUME NEW f \in Files, SessionEnds(f) PROVE TypeInv'
    <2> DEFINE p == [proc[f] EXCEPT !.at = "close"]
    <2>1. p \in Processes /\ p.age = proc[f].age
      BY Fields DEF Processes, Stages
    <2>2. proc' = [proc EXCEPT ![f] = p]
      BY <1>6 DEF SessionEnds
    <2>3. proc' \in [Files -> Processes] /\ AgeInv'
      BY <1>6, <2>1, <2>2, OneProcessType DEF SessionEnds, AgeInv
    <2>5. outcome' \in [Files -> {"none", "passing", "failing", "pass", "fail", "killed"}]
      BY <1>6 DEF SessionEnds, TypeOK
    <2>6. QED
      BY <1>6, <2>3, <2>5 DEF SessionEnds, TypeOK
  <1>7. ASSUME NEW f \in Files, Leave(f) \/ Crash(f) \/ PerTestTimeout(f) PROVE TypeInv'
    BY <1>7, GoneType DEF Leave, Crash, PerTestTimeout, TypeOK
  <1>8. ASSUME NEW f \in Files, Hang(f) PROVE TypeInv'
    <2>1. PICK how \in {"waiting", "gil"} : proc' = [proc EXCEPT ![f].stuck = how]
      BY <1>8 DEF Hang
    <2> DEFINE p == [proc[f] EXCEPT !.stuck = how]
    <2>2. p \in Processes /\ p.age = proc[f].age
      BY Fields DEF Processes
    <2>3. proc' = [proc EXCEPT ![f] = p]
      BY <2>1
    <2>4. proc' \in [Files -> Processes] /\ AgeInv'
      BY <1>8, <2>2, <2>3, OneProcessType DEF Hang, AgeInv
    <2>5. hangs' \in 0..MaxHangs
      BY <1>8, Constants DEF Hang, TypeOK
    <2>6. QED
      BY <1>8, <2>4, <2>5 DEF Hang, TypeOK
  <1>9. ASSUME NEW f \in Files, Fire(f) \/ TreeKill(f) \/ Backstop(f) PROVE TypeInv'
    <2>1. ASSUME NEW p \in Processes, p.age = proc[f].age, proc' = [proc EXCEPT ![f] = p],
                 UNCHANGED <<setup, env, phase, verdict, clock, runner, runCode,
                             tries, outcome, hangs, orphans, killed, junit>>
          PROVE  TypeInv'
      <3>1. proc' \in [Files -> Processes] /\ AgeInv'
        BY <2>1, OneProcessType DEF AgeInv
      <3>2. QED
        BY <2>1, <3>1 DEF TypeOK
    <2>2. \A t \in SUBSET Timers, k \in BOOLEAN :
            LET p == [proc[f] EXCEPT !.timers = t, !.killer = k]
                q == [proc[f] EXCEPT !.killer = k]
            IN p \in Processes /\ p.age = proc[f].age /\ q \in Processes /\ q.age = proc[f].age
      BY Fields DEF Processes
    <2>3. NotedAsKilled(f) => killed' \subseteq Files
      BY DEF NotedAsKilled, TypeOK
    <2>4. CASE Fire(f)
      <3>1. CASE Gone(f, "fail", FALSE) /\ NotedAsKilled(f)
        BY <2>3, <2>4, <3>1, GoneType DEF Fire
      <3>2. CASE proc' = [proc EXCEPT ![f].timers = @ \ {"python"}, ![f].killer = TRUE]
                 /\ UNCHANGED <<setup, env, phase, verdict, clock, runner, runCode,
                                tries, outcome, hangs, orphans, killed>>
        <4>1. proc' = [proc EXCEPT ![f] = [proc[f] EXCEPT !.timers = proc[f].timers \ {"python"},
                                                          !.killer = TRUE]]
          BY <3>2 DEF TypeOK
        <4>2. proc[f].timers \ {"python"} \in SUBSET Timers
          BY Fields
        <4>3. QED
          BY <2>1, <2>2, <2>4, <3>2, <4>1, <4>2 DEF Fire
      <3>3. QED
        BY <2>4, <3>1, <3>2 DEF Fire
    <2>5. CASE TreeKill(f)
      <3>1. CASE Gone(f, "fail", TRUE) /\ NotedAsKilled(f)
        BY <2>3, <2>5, <3>1, GoneType DEF TreeKill
      <3>2. CASE proc' = [proc EXCEPT ![f].killer = FALSE]
                 /\ UNCHANGED <<setup, env, phase, verdict, clock, runner, runCode,
                                tries, outcome, hangs, orphans, killed>>
        <4>1. proc' = [proc EXCEPT ![f] = [proc[f] EXCEPT !.killer = FALSE]]
          BY <3>2
        <4>2. Timers \in SUBSET Timers
          OBVIOUS
        <4>3. QED
          BY <2>1, <2>2, <2>5, <3>2, <4>1, <4>2 DEF TreeKill
      <3>3. QED
        BY <2>5, <3>1, <3>2 DEF TreeKill
    <2>6. CASE Backstop(f)
      BY <2>3, <2>6, GoneType DEF Backstop
    <2>7. QED
      BY <1>9, <2>4, <2>5, <2>6
  <1>10. CASE Tick
    <2>1. clock' = clock + 1 /\ clock' \in 0..Cap + 1
      BY <1>10, Constants DEF Tick, TypeOK
    <2>2. ASSUME NEW f \in Files PROVE proc'[f] \in Processes /\ proc'[f].age <= clock'
      <3>1. CASE Alive(f)
        <4>1. proc[f].age + 1 \in 0..Cap + 1
          BY <2>1, Fields, Constants DEF AgeInv, TypeOK
        <4>2. proc'[f] = [proc[f] EXCEPT !.age = proc[f].age + 1]
          BY <1>10, <3>1 DEF Tick
        <4>3. proc'[f] \in Processes /\ proc'[f].age = proc[f].age + 1
          BY <4>1, <4>2, Fields DEF Processes
        <4>4. QED
          BY <2>1, <4>3, Fields DEF AgeInv, TypeOK
      <3>2. CASE ~ Alive(f)
        BY <1>10, <2>1, <3>2, Fields DEF Tick, AgeInv, TypeOK
      <3>3. QED
        BY <3>1, <3>2
    <2>3. proc' \in [Files -> Processes]
      BY <1>10, <2>2 DEF Tick
    <2>4. QED
      BY <1>10, <2>1, <2>2, <2>3 DEF Tick, TypeOK, AgeInv
  <1>11. CASE StepEnds \/ \E f \in Files : WorkersEnd(f)
    BY <1>11, Aftermath DEF TypeOK, AgeInv
  <1>12. QED
    BY <1>1, <1>2, <1>3, <1>4, <1>5, <1>6, <1>7, <1>8, <1>9, <1>10, <1>11
    DEF Next, RunTest, Bounds, Tests

(* Types and ages hold in every state of the specification.                *)
THEOREM TypesHold == Spec => []TypeInv
  <1>1. QED
    BY TypeInit, TypeStep, PTL DEF Spec

(* Each variable keeps its type; the clock and the ages stay in bounds.    *)
THEOREM TypeCorrect == Spec => []TypeOK
  <1>1. TypeInv => TypeOK
    BY DEF TypeInv
  <1>2. QED
    BY <1>1, TypesHold, PTL

(***************************************************************************)
(* What the timers of a process leave possible.                            *)
(***************************************************************************)
Armed(f) ==
  /\ bound = 0 => proc[f].timers = {} /\ ~ proc[f].killer
  /\ bound > 0 => "native" \in proc[f].timers /\ proc[f].age <= bound + Grace
  /\ proc[f].killer => proc[f].age >= bound

(* A process that works is no older than it may get; one that outlived its *)
(* Python timer, where taskkill works, was stuck with the GIL.             *)
Timely(f) ==
  /\ proc[f].stuck = "no" => proc[f].age <= Length(f)
  /\ ~ KillMayFail /\ bound > 0 =>
       /\ "python" \in proc[f].timers \/ proc[f].killer
       /\ proc[f].age > bound => proc[f].stuck = "gil"

(* No process runs before the tests, and the bound is on only with costs.  *)
SetupInv ==
  /\ phase \in {"arm", "probe"} => runner = "none" /\ \A f \in Files : ~ Alive(f)
  /\ phase /= "arm" /\ bound > 0 => costs = Backfilled

TimerInv == SetupInv /\ \A f \in Files : Alive(f) => Armed(f) /\ Timely(f)

(* The bound and its grace are numbers.                                    *)
LEMMA BoundType == TypeOK => bound \in Nat /\ Bound \in Nat /\ Grace \in Nat
  BY Constants DEF TypeOK

(* Every process takes some time, split or not.                            *)
LEMMA LengthType ==
  ASSUME NEW f \in Files PROVE Length(f) \in Nat /\ Length(f) > 0
  BY ShardAssumption DEF Length

(* What the end of a process means for the others.                         *)
LEMMA GoneFacts ==
  ASSUME TypeOK, NEW f \in Files, NEW r, NEW w, Gone(f, r, w)
  PROVE  /\ UNCHANGED <<bound, phase, runner, costs>>
         /\ \A g \in Files : Alive(g)' => Alive(g) /\ proc'[g] = proc[g] /\ g /= f
  BY DEF Gone, Alive, NoProcess, TypeOK, setup, env

(* A step that leaves a process and what its timers depend on alone.       *)
LEMMA Kept ==
  ASSUME TypeOK, NEW f \in Files, Armed(f) /\ Timely(f),
         proc'[f] = proc[f], UNCHANGED <<bound, costs>>
  PROVE  (Armed(f) /\ Timely(f))'
  BY DEF Armed, Timely, Length

(* No process has a timer at the start.                                    *)
LEMMA TimerInit == Init => TimerInv
  BY DEF Init, TimerInv, SetupInv, Alive, NoProcess

(* The step's script starts no process and ends them only all at once.     *)
LEMMA TimerScript ==
  ASSUME TypeInv, TimerInv, Script PROVE TimerInv'
  <1> TypeOK
    BY DEF TypeInv
  <1> USE DEF env, verdict, setup, tests
  <1>1. CASE ArmBound
    <2>1. SetupInv'
      <3>1. DOMAIN <<>> = {}
        OBVIOUS
      <3>2. costs = Backfilled \/ bound' = 0
        BY <1>1, <3>1 DEF ArmBound, ArmedBound, TypeOK
      <3>3. QED
        BY <1>1, <3>2 DEF ArmBound, TimerInv, SetupInv, Alive
    <2>2. QED
      BY <1>1, <2>1 DEF ArmBound, TimerInv, SetupInv, Alive
  <1>2. CASE KillTree \/ (MarkFails /\ RunnerAlive)
    <2>1. /\ UNCHANGED <<bound, costs>> /\ StopTree
          /\ phase \in {"expired", "marking"} /\ phase' \in {"marking", "exited"}
      BY <1>2 DEF KillTree, MarkFails, Exit
    <2>2. SetupInv'
      BY <2>1 DEF TimerInv, SetupInv
    <2>3. ASSUME NEW f \in Files, Alive(f)' PROVE Alive(f) /\ proc'[f] = proc[f]
      BY <2>1, <2>3 DEF StopTree, Alive, NoProcess
    <2>4. QED
      BY <2>1, <2>2, <2>3, Kept DEF TimerInv
  <1>3. CASE Launch
    BY <1>3 DEF Launch, TimerInv, SetupInv, Alive
  <1>4. CASE ImportFails \/ TorchLibMissing \/ ProbeHangs \/ SeeExit \/ Expire \/ Mark \/ (MarkFails /\ ~ RunnerAlive)
           \/ Report
    <2>1. UNCHANGED <<proc, bound, costs, runner>> /\ phase' \notin {"arm", "probe"} /\ phase /= "arm"
      BY <1>4 DEF ImportFails, TorchLibMissing, ProbeHangs, SeeExit, Expire, Mark, MarkFails, Report, Exit
    <2>2. SetupInv'
      BY <2>1 DEF TimerInv, SetupInv
    <2>3. QED
      BY <2>1, <2>2, Kept DEF TimerInv, Alive
  <1>5. QED
    BY <1>1, <1>2, <1>3, <1>4 DEF Script

(* A step that changes one process, or none.                               *)
LEMMA TimerOne ==
  ASSUME TypeOK, TimerInv, NEW f \in Files,
         UNCHANGED <<bound, costs, phase>>, runner' = runner \/ runner /= "none",
         \A g \in Files \ {f} : proc'[g] = proc[g],
         Alive(f)' => (Alive(f) \/ runner /= "none") /\ (Armed(f) /\ Timely(f))'
  PROVE  TimerInv'
  <1>1. SetupInv'
    BY DEF TimerInv, SetupInv, Alive
  <1>2. ASSUME NEW g \in Files, Alive(g)' PROVE (Armed(g) /\ Timely(g))'
    <2>1. CASE g = f
      BY <1>2, <2>1
    <2>2. CASE g /= f
      BY <1>2, <2>2, Kept DEF TimerInv, Alive
    <2>3. QED
      BY <2>1, <2>2
  <1>3. QED
    BY <1>1, <1>2 DEF TimerInv

(* The end of a process leaves the timers of the others.                   *)
LEMMA TimerGone ==
  ASSUME TypeInv, TimerInv, NEW f \in Files, NEW r, NEW w, Gone(f, r, w)
  PROVE  TimerInv'
  <1>1. /\ UNCHANGED <<bound, phase, runner, costs>>
        /\ \A g \in Files : Alive(g)' => Alive(g) /\ proc'[g] = proc[g] /\ g /= f
    BY GoneFacts DEF TypeInv
  <1>2. SetupInv'
    BY <1>1 DEF TimerInv, SetupInv
  <1>3. QED
    BY <1>1, <1>2, Kept DEF TimerInv, TypeInv

(* Every step keeps what the timers promise; Tick is held back by the due. *)
LEMMA TimerStep == TypeInv /\ TimerInv /\ [Next]_vars => TimerInv'
  <1> SUFFICES ASSUME TypeInv, TimerInv, [Next]_vars PROVE TimerInv'
    OBVIOUS
  <1> TypeOK
    BY DEF TypeInv
  <1> USE DEF env, verdict, setup, tests
  <1>1. CASE UNCHANGED vars
    BY <1>1, Kept DEF vars, TimerInv, SetupInv, Alive
  <1>2. CASE Script
    BY <1>2, TimerScript
  <1>3. CASE CrashOnLoad \/ RunnerEnds \/ RunnerHangs
    <2>1. UNCHANGED <<proc, bound, costs, phase>> /\ runner = "running"
      BY <1>3 DEF CrashOnLoad, RunnerEnds, RunnerHangs
    <2>2. SetupInv'
      BY <2>1 DEF TimerInv, SetupInv, Alive
    <2>3. QED
      BY <2>1, <2>2, Kept DEF TimerInv, Alive
  <1>4. ASSUME NEW f \in Files, Start(f) PROVE TimerInv'
    <2>1. proc'[f] = [NoProcess EXCEPT !.at = "import", !.timers = ArmedTimers]
      BY <1>4 DEF Start, TypeOK
    <2>2. /\ proc'[f].timers = ArmedTimers /\ proc'[f].age = 0 /\ ~ proc'[f].killer
          /\ UNCHANGED <<bound, costs>>
      BY <1>4, <2>1 DEF NoProcess, Start
    <2>3. (Armed(f) /\ Timely(f))'
      BY <2>2, BoundType, LengthType DEF Armed, Timely, ArmedTimers, Timers, Length
    <2>4. QED
      BY <1>4, <2>3, TimerOne DEF Start, TypeOK
  <1>5. ASSUME NEW f \in Files, FirstTest(f) \/ SessionEnds(f) PROVE TimerInv'
    <2>1. PICK where \in Stages : proc' = [proc EXCEPT ![f].at = where]
      BY <1>5 DEF FirstTest, SessionEnds, Stages
    <2>2. /\ Alive(f) /\ UNCHANGED <<bound, costs, phase, runner>>
          /\ proc'[f] = [proc[f] EXCEPT !.at = where]
          /\ \A g \in Files \ {f} : proc'[g] = proc[g]
      BY <1>5, <2>1 DEF FirstTest, SessionEnds, Alive, TypeOK
    <2>3. /\ proc'[f].timers = proc[f].timers /\ proc'[f].age = proc[f].age
          /\ proc'[f].killer = proc[f].killer /\ proc'[f].stuck = proc[f].stuck
      BY <2>2, Fields DEF Processes
    <2>4. (Armed(f) /\ Timely(f))'
      BY <2>2, <2>3 DEF TimerInv, Armed, Timely, Length
    <2>5. QED
      BY <2>2, <2>4, TimerOne
  <1>6. ASSUME NEW f \in Files, Leave(f) \/ Crash(f) \/ PerTestTimeout(f) PROVE TimerInv'
    BY <1>6, TimerGone DEF Leave, Crash, PerTestTimeout
  <1>7. ASSUME NEW f \in Files, Hang(f) PROVE TimerInv'
    <2>1. PICK how \in {"waiting", "gil"} : proc' = [proc EXCEPT ![f].stuck = how]
      BY <1>7 DEF Hang
    <2>2. /\ Alive(f) /\ proc[f].stuck = "no" /\ UNCHANGED <<bound, costs, phase, runner>>
          /\ proc'[f] = [proc[f] EXCEPT !.stuck = how]
          /\ \A g \in Files \ {f} : proc'[g] = proc[g]
      BY <1>7, <2>1 DEF Hang, TypeOK
    <2>3. /\ proc'[f].timers = proc[f].timers /\ proc'[f].age = proc[f].age
          /\ proc'[f].killer = proc[f].killer /\ proc'[f].stuck = how
      BY <2>2, Fields DEF Processes
    <2>4. (Armed(f) /\ Timely(f))'
      BY <2>2, <2>3 DEF TimerInv, Armed, Timely, Length
    <2>5. QED
      BY <2>2, <2>4, TimerOne
  <1>8. ASSUME NEW f \in Files, Fire(f) PROVE TimerInv'
    <2>1. CASE proc' = [proc EXCEPT ![f].timers = @ \ {"python"}, ![f].killer = TRUE]
               /\ UNCHANGED <<setup, env, phase, runner>>
      <3>1. /\ Alive(f) /\ UNCHANGED <<bound, costs, phase, runner>>
            /\ proc'[f] = [proc[f] EXCEPT !.timers = proc[f].timers \ {"python"},
                                          !.killer = TRUE]
            /\ \A g \in Files \ {f} : proc'[g] = proc[g]
        BY <1>8, <2>1 DEF Fire, Due, TypeOK
      <3>2. /\ proc'[f].timers = proc[f].timers \ {"python"} /\ proc'[f].age = proc[f].age
            /\ proc'[f].killer /\ proc'[f].stuck = proc[f].stuck
        BY <3>1, Fields DEF Processes
      <3>3. "python" \in proc[f].timers /\ proc[f].age >= bound
        BY <1>8 DEF Fire, Due, Deadline
      <3>4. (Armed(f) /\ Timely(f))'
        BY <3>1, <3>2, <3>3 DEF TimerInv, Armed, Timely, Length
      <3>5. QED
        BY <3>1, <3>4, TimerOne
    <2>2. CASE Gone(f, "fail", FALSE)
      BY <2>2, TimerGone
    <2>3. QED
      BY <1>8, <2>1, <2>2 DEF Fire
  <1>9. ASSUME NEW f \in Files, TreeKill(f) PROVE TimerInv'
    <2>1. CASE KillMayFail /\ proc' = [proc EXCEPT ![f].killer = FALSE]
               /\ UNCHANGED <<setup, env, phase, runner>>
      <3>1. /\ Alive(f) /\ UNCHANGED <<bound, costs, phase, runner>>
            /\ proc'[f] = [proc[f] EXCEPT !.killer = FALSE]
            /\ \A g \in Files \ {f} : proc'[g] = proc[g]
        BY <1>9, <2>1 DEF TreeKill, TypeOK
      <3>2. /\ proc'[f].timers = proc[f].timers /\ proc'[f].age = proc[f].age
            /\ ~ proc'[f].killer /\ proc'[f].stuck = proc[f].stuck
        BY <3>1, Fields DEF Processes
      <3>3. (Armed(f) /\ Timely(f))'
        BY <2>1, <3>1, <3>2 DEF TimerInv, Armed, Timely, Length
      <3>4. QED
        BY <3>1, <3>3, TimerOne
    <2>2. CASE Gone(f, "fail", TRUE)
      BY <2>2, TimerGone
    <2>3. QED
      BY <1>9, <2>1, <2>2 DEF TreeKill
  <1>10. ASSUME NEW f \in Files, Backstop(f) PROVE TimerInv'
    BY <1>10, TimerGone DEF Backstop
  <1>11. CASE Tick
    <2>1. UNCHANGED <<bound, costs, phase, runner>> /\ phase = "running"
      BY <1>11 DEF Tick
    <2>2. SetupInv'
      BY <2>1 DEF TimerInv, SetupInv
    <2>3. ASSUME NEW f \in Files, Alive(f)' PROVE (Armed(f) /\ Timely(f))'
      <3>1. Alive(f) /\ proc'[f] = [proc[f] EXCEPT !.age = proc[f].age + 1]
        BY <1>11, <2>3 DEF Tick, Alive
      <3>2. /\ proc'[f].timers = proc[f].timers /\ proc'[f].age = proc[f].age + 1
            /\ proc'[f].killer = proc[f].killer /\ proc'[f].stuck = proc[f].stuck
        BY <3>1, Fields DEF Processes
      <3>3. ~ Overdue(f)
        BY <1>11 DEF Tick
      <3>4. /\ proc[f].stuck = "no" => ~ (proc[f].age >= Length(f))
            /\ ~ proc[f].killer
            /\ "native" \in proc[f].timers => ~ (proc[f].age >= bound + Grace)
            /\ "python" \in proc[f].timers /\ proc[f].stuck /= "gil" => ~ (proc[f].age >= bound)
        BY <3>1, <3>3 DEF Overdue, Due, Deadline, Timers
      <3>5. proc[f].age \in Nat /\ Length(f) \in Nat /\ bound \in Nat /\ Grace \in Nat
        BY Fields, LengthType, BoundType, Constants
      <3>6. Length(f)' = Length(f)
        BY <2>1 DEF Length
      <3>7. Armed(f)'
        BY <2>1, <3>1, <3>2, <3>4, <3>5 DEF TimerInv, Armed
      <3>8. Timely(f)'
        BY <2>1, <3>1, <3>2, <3>4, <3>5, <3>6 DEF TimerInv, Timely
      <3>9. QED
        BY <3>7, <3>8
    <2>4. QED
      BY <2>2, <2>3 DEF TimerInv
  <1>12. CASE StepEnds \/ \E f \in Files : WorkersEnd(f)
    <2>1. SetupInv'
      BY <1>12, Aftermath DEF TimerInv, SetupInv, Alive
    <2>2. QED
      BY <1>12, <2>1, Aftermath, Kept DEF TimerInv, Alive
  <1>13. QED
    BY <1>1, <1>2, <1>3, <1>4, <1>5, <1>6, <1>7, <1>8, <1>9, <1>10, <1>11, <1>12
    DEF Next, RunTest, Bounds, Tests

(* What the timers promise holds in every state of the specification.      *)
THEOREM TimersHold == Spec => [](TypeInv /\ TimerInv)
  <1>1. QED
    BY TypeInit, TypeStep, TimerInit, TimerStep, PTL DEF Spec

(* While the bound is on, no process outlives its two timers.              *)
THEOREM BoundHolds == Spec => []NoneOutlivesItsBound
  <1>1. TypeInv /\ TimerInv => NoneOutlivesItsBound
    BY DEF TypeInv, TypeOK, TimerInv, Armed, NoneOutlivesItsBound
  <1>2. QED
    BY <1>1, TimersHold, PTL

(* Where taskkill works, only faulthandler leaves workers behind.          *)
THEOREM WorkersGo ==
  ASSUME KillMayFail = FALSE PROVE Spec => OnlyStarvedLeaveWorkers
  <1>1. TypeInv /\ TimerInv /\ [Next]_vars
          => [\A f \in orphans' \ orphans :
                 proc[f].stuck = "gil" \/ (KillMayFail /\ ~ proc[f].killer)]_vars
    <2> SUFFICES ASSUME TypeInv, TimerInv, Next, NEW f \in orphans' \ orphans
                 PROVE  proc[f].stuck = "gil" \/ (KillMayFail /\ ~ proc[f].killer)
      OBVIOUS
    <2>1. f \in Files /\ Backstop(f)
      <3>1. ASSUME NEW g \in Files, NEW r, NEW w \in BOOLEAN, Gone(g, r, w)
            PROVE  w = FALSE /\ f = g
        BY <3>1 DEF Gone
      <3>2. orphans' /= orphans
        OBVIOUS
      <3>3. ~ Script /\ ~ RunTest /\ ~ Tick
        BY <3>2 DEF Script, ArmBound, ImportFails, TorchLibMissing, ProbeHangs, Launch, SeeExit, Expire,
                    KillTree, StopTree, Mark, MarkFails, Report, RunTest, CrashOnLoad, RunnerEnds,
                    RunnerHangs, Start, Tick, tests
      <3>8. ~ StepEnds /\ \A g \in Files : ~ WorkersEnd(g)
        BY <3>2, Aftermath
      <3>4. ~ Tests
        BY <3>1, <3>2 DEF Tests, FirstTest, SessionEnds, Leave, Crash, PerTestTimeout, Hang
      <3>5. ASSUME NEW g \in Files PROVE ~ Fire(g) /\ ~ TreeKill(g)
        BY <3>1, <3>2 DEF Fire, TreeKill
      <3>6. PICK g \in Files : Backstop(g)
        BY <3>3, <3>4, <3>5, <3>8 DEF Next, Bounds
      <3>7. QED
        BY <3>1, <3>6 DEF Backstop
    <2>2. /\ Alive(f) /\ "native" \in proc[f].timers /\ proc[f].age >= bound + Grace
      BY <2>1 DEF Backstop, Due, Deadline
    <2>3. bound > 0 /\ proc[f].age > bound
      BY <2>1, <2>2, BoundType, Constants, Fields DEF TimerInv, Armed, TypeInv
    <2>4. QED
      BY <2>1, <2>2, <2>3 DEF TimerInv, Timely
  <1>2. QED
    BY <1>1, TimersHold, PTL DEF Spec, OnlyStarvedLeaveWorkers

(***************************************************************************)
(* The bound and work that completes.                                      *)
(***************************************************************************)
(* The statistics know every file, and what run_test.py does not split, or *)
(* splits off, is shorter than the bound.                                  *)
TrueCosts == Measured = Files /\ Piece < Bound /\ Threshold < Bound

(* A process whose bound ended was stuck.                                  *)
LEMMA OverdueIsStuck ==
  ASSUME TrueCosts, TypeInv, TimerInv, NEW f \in Files, Alive(f),
         proc[f].killer \/ \E t \in Timers : Due(f, t)
  PROVE  proc[f].stuck /= "no"
  <1>1. bound > 0 /\ bound = Bound /\ proc[f].age >= Bound
    BY Fields, Constants DEF TypeInv, TypeOK, TimerInv, Armed, Due, Deadline, Timers
  <1>2. costs = Backfilled
    BY <1>1 DEF TimerInv, SetupInv
  <1>3. Length(f) < Bound
    BY <1>2, Constants DEF Length, Backfilled, TrueCosts
  <1>4. QED
    BY <1>1, <1>3, Fields, LengthType, Constants DEF TimerInv, Timely, TypeInv

(* If the statistics are true the bound ends no process at work, whether   *)
(* the seed step ran or not.                                               *)
THEOREM WorkCompletes ==
  ASSUME TrueCosts PROVE Spec => []OnlyHungAreKilled
  <1>1. Init => OnlyHungAreKilled
    BY DEF Init, OnlyHungAreKilled
  <1>2. TypeInv /\ TimerInv /\ OnlyHungAreKilled /\ [Next]_vars => OnlyHungAreKilled'
    <2> SUFFICES ASSUME TypeInv, TimerInv, killed = {}, [Next]_vars PROVE killed' = {}
      BY DEF OnlyHungAreKilled
    <2>1. ASSUME NEW f \in Files, NotedAsKilled(f), Fire(f) \/ TreeKill(f) \/ Backstop(f)
          PROVE  killed' = {}
      <3>1. Alive(f) /\ (proc[f].killer \/ \E t \in Timers : Due(f, t))
        BY <2>1 DEF Fire, TreeKill, Backstop, Due, Timers
      <3>2. QED
        BY <2>1, <3>1, OverdueIsStuck DEF NotedAsKilled
    <2>2. CASE Bounds
      BY <2>1, <2>2 DEF Bounds, Fire, TreeKill, Backstop
    <2>3. CASE UNCHANGED vars \/ Script \/ RunTest \/ Tick
      BY <2>3 DEF vars, Script, ArmBound, ImportFails, TorchLibMissing, ProbeHangs, Launch, SeeExit, Expire,
                  KillTree, StopTree, Mark, MarkFails, Report, RunTest, CrashOnLoad, RunnerEnds,
                  RunnerHangs, Start, Tick, tests
    <2>4. CASE Tests
      BY <2>4 DEF Tests, FirstTest, SessionEnds, Leave, Crash, PerTestTimeout, Hang
    <2>5. CASE StepEnds \/ \E f \in Files : WorkersEnd(f)
      BY <2>5, Aftermath
    <2>6. QED
      BY <2>2, <2>3, <2>4, <2>5 DEF Next
  <1>3. QED
    BY <1>1, <1>2, TimersHold, PTL DEF Spec

(***************************************************************************)
(* The verdict.                                                            *)
(***************************************************************************)
ScriptOver == phase \in {"exited", "over"}

(* run_test.py outlives its processes, which are of the shard.             *)
AliveInv == \A f \in Files : Alive(f) => f \in slice /\ RunnerAlive /\ tries[f] > 0

(* A session that passed left its report, and until the script is over the *)
(* reports are those of processes of the shard.                            *)
ReportInv ==
  /\ \A f \in Files : outcome[f] \in {"passing", "pass"} => f \in junit
  /\ ~ ScriptOver => \A x \in junit : x \in slice /\ tries[x] > 0

(* What an exit code of run_test.py says; it is lost only on load.         *)
EndedInv ==
  runner = "ended" => /\ runCode = 0 => AllPassed
                      /\ runCode = None => \A f \in Files : tries[f] = 0

(* What the step makes of it.                                              *)
CodeInv ==
  /\ phase = "report" /\ code = 0 => runner = "ended" /\ runCode \in {0, None}
  /\ exitCode = 0 => ScriptOver /\ slice /= {} /\ runner = "ended" /\ runCode = 0

VerdictInv == AliveInv /\ ReportInv /\ EndedInv /\ CodeInv

(* None is no exit code.                                                   *)
LEMMA NoCode == None \notin {0, 1, 124, 125}
  BY ShardAssumption

(* Before the first step there is no verdict.                              *)
LEMMA VerdictInit == Init => VerdictInv
  BY NoCode DEF Init, ScriptOver, VerdictInv, AliveInv, ReportInv, EndedInv, CodeInv, Alive, NoProcess

(* A step of processes at work: none is new, only their outcomes change,   *)
(* and who passes has left a report.                                       *)
LEMMA VerdictKept ==
  ASSUME TypeOK, VerdictInv,
         UNCHANGED <<slice, runner, runCode, phase, code, exitCode, tries>>,
         \A g \in Files : Alive(g)' => Alive(g),
         \A g \in Files : outcome'[g] = outcome[g] \/ Alive(g),
         junit \subseteq junit',
         \A x \in junit' \ junit : x \in slice /\ tries[x] > 0,
         \A g \in Files : outcome'[g] \in {"passing", "pass"} =>
                            outcome[g] \in {"passing", "pass"} \/ g \in junit'
  PROVE  VerdictInv'
  <1>1. AliveInv' /\ ReportInv' /\ CodeInv'
    BY DEF VerdictInv, AliveInv, ReportInv, CodeInv, ScriptOver, RunnerAlive
  <1>2. EndedInv'
    <2>1. ASSUME runner = "ended", NEW g \in Files PROVE outcome'[g] = outcome[g]
      BY <2>1 DEF VerdictInv, AliveInv, RunnerAlive
    <2>2. QED
      BY <2>1 DEF VerdictInv, EndedInv, AllPassed, TypeOK
  <1>3. QED
    BY <1>1, <1>2 DEF VerdictInv

(* The end of a process, whose report exists if it passed.                 *)
LEMMA VerdictGone ==
  ASSUME TypeOK, VerdictInv, NEW f \in Files, NEW r, NEW w, Alive(f), Gone(f, r, w), junit' = junit,
         r = "pass" => outcome[f] = "passing", r /= "passing"
  PROVE  VerdictInv'
  <1>1. \A g \in Files : Alive(g)' => Alive(g)
    BY GoneFacts
  <1>2. UNCHANGED <<slice, runner, runCode, phase, code, exitCode, tries>>
    BY DEF Gone, setup, verdict
  <1>3. \A g \in Files : outcome'[g] = IF g = f THEN r ELSE outcome[g]
    BY DEF Gone, TypeOK
  <1>4. QED
    BY <1>1, <1>2, <1>3, VerdictKept

(* The step's script makes of run_test.py's end what CodeInv says.         *)
LEMMA VerdictScript ==
  ASSUME TypeInv, VerdictInv, Script PROVE VerdictInv'
  <1> TypeOK
    BY DEF TypeInv
  <1> USE NoCode DEF setup, env, verdict, tests, ScriptOver
  <1>1. CASE ArmBound \/ ProbeHangs \/ Launch \/ Expire \/ Mark
    <2>1. /\ UNCHANGED <<proc, slice, tries, outcome, junit, runCode, exitCode>>
          /\ phase \notin {"exited", "over", "report"} /\ phase' \notin {"exited", "over"}
          /\ phase' = "report" => code' = TimedOut
          /\ runner' = runner \/ runner' = "running"
      BY <1>1 DEF ArmBound, ProbeHangs, Launch, Expire, Mark
    <2>2. AliveInv' /\ ReportInv' /\ EndedInv' /\ CodeInv'
      BY <2>1 DEF VerdictInv, AliveInv, ReportInv, EndedInv, CodeInv, Alive, RunnerAlive,
                  AllPassed, TimedOut
    <2>3. QED
      BY <2>2 DEF VerdictInv
  <1>2. CASE ImportFails \/ TorchLibMissing
    <2>1. /\ UNCHANGED <<proc, slice, tries, outcome, runner, runCode>>
          /\ junit \subseteq junit' /\ phase' = "exited" /\ exitCode' = 1
      BY <1>2 DEF ImportFails, TorchLibMissing, Exit
    <2>2. AliveInv' /\ ReportInv' /\ EndedInv' /\ CodeInv'
      BY <2>1 DEF VerdictInv, AliveInv, ReportInv, EndedInv, CodeInv, Alive, RunnerAlive, AllPassed
    <2>3. QED
      BY <2>2 DEF VerdictInv
  <1>3. CASE SeeExit
    <2>1. /\ UNCHANGED <<proc, slice, tries, outcome, junit, runner, runCode>>
          /\ phase = "running" /\ runner = "ended"
          /\ \/ /\ phase' = "report" /\ exitCode' = exitCode
                /\ code' = IF runCode = None THEN 0 ELSE runCode
             \/ phase' = "exited" /\ exitCode' = 1
      BY <1>3 DEF SeeExit, Exit
    <2>2. AliveInv' /\ ReportInv' /\ EndedInv' /\ CodeInv'
      BY <2>1 DEF VerdictInv, AliveInv, ReportInv, EndedInv, CodeInv, Alive, RunnerAlive, AllPassed
    <2>3. QED
      BY <2>2 DEF VerdictInv
  <1>4. CASE KillTree \/ MarkFails
    <2>1. /\ UNCHANGED <<slice, tries, junit, runCode>> /\ phase \in {"expired", "marking"}
          /\ \/ phase' = "marking" /\ exitCode' = exitCode
             \/ phase' = "exited" /\ exitCode' = 1
      BY <1>4 DEF KillTree, MarkFails, Exit
    <2>2. CASE UNCHANGED <<runner, proc, outcome>>
      <3>1. AliveInv' /\ ReportInv' /\ EndedInv' /\ CodeInv'
        BY <2>1, <2>2 DEF VerdictInv, AliveInv, ReportInv, EndedInv, CodeInv, Alive, RunnerAlive, AllPassed
      <3>2. QED
        BY <3>1 DEF VerdictInv
    <2>3. CASE /\ runner' = IF RunnerAlive THEN "killed" ELSE runner
               /\ proc' = [f \in Files |-> NoProcess]
               /\ outcome' = [f \in Files |-> IF Alive(f) THEN "killed" ELSE outcome[f]]
      <3>1. AliveInv'
        BY <2>3 DEF AliveInv, Alive, NoProcess
      <3>2. ReportInv' /\ CodeInv'
        BY <2>1, <2>3 DEF VerdictInv, ReportInv, CodeInv
      <3>3. EndedInv'
        <4>1. runner' = "ended" => runner = "ended" /\ \A f \in Files : outcome'[f] = outcome[f]
          BY <2>3 DEF VerdictInv, AliveInv, RunnerAlive
        <4>2. QED
          BY <2>1, <4>1 DEF VerdictInv, EndedInv, AllPassed, TypeOK
      <3>4. QED
        BY <3>1, <3>2, <3>3 DEF VerdictInv
    <2>4. QED
      BY <1>4, <2>2, <2>3 DEF KillTree, MarkFails, StopTree
  <1>5. CASE Report
    <2>1. /\ UNCHANGED <<proc, slice, tries, outcome, runner, runCode>>
          /\ phase = "report" /\ phase' = "exited" /\ junit \subseteq junit'
      BY <1>5 DEF Report, Exit
    <2>2. AliveInv' /\ ReportInv' /\ EndedInv'
      BY <2>1 DEF VerdictInv, AliveInv, ReportInv, EndedInv, Alive, RunnerAlive, AllPassed
    <2>3. ASSUME exitCode' = 0 PROVE slice /= {} /\ runner = "ended" /\ runCode = 0
      <3>1. code = 0 /\ junit /= {}
        BY <1>5, <2>3 DEF Report, Exit, Resolved, TimedOut, NoReport
      <3>2. PICK x \in junit : x \in slice /\ tries[x] > 0
        BY <2>1, <3>1 DEF VerdictInv, ReportInv
      <3>3. x \in Files
        BY <3>2 DEF TypeOK
      <3>4. QED
        BY <2>1, <3>1, <3>2, <3>3 DEF VerdictInv, CodeInv, EndedInv
    <2>4. CodeInv'
      BY <2>1, <2>3 DEF CodeInv
    <2>5. QED
      BY <2>2, <2>4 DEF VerdictInv
  <1>6. QED
    BY <1>1, <1>2, <1>3, <1>4, <1>5 DEF Script

(* Every step keeps what is needed to trust a green shard.                 *)
LEMMA VerdictStep == TypeInv /\ VerdictInv /\ [Next]_vars => VerdictInv'
  <1> SUFFICES ASSUME TypeInv, VerdictInv, [Next]_vars PROVE VerdictInv'
    OBVIOUS
  <1> TypeOK
    BY DEF TypeInv
  <1> USE DEF setup, env, verdict, tests, ScriptOver
  <1>1. CASE UNCHANGED vars
    BY <1>1, VerdictKept DEF vars, Alive
  <1>2. CASE Script
    BY <1>2, VerdictScript
  <1>3. CASE CrashOnLoad \/ RunnerEnds \/ RunnerHangs
    <2>1. /\ UNCHANGED <<proc, slice, tries, outcome, junit, phase, code, exitCode>>
          /\ runner = "running"
      BY <1>3 DEF CrashOnLoad, RunnerEnds, RunnerHangs
    <2>2. runner' = "ended" => \A f \in Files : ~ Alive(f)
      BY <1>3 DEF CrashOnLoad, RunnerEnds, RunnerHangs, VerdictInv, AliveInv, Settled, TypeOK
    <2>3. runner' \in {"ended", "stuck"}
      BY <1>3 DEF CrashOnLoad, RunnerEnds, RunnerHangs
    <2>4. AliveInv' /\ ReportInv' /\ CodeInv'
      BY <2>1, <2>2, <2>3 DEF VerdictInv, AliveInv, ReportInv, CodeInv, Alive, RunnerAlive
    <2>5. EndedInv'
      BY <1>3, <2>1, NoCode DEF CrashOnLoad, RunnerEnds, RunnerHangs, EndedInv, AllPassed
    <2>6. QED
      BY <2>4, <2>5 DEF VerdictInv
  <1>4. ASSUME NEW f \in Files, Start(f) PROVE VerdictInv'
    <2>1. /\ UNCHANGED <<slice, runner, runCode, outcome, junit, phase, code, exitCode>>
          /\ runner = "running" /\ f \in slice
          /\ \A g \in Files : tries'[g] = IF g = f THEN tries[g] + 1 ELSE tries[g]
          /\ \A g \in Files \ {f} : proc'[g] = proc[g]
      BY <1>4 DEF Start, TypeOK
    <2>2. ASSUME NEW g \in Files PROVE tries[g] \in Nat /\ (tries[g] > 0 \/ g = f => tries'[g] > 0)
      <3>1. tries[g] \in 0..Attempts
        BY DEF TypeOK
      <3>2. tries'[g] = IF g = f THEN tries[g] + 1 ELSE tries[g]
        BY <2>1
      <3>3. QED
        BY <3>1, <3>2, Constants
    <2>3. AliveInv'
      BY <2>1, <2>2 DEF VerdictInv, AliveInv, Alive, RunnerAlive
    <2>4. ReportInv'
      <3>1. slice \subseteq Files
        BY DEF TypeOK
      <3>2. QED
        BY <2>1, <2>2, <3>1 DEF VerdictInv, ReportInv
    <2>5. EndedInv' /\ CodeInv'
      BY <2>1 DEF VerdictInv, EndedInv, CodeInv
    <2>6. QED
      BY <2>3, <2>4, <2>5 DEF VerdictInv
  <1>5. ASSUME NEW f \in Files, FirstTest(f) \/ Hang(f) PROVE VerdictInv'
    <2>1. /\ UNCHANGED <<slice, runner, runCode, outcome, junit, phase, code, exitCode, tries>>
          /\ \A g \in Files : Alive(g)' => Alive(g)
      BY <1>5 DEF FirstTest, Hang, Alive, TypeOK
    <2>2. QED
      BY <2>1, VerdictKept
  <1>6. ASSUME NEW f \in Files, SessionEnds(f) PROVE VerdictInv'
    <2>1. /\ UNCHANGED <<slice, runner, runCode, phase, code, exitCode, tries>>
          /\ Alive(f) /\ junit' = junit \union {f}
          /\ \A g \in Files : Alive(g)' => Alive(g)
          /\ \A g \in Files \ {f} : outcome'[g] = outcome[g]
      BY <1>6 DEF SessionEnds, Alive, TypeOK
    <2>2. f \in slice /\ tries[f] > 0
      BY <2>1 DEF VerdictInv, AliveInv
    <2>3. QED
      BY <2>1, <2>2, VerdictKept
  <1>7. ASSUME NEW f \in Files, Leave(f) \/ Crash(f) \/ PerTestTimeout(f) PROVE VerdictInv'
    BY <1>7, VerdictGone DEF Leave, Crash, PerTestTimeout, Alive
  <1>8. ASSUME NEW f \in Files, Fire(f) \/ TreeKill(f) \/ Backstop(f) PROVE VerdictInv'
    <2>1. Alive(f) /\ junit' = junit
      BY <1>8 DEF Fire, TreeKill, Backstop, Due
    <2>2. CASE Gone(f, "fail", TRUE) \/ Gone(f, "fail", FALSE)
      BY <2>1, <2>2, VerdictGone
    <2>3. CASE /\ UNCHANGED <<setup, env, phase, verdict, clock, runner, runCode,
                              tries, outcome, hangs, orphans, killed>>
               /\ \/ proc' = [proc EXCEPT ![f].timers = @ \ {"python"}, ![f].killer = TRUE]
                  \/ proc' = [proc EXCEPT ![f].killer = FALSE]
      <3>1. \A g \in Files : Alive(g)' => Alive(g)
        BY <2>1, <2>3 DEF Alive, TypeOK
      <3>2. QED
        BY <2>1, <2>3, <3>1, VerdictKept
    <2>4. QED
      BY <1>8, <2>2, <2>3 DEF Fire, TreeKill, Backstop
  <1>9. CASE Tick
    <2>1. /\ UNCHANGED <<slice, runner, runCode, outcome, junit, phase, code, exitCode, tries>>
          /\ \A g \in Files : Alive(g)' => Alive(g)
      BY <1>9 DEF Tick, Alive
    <2>2. QED
      BY <2>1, VerdictKept
  <1>10. CASE StepEnds \/ \E f \in Files : WorkersEnd(f)
    BY <1>10, Aftermath DEF VerdictInv, AliveInv, ReportInv, EndedInv, CodeInv, Alive, RunnerAlive, AllPassed
  <1>11. QED
    BY <1>1, <1>2, <1>3, <1>4, <1>5, <1>6, <1>7, <1>8, <1>9, <1>10
    DEF Next, RunTest, Bounds, Tests

(* A green shard ran every file of its slice to a pass and to a report,    *)
(* for any files, hangs, crashes, and with or without a working taskkill.  *)
THEOREM GreenPassed == Spec => []GreenMeansPassed
  <1>1. VerdictInv /\ TypeInv => GreenMeansPassed
    BY DEF VerdictInv, ReportInv, EndedInv, CodeInv, AllPassed, GreenMeansPassed, TypeInv, TypeOK
  <1>2. Spec => []VerdictInv
    BY VerdictInit, VerdictStep, TypesHold, PTL DEF Spec
  <1>3. QED
    BY <1>1, <1>2, TypesHold, PTL

(***************************************************************************)
(* What a hang costs.                                                      *)
(***************************************************************************)
(* Every unit of time is charged to a process that ran then, as a pair of  *)
(* the process and its age after it; hung holds the processes that hung.   *)
(* A process is charged for each age once, so the charges of one that hung *)
(* fit into the bound and its grace, those of the others into Length.      *)
Charged(charges, hung) ==
  /\ charges \subseteq Started \X (Nat \ {0}) /\ hung \subseteq Started
  /\ IsFiniteSet(charges) /\ Cardinality(charges) = clock
  /\ Cardinality(hung) = hangs
  /\ \A c \in charges : /\ c[1][1] \in slice /\ c[2] <= bound + Grace
                        /\ c[1] \notin hung => c[2] <= Length(c[1][1])
  /\ \A f \in Files : Alive(f) =>
       /\ <<f, tries[f]>> \in hung <=> proc[f].stuck /= "no"
       /\ \A c \in charges : c[1] = <<f, tries[f]>> => c[2] <= proc[f].age

(* While the bound is on and run_test.py has not hung, ended or been       *)
(* killed, the clock is accounted for.                                     *)
CostInv ==
  bound > 0 /\ runner \in {"none", "running"} =>
    \E charges, hung : Charged(charges, hung)

(* A process that is started is a new one.                                 *)
LEMMA StartedGrows ==
  ASSUME TypeOK, TypeOK', \A f \in Files : tries[f] <= tries'[f]
  PROVE  Started \subseteq Started'
  BY Constants DEF Started, TypeOK

(* Started is finite.                                                      *)
LEMMA StartedFinite == IsFiniteSet(Started)
  <1>1. IsFiniteSet(1..Attempts)
    <2>1. 1 \in Int /\ Attempts \in Int
      BY Constants
    <2>2. QED
      BY <2>1, FS_Interval
  <1>2. IsFiniteSet(Files \X (1..Attempts))
    BY <1>1, FS_Product, ShardAssumption
  <1>3. QED
    BY <1>2, FS_Subset DEF Started

(* At the start there is nothing to account for.                           *)
LEMMA CostInit == Init => CostInv
  <1> SUFFICES ASSUME Init PROVE Charged({}, {})
    BY DEF CostInv
  <1>1. IsFiniteSet({}) /\ Cardinality({}) = 0
    BY FS_EmptySet
  <1>2. QED
    BY <1>1 DEF Init, Charged, Alive, NoProcess

(* A step that starts no process and lets none of them hang or grow older. *)
LEMMA CostKept ==
  ASSUME TypeOK, CostInv,
         UNCHANGED <<costs, slice, clock, hangs, tries>>, bound' > 0 => bound' = bound,
         runner' \in {"none", "running"} => runner \in {"none", "running"},
         \A g \in Files : Alive(g)' =>
            Alive(g) /\ proc'[g].age = proc[g].age /\ proc'[g].stuck = proc[g].stuck
  PROVE  CostInv'
  <1> SUFFICES ASSUME bound' > 0, runner' \in {"none", "running"}
               PROVE  \E charges, hung : Charged(charges, hung)'
    BY DEF CostInv
  <1>1. PICK charges, hung : Charged(charges, hung)
    BY DEF CostInv
  <1>2. Started' = Started /\ bound' = bound /\ \A f : Length(f)' = Length(f)
    BY DEF Started, Length
  <1>3. Charged(charges, hung)'
    BY <1>1, <1>2 DEF Charged
  <1>4. QED
    BY <1>3

(* The step's script and its end of the tree.                              *)
LEMMA CostScript ==
  ASSUME TypeInv, TimerInv, CostInv, Script PROVE CostInv'
  <1> USE DEF env, verdict, setup, tests, TypeInv
  <1>1. CASE ArmBound
    <2>1. bound' = bound \/ bound' = 0
      BY <1>1 DEF ArmBound, ArmedBound
    <2>2. QED
      BY <1>1, <2>1, CostKept DEF ArmBound, Alive
  <1>2. CASE Launch
    <2>1. runner = "none"
      BY <1>2 DEF Launch, TimerInv, SetupInv
    <2>2. QED
      BY <1>2, <2>1, CostKept DEF Launch, Alive
  <1>3. CASE KillTree \/ (MarkFails /\ RunnerAlive)
    <2>1. /\ UNCHANGED <<bound, costs, slice, clock, hangs, tries>> /\ StopTree
      BY <1>3 DEF KillTree, MarkFails, Exit
    <2>2. \A g \in Files : Alive(g)' => Alive(g) /\ proc'[g] = proc[g]
      BY <2>1 DEF StopTree, Alive, NoProcess
    <2>3. runner' \in {"none", "running"} => runner' = runner
      BY <2>1 DEF StopTree
    <2>4. QED
      BY <2>1, <2>2, <2>3, CostKept
  <1>4. CASE ImportFails \/ TorchLibMissing \/ ProbeHangs \/ SeeExit \/ Expire \/ Mark \/ (MarkFails /\ ~ RunnerAlive)
           \/ Report
    <2>1. UNCHANGED <<proc, bound, costs, slice, clock, hangs, tries, runner>>
      BY <1>4 DEF ImportFails, TorchLibMissing, ProbeHangs, SeeExit, Expire, Mark, MarkFails, Report, Exit
    <2>2. QED
      BY <2>1, CostKept DEF Alive
  <1>5. QED
    BY <1>1, <1>2, <1>3, <1>4 DEF Script

(* The end of a process is charged to nobody.                              *)
LEMMA CostGone ==
  ASSUME TypeOK, CostInv, NEW f \in Files, NEW r, NEW w, Gone(f, r, w) PROVE CostInv'
  <1>1. \A g \in Files : Alive(g)' => Alive(g) /\ proc'[g] = proc[g]
    BY GoneFacts
  <1>2. QED
    BY <1>1, CostKept DEF Gone, setup, env

(* The process that is started is charged for nothing and has not hung.    *)
LEMMA CostStart ==
  ASSUME TypeInv, TypeInv', CostInv, NEW f \in Files, Start(f) PROVE CostInv'
  <1> SUFFICES ASSUME bound > 0
               PROVE  \E charges, hung : Charged(charges, hung)'
    BY DEF CostInv, Start, env
  <1>1. PICK charges, hung : Charged(charges, hung)
    BY DEF CostInv, Start
  <1>2. /\ UNCHANGED <<costs, slice, bound, clock, hangs, runner>>
        /\ \A g \in Files : tries'[g] = IF g = f THEN tries[g] + 1 ELSE tries[g]
        /\ \A g \in Files \ {f} : proc'[g] = proc[g]
        /\ proc'[f].stuck = "no"
    BY DEF Start, setup, env, TypeInv, TypeOK, NoProcess
  <1>3. ASSUME NEW g \in Files PROVE tries[g] \in Nat /\ tries[g] <= tries'[g]
    <2>1. tries \in [Files -> 0..Attempts]
      BY DEF TypeInv, TypeOK
    <2>2. tries[g] \in Nat
      BY <2>1, Constants
    <2>3. QED
      BY <1>2, <2>2
  <1>4. Started \subseteq Started'
    BY <1>3, StartedGrows DEF TypeInv
  <1>5. <<f, tries'[f]>> \notin Started
    BY <1>2, <1>3 DEF Started
  <1>6. \A c \in charges : c[1] \in Started
    BY <1>1 DEF Charged
  <1>7. \A g : Length(g)' = Length(g)
    BY <1>2 DEF Length
  <1>8. ASSUME NEW g \in Files, Alive(g)'
        PROVE  /\ <<g, tries'[g]>> \in hung <=> proc'[g].stuck /= "no"
               /\ \A c \in charges : c[1] = <<g, tries'[g]>> => c[2] <= proc'[g].age
    <2>1. CASE g = f
      BY <1>1, <1>2, <1>5, <1>6, <2>1 DEF Charged
    <2>2. CASE g /= f
      BY <1>1, <1>2, <1>8, <2>2 DEF Charged, Alive
    <2>3. QED
      BY <2>1, <2>2
  <1>9. charges \subseteq Started' \X (Nat \ {0}) /\ hung \subseteq Started'
    BY <1>1, <1>4 DEF Charged
  <1>10. Charged(charges, hung)'
    BY <1>1, <1>2, <1>7, <1>8, <1>9 DEF Charged
  <1>11. QED
    BY <1>10

(* A hang is counted once, and what the process was charged for before it  *)
(* fits into the bound.                                                    *)
LEMMA CostHang ==
  ASSUME TypeInv, VerdictInv, CostInv, NEW f \in Files, Hang(f) PROVE CostInv'
  <1> SUFFICES ASSUME bound > 0, runner \in {"none", "running"}
               PROVE  \E charges, hung : Charged(charges, hung)'
    BY DEF CostInv, Hang, env
  <1>1. PICK charges, hung : Charged(charges, hung)
    BY DEF CostInv
  <1>2. PICK how \in {"waiting", "gil"} : proc' = [proc EXCEPT ![f].stuck = how]
    BY DEF Hang
  <1>3. /\ UNCHANGED <<costs, slice, bound, clock, tries>> /\ hangs' = hangs + 1
        /\ Alive(f) /\ proc[f].stuck = "no"
    BY DEF Hang, setup, env
  <1>4. /\ proc'[f].stuck /= "no" /\ proc'[f].age = proc[f].age
        /\ \A g \in Files \ {f} : proc'[g] = proc[g]
    BY <1>2, Fields DEF TypeInv, TypeOK, Processes
  <1>5. PICK p : p = <<f, tries[f]>>
    OBVIOUS
  <1>6. p \in Started /\ p \notin hung
    <2>1. tries[f] \in 1..Attempts
      BY <1>3, Constants DEF VerdictInv, AliveInv, TypeInv, TypeOK
    <2>2. QED
      BY <1>1, <1>3, <1>5, <2>1 DEF Charged, Started
  <1>7. Started' = Started /\ \A g : Length(g)' = Length(g)
    BY <1>3 DEF Started, Length
  <1>8. IsFiniteSet(hung)
    BY <1>1, StartedFinite, FS_Subset DEF Charged
  <1>9. Cardinality(hung \union {p}) = hangs'
    BY <1>1, <1>3, <1>6, <1>8, FS_AddElement DEF Charged
  <1>10. ASSUME NEW g \in Files, Alive(g)'
         PROVE  /\ <<g, tries[g]>> \in hung \union {p} <=> proc'[g].stuck /= "no"
                /\ \A c \in charges : c[1] = <<g, tries[g]>> => c[2] <= proc'[g].age
    <2>1. CASE g = f
      BY <1>1, <1>3, <1>4, <1>5, <2>1 DEF Charged
    <2>2. CASE g /= f
      BY <1>1, <1>4, <1>5, <1>10, <2>2 DEF Charged, Alive
    <2>3. QED
      BY <2>1, <2>2
  <1>11. Charged(charges, hung \union {p})'
    BY <1>1, <1>3, <1>6, <1>7, <1>9, <1>10 DEF Charged
  <1>12. QED
    BY <1>11

(* A unit of time is charged to a process that runs, at an age it had not  *)
(* reached.                                                                *)
LEMMA CostTick ==
  ASSUME TypeInv, TimerInv, VerdictInv, CostInv, TimerInv', Tick PROVE CostInv'
  <1> SUFFICES ASSUME bound > 0, runner = "running"
               PROVE  \E charges, hung : Charged(charges, hung)'
    BY DEF CostInv, Tick, env
  <1>1. PICK charges, hung : Charged(charges, hung)
    BY DEF CostInv
  <1>2. PICK f \in Files : Alive(f)
    BY DEF Tick, Running
  <1>3. /\ UNCHANGED <<costs, slice, bound, tries, hangs>> /\ clock' = clock + 1
        /\ ~ Overdue(f)
    BY DEF Tick, setup, env
  <1>4. \A g \in Files : /\ Alive(g)' <=> Alive(g)
                         /\ proc'[g].stuck = proc[g].stuck
                         /\ Alive(g) => proc'[g].age = proc[g].age + 1
                         /\ proc[g].age \in Nat
    BY Fields DEF Tick, Alive, TypeInv, TypeOK, Processes
  <1>5. PICK e : e = <<<<f, tries[f]>>, proc[f].age + 1>>
    OBVIOUS
  <1>6. e \in Started \X (Nat \ {0}) /\ f \in slice
    <2>1. tries[f] \in 1..Attempts /\ f \in slice
      BY <1>2, Constants DEF VerdictInv, AliveInv, TypeInv, TypeOK
    <2>2. proc[f].age + 1 \in Nat \ {0}
      BY <1>4
    <2>3. QED
      BY <1>5, <2>1, <2>2 DEF Started
  <1>7. e \notin charges
    BY <1>1, <1>2, <1>4, <1>5 DEF Charged
  <1>8. e[2] <= bound + Grace
    BY <1>2, <1>3, <1>4, <1>5 DEF TimerInv, Armed
  <1>9. e[1] \notin hung => e[2] <= Length(f)
    <2>1. e[1] \notin hung => proc[f].stuck = "no"
      BY <1>1, <1>2, <1>5 DEF Charged
    <2>2. proc[f].stuck = "no" => ~ (proc[f].age >= Length(f))
      BY <1>2, <1>3 DEF Overdue
    <2>3. QED
      BY <1>4, <1>5, <2>1, <2>2, LengthType
  <1>10. Started' = Started /\ \A g : Length(g)' = Length(g)
    BY <1>3 DEF Started, Length
  <1>11. /\ IsFiniteSet(charges \union {e})
         /\ Cardinality(charges \union {e}) = clock'
    BY <1>1, <1>3, <1>7, FS_AddElement DEF Charged
  <1>12. ASSUME NEW g \in Files, Alive(g)', NEW c \in charges \union {e},
                c[1] = <<g, tries[g]>>
         PROVE  c[2] <= proc'[g].age
    <2>1. CASE c \in charges
      <3>1. c[2] \in Nat /\ c[2] <= proc[g].age
        BY <1>1, <1>4, <1>12, <2>1 DEF Charged
      <3>2. QED
        BY <1>4, <1>12, <3>1
    <2>2. CASE c = e
      <3>1. g = f
        BY <1>5, <1>12, <2>2
      <3>2. QED
        BY <1>2, <1>4, <1>5, <2>2, <3>1
    <2>3. QED
      BY <2>1, <2>2
  <1>13. \A c \in charges \union {e} : /\ c[1][1] \in slice /\ c[2] <= bound + Grace
                                       /\ c[1] \notin hung => c[2] <= Length(c[1][1])
    <2>1. e[1][1] = f
      BY <1>5
    <2>2. QED
      BY <1>1, <1>6, <1>8, <1>9, <2>1 DEF Charged
  <1>14. Charged(charges \union {e}, hung)'
    BY <1>1, <1>3, <1>4, <1>6, <1>10, <1>11, <1>12, <1>13 DEF Charged
  <1>15. QED
    BY <1>14

(* Every step keeps the account.                                           *)
LEMMA CostStep ==
  ASSUME TypeInv, TypeInv', TimerInv, TimerInv', VerdictInv, CostInv, [Next]_vars
  PROVE  CostInv'
  <1> USE DEF env, verdict, setup, tests, TypeInv
  <1>1. CASE UNCHANGED vars
    BY <1>1, CostKept DEF vars, Alive
  <1>2. CASE Script
    BY <1>2, CostScript
  <1>3. CASE CrashOnLoad \/ RunnerEnds \/ RunnerHangs
    BY <1>3 DEF CrashOnLoad, RunnerEnds, RunnerHangs, CostInv
  <1>4. ASSUME NEW f \in Files, Start(f) PROVE CostInv'
    BY <1>4, CostStart
  <1>5. ASSUME NEW f \in Files, FirstTest(f) \/ SessionEnds(f) PROVE CostInv'
    <2>1. PICK where \in Stages : proc' = [proc EXCEPT ![f].at = where]
      BY <1>5 DEF FirstTest, SessionEnds, Stages
    <2>2. /\ Alive(f) /\ UNCHANGED <<costs, slice, clock, hangs, tries, bound, runner>>
          /\ proc'[f].age = proc[f].age /\ proc'[f].stuck = proc[f].stuck
          /\ \A g \in Files \ {f} : proc'[g] = proc[g]
      BY <1>5, <2>1 DEF FirstTest, SessionEnds, Alive, TypeOK, Processes
    <2>3. QED
      BY <2>2, CostKept DEF Alive
  <1>6. ASSUME NEW f \in Files, Leave(f) \/ Crash(f) \/ PerTestTimeout(f) PROVE CostInv'
    <2>1. \E r, w : Gone(f, r, w)
      BY <1>6 DEF Leave, Crash, PerTestTimeout
    <2>2. QED
      BY <2>1, CostGone
  <1>7. ASSUME NEW f \in Files, Hang(f) PROVE CostInv'
    BY <1>7, CostHang
  <1>8. ASSUME NEW f \in Files, Fire(f) \/ TreeKill(f) \/ Backstop(f) PROVE CostInv'
    <2>1. CASE \E r, w : Gone(f, r, w)
      BY <2>1, CostGone
    <2>2. CASE ~ \E r, w : Gone(f, r, w)
      <3>1. \/ proc' = [proc EXCEPT ![f].timers = @ \ {"python"}, ![f].killer = TRUE]
            \/ proc' = [proc EXCEPT ![f].killer = FALSE]
        BY <1>8, <2>2 DEF Fire, TreeKill, Backstop
      <3>2. Alive(f) /\ UNCHANGED <<costs, slice, clock, hangs, tries, bound, runner>>
        BY <1>8, <2>2 DEF Fire, TreeKill, Backstop, Due
      <3>3. /\ proc'[f].age = proc[f].age /\ proc'[f].stuck = proc[f].stuck
            /\ \A g \in Files \ {f} : proc'[g] = proc[g]
        BY <3>1 DEF TypeOK, Processes
      <3>4. QED
        BY <3>2, <3>3, CostKept DEF Alive
    <2>3. QED
      BY <2>1, <2>2
  <1>9. CASE Tick
    BY <1>9, CostTick
  <1>10. CASE StepEnds \/ \E f \in Files : WorkersEnd(f)
    BY <1>10, Aftermath, CostKept DEF Alive
  <1>11. QED
    BY <1>1, <1>2, <1>3, <1>4, <1>5, <1>6, <1>7, <1>8, <1>9, <1>10 DEF Next, RunTest, Bounds, Tests

(* Some file of a shard that has any takes longest.                        *)
LEMMA LongestIsThere ==
  ASSUME TypeOK, slice /= {}
  PROVE  LET longest == Max({Length(f) : f \in slice})
         IN  longest \in Nat /\ \A f \in slice : Length(f) <= longest
  <1> DEFINE Longer(f) == {g \in slice : Length(g) > Length(f)}
             lengths == {Length(f) : f \in slice}
             sets == {Longer(f) : f \in slice}
  <1>1. \A f \in slice : Length(f) \in Nat
    BY LengthType DEF TypeOK
  <1>2. IsFiniteSet(slice) /\ FiniteSubsetsOf(slice) = SUBSET slice
    BY ShardAssumption, FS_Subset, FS_FiniteSubsetsOfFinite DEF TypeOK
  <1>3. IsWellFoundedOn(StrictSubsetOrdering(slice), SUBSET slice)
    BY <1>2, FS_StrictSubsetOrderingWellFounded
  <1>4. sets \subseteq SUBSET slice /\ sets /= {}
    OBVIOUS
  <1>5. PICK x \in sets : \A y \in sets : ~ (<<y, x>> \in StrictSubsetOrdering(slice))
    <2> HIDE DEF sets
    <2>1. QED
      BY <1>3, <1>4, WFMin
  <1>6. PICK f \in slice : x = Longer(f)
    BY <1>5
  <1>7. \A g \in slice : Length(g) <= Length(f)
    <2> SUFFICES ASSUME NEW g \in slice, Length(g) > Length(f) PROVE FALSE
      BY <1>1
    <2>1. Longer(g) \subseteq Longer(f) /\ g \in Longer(f) /\ g \notin Longer(g)
      BY <1>1
    <2>2. <<Longer(g), x>> \in StrictSubsetOrdering(slice)
      BY <1>6, <2>1 DEF StrictSubsetOrdering
    <2>3. QED
      BY <1>5, <2>2
  <1>8. \E l \in lengths : \A m \in lengths : l >= m
    BY <1>1, <1>6, <1>7
  <1>9. Max(lengths) \in lengths /\ \A m \in lengths : Max(lengths) >= m
    BY <1>8 DEF Max
  <1>10. QED
    BY <1>1, <1>9

(* The charges of a clock that is past the cap do not fit into less time.  *)
LEMMA ChargesFit ==
  ASSUME TypeInv, bound > 0, slice /= {}, NEW charges, NEW hung, Charged(charges, hung)
  PROVE  clock <= hangs * (Bound + Grace)
                     + (Cardinality(Started) - hangs) * Max({Length(f) : f \in slice})
  <1> DEFINE longest == Max({Length(f) : f \in slice})
             left == Started \ hung
             stuck == hung \X (1..(Bound + Grace))
             work == left \X (1..longest)
  <1>1. longest \in Nat /\ \A f \in slice : Length(f) <= longest
    BY LongestIsThere DEF TypeInv
  <1>2. bound = Bound /\ Bound \in Nat /\ Grace \in Nat
    BY Constants DEF TypeInv, TypeOK
  <1>3. charges \subseteq stuck \union work
    <2> SUFFICES ASSUME NEW c \in charges PROVE c \in stuck \union work
      OBVIOUS
    <2>1. /\ c = <<c[1], c[2]>> /\ c[1] \in Started /\ c[2] \in Nat \ {0}
          /\ c[1][1] \in slice /\ c[2] <= bound + Grace
          /\ c[1] \notin hung => c[2] <= Length(c[1][1])
      BY DEF Charged
    <2>2. Length(c[1][1]) \in Nat /\ Length(c[1][1]) <= longest
      BY <1>1, <2>1, LengthType DEF TypeInv, TypeOK
    <2> HIDE DEF longest
    <2>3. CASE c[1] \in hung
      <3>1. c[2] \in 1..(Bound + Grace)
        BY <1>2, <2>1
      <3>2. QED
        BY <2>1, <2>3, <3>1
    <2>4. CASE c[1] \notin hung
      <3>1. c[2] \in 1..longest
        BY <1>1, <2>1, <2>2, <2>4
      <3>2. QED
        BY <2>1, <2>4, <3>1
    <2>5. QED
      BY <2>3, <2>4
  <1> HIDE DEF longest
  <1>4. /\ IsFiniteSet(hung) /\ Cardinality(hung) = hangs /\ hangs \in Nat
        /\ IsFiniteSet(left) /\ Cardinality(left) = Cardinality(Started) - hangs
    <2>1. IsFiniteSet(hung) /\ Cardinality(hung) = hangs /\ hung \subseteq Started
      BY StartedFinite, FS_Subset DEF Charged
    <2>2. Started \cap hung = hung
      BY <2>1
    <2>3. IsFiniteSet(left) /\ Cardinality(left) = Cardinality(Started) - Cardinality(Started \cap hung)
      BY StartedFinite, FS_Difference
    <2>4. QED
      BY <2>1, <2>2, <2>3, FS_CardinalityType
  <1>5. /\ IsFiniteSet(1..(Bound + Grace)) /\ Cardinality(1..(Bound + Grace)) = Bound + Grace
        /\ IsFiniteSet(1..longest) /\ Cardinality(1..longest) = longest
    <2>1. 1 \in Int /\ Bound + Grace \in Nat /\ Bound + Grace \in Int /\ longest \in Int
      BY <1>1, <1>2
    <2>2. \A n \in Nat : (IF 1 > n THEN 0 ELSE n - 1 + 1) = n
      OBVIOUS
    <2>3. QED
      BY <1>1, <2>1, <2>2, FS_Interval
  <1>6. /\ IsFiniteSet(stuck) /\ Cardinality(stuck) = hangs * (Bound + Grace)
        /\ IsFiniteSet(work) /\ Cardinality(work) = (Cardinality(Started) - hangs) * longest
    <2>1. /\ IsFiniteSet(stuck)
          /\ Cardinality(stuck) = Cardinality(hung) * Cardinality(1..(Bound + Grace))
      BY <1>4, <1>5, FS_Product
    <2>2. IsFiniteSet(work) /\ Cardinality(work) = Cardinality(left) * Cardinality(1..longest)
      BY <1>4, <1>5, FS_Product
    <2> HIDE DEF stuck, work, left
    <2>3. Cardinality(hung) = hangs /\ Cardinality(left) = Cardinality(Started) - hangs
      BY <1>4
    <2>4. QED
      BY <1>5, <2>1, <2>2, <2>3
  <1> HIDE DEF stuck, work, left
  <1>7. /\ IsFiniteSet(stuck \union work)
        /\ Cardinality(stuck \union work) <= Cardinality(stuck) + Cardinality(work)
    <2>1. /\ IsFiniteSet(stuck \union work)
          /\ Cardinality(stuck \union work) =
                Cardinality(stuck) + Cardinality(work) - Cardinality(stuck \cap work)
      BY <1>6, FS_Union
    <2>2. /\ Cardinality(stuck) \in Nat /\ Cardinality(work) \in Nat
          /\ Cardinality(stuck \cap work) \in Nat
      BY <1>6, FS_Intersection, FS_CardinalityType
    <2>3. QED
      BY <2>1, <2>2
  <1>8. Cardinality(charges) = clock /\ Cardinality(charges) <= Cardinality(stuck \union work)
    BY <1>3, <1>7, FS_Subset DEF Charged
  <1>9. /\ clock \in Nat /\ Cardinality(stuck \union work) \in Nat
        /\ Cardinality(stuck) \in Nat /\ Cardinality(work) \in Nat
    BY <1>6, <1>7, FS_CardinalityType DEF TypeInv, TypeOK
  <1>10. clock <= Cardinality(stuck) + Cardinality(work)
    BY <1>7, <1>8, <1>9
  <1>11. QED
    BY <1>6, <1>10 DEF longest

(* Where the bound is on and run_test.py works, the watchdog's deadline    *)
(* passes only if the hangs, at what the two timers leave each, and the    *)
(* other processes take that long.                                         *)
THEOREM HangsCostTheirFiles == Spec => []HangCostsItsFile
  <1> DEFINE Inv == TypeInv /\ TimerInv /\ VerdictInv /\ CostInv
  <1>1. Init => Inv
    BY TypeInit, TimerInit, VerdictInit, CostInit
  <1>2. Inv /\ [Next]_vars => Inv'
    BY TypeStep, TimerStep, VerdictStep, CostStep
  <1>3. Inv => HangCostsItsFile
    <2> SUFFICES ASSUME Inv, bound > 0, runner = "running", DeadlinePassed
                 PROVE  hangs * (Bound + Grace)
                          + (Cardinality(Started) - hangs) * Max({Length(f) : f \in slice}) > Cap
      BY DEF HangCostsItsFile
    <2>1. PICK charges, hung : Charged(charges, hung)
      BY DEF CostInv
    <2>2. clock > Cap /\ clock \in Nat /\ Cap \in Nat
      BY Constants DEF DeadlinePassed, TypeInv, TypeOK
    <2>3. slice /= {}
      <3> SUFFICES ASSUME slice = {} PROVE FALSE
        OBVIOUS
      <3>1. charges = {}
        BY <2>1 DEF Charged
      <3>2. clock = 0
        BY <2>1, <3>1, FS_EmptySet DEF Charged
      <3>3. QED
        BY <2>2, <3>2
    <2> DEFINE sum == hangs * (Bound + Grace)
                        + (Cardinality(Started) - hangs) * Max({Length(f) : f \in slice})
    <2>4. clock <= sum
      BY <2>1, <2>3, ChargesFit
    <2>5. sum \in Int
      <3>1. /\ Cardinality(Started) \in Int /\ hangs \in Int /\ Bound + Grace \in Int
            /\ Max({Length(f) : f \in slice}) \in Int
        BY <2>3, LongestIsThere, StartedFinite, FS_CardinalityType, Constants
        DEF TypeInv, TypeOK
      <3>2. QED
        BY <3>1
    <2> HIDE DEF sum
    <2>6. sum > Cap
      BY <2>2, <2>4, <2>5
    <2>7. QED
      BY <2>6 DEF sum
  <1>4. QED
    BY <1>1, <1>2, <1>3, PTL DEF Spec

(***************************************************************************)
(* The record of the bounds.                                               *)
(***************************************************************************)
(* Whoever is past the lock holds it.                                      *)
LockInv ==
  \A w \in Writers : at[w] \in {"locked", "sought", "written"} => lock = w

(* The position sought is still the end of the file.                       *)
SeekInv == \A w \in Writers : at[w] = "sought" => offset[w] = Len(file)

(* A record is in the file from its write on, and only then.               *)
FileInv ==
  \A w \in Writers :
    /\ at[w] \in {"idle", "locking", "locked", "sought"} => ~ Recorded(w) /\ result[w] = "none"
    /\ at[w] = "written" => Recorded(w) /\ result[w] = "none"
    /\ \A i, j \in 1..Len(file) : file[i] = w /\ file[j] = w => i = j
    /\ result[w] = "true" => Recorded(w)
    /\ result[w] = "false" => ~ Recorded(w)

RecordInv == RecordTypeOK /\ LockInv /\ SeekInv /\ FileInv

(* Appending a writer's line adds that writer and moves nobody's line.     *)
LEMMA AppendFacts ==
  ASSUME NEW s \in Seq(Writers), NEW w \in Writers
  PROVE  /\ Append(s, w) \in Seq(Writers)
         /\ Len(Append(s, w)) = Len(s) + 1
         /\ \A i \in 1..Len(s) : Append(s, w)[i] = s[i]
         /\ Append(s, w)[Len(s) + 1] = w
         /\ Len(s) \in Nat
  OBVIOUS

(* The one action that changes the file appends to it.                     *)
LEMMA WriteAppends ==
  ASSUME RecordInv, NEW w \in Writers, Write(w)
  PROVE  file' = Append(file, w)
  <1>1. offset[w] = Len(file)
    BY DEF RecordInv, SeekInv, Write, Go
  <1>2. QED
    BY <1>1 DEF Write, WrittenAt

(* The empty record and idle writers satisfy the invariant.                *)
LEMMA RecordInitial == RecordInit => RecordInv
  BY WritersAssumption DEF RecordInit, RecordInv, RecordTypeOK, LockInv, SeekInv, FileInv, Places, Recorded

(* Every step keeps the invariant; only Write changes the file.             *)
LEMMA RecordSteps == RecordInv /\ [RecordNext]_recordVars => RecordInv'
  <1> SUFFICES ASSUME RecordInv, [RecordNext]_recordVars PROVE RecordInv'
    OBVIOUS
  <1> USE DEF RecordInv, Places
  <1>1. CASE UNCHANGED recordVars
    BY <1>1 DEF recordVars, RecordTypeOK, LockInv, SeekInv, FileInv, Recorded
  <1>2. ASSUME NEW w \in Writers, Open(w) PROVE RecordInv'
    BY <1>2 DEF Open, Go, RecordTypeOK, LockInv, SeekInv, FileInv, Recorded
  <1>3. ASSUME NEW w \in Writers, CannotOpen(w) PROVE RecordInv'
    <2>1. RecordTypeOK'
      BY <1>3 DEF CannotOpen, Go, RecordTypeOK
    <2>2. LockInv' /\ SeekInv'
      BY <1>3 DEF CannotOpen, Go, RecordTypeOK, LockInv, SeekInv
    <2>3. ASSUME NEW x \in Writers PROVE Recorded(x)' <=> Recorded(x)
      BY <1>3 DEF CannotOpen, Recorded
    <2>4. FileInv'
      BY <1>3, <2>3 DEF CannotOpen, Go, RecordTypeOK, FileInv
    <2>5. QED
      BY <2>1, <2>2, <2>4
  <1>4. ASSUME NEW w \in Writers, Lock(w) PROVE RecordInv'
    BY <1>4, WritersAssumption
    DEF Lock, Go, Gets, RecordTypeOK, LockInv, SeekInv, FileInv, Recorded
  <1>5. ASSUME NEW w \in Writers, TimeOut(w) PROVE RecordInv'
    BY <1>5 DEF TimeOut, GivesUp, Go, RecordTypeOK, LockInv, SeekInv, FileInv, Recorded
  <1>6. ASSUME NEW w \in Writers, SeekEnd(w) PROVE RecordInv'
    <2>1. Len(file) \in Nat
      BY DEF RecordTypeOK
    <2>2. QED
      BY <1>6, <2>1 DEF SeekEnd, Go, RecordTypeOK, LockInv, SeekInv, FileInv, Recorded
  <1>7. ASSUME NEW w \in Writers, Write(w) PROVE RecordInv'
    <2>1. file' = Append(file, w) /\ at' = [at EXCEPT ![w] = "written"] /\ at[w] = "sought"
      BY <1>7, WriteAppends DEF Write, Go
    <2>2. UNCHANGED <<lock, offset, result>>
      BY <1>7 DEF Write
    <2>3. RecordTypeOK'
      BY <2>1, <2>2, AppendFacts DEF RecordTypeOK
    <2>4. LockInv' /\ SeekInv'
      BY <2>1, <2>2, WritersAssumption DEF RecordTypeOK, LockInv, SeekInv
    <2>5. ASSUME NEW x \in Writers PROVE Recorded(x)' <=> Recorded(x) \/ x = w
      BY <2>1, AppendFacts DEF Recorded, RecordTypeOK
    <2>6. ASSUME NEW x \in Writers, NEW i \in 1..Len(file'), NEW j \in 1..Len(file'),
                 file'[i] = x, file'[j] = x
          PROVE  i = j
      <3>1. /\ Len(file') = Len(file) + 1 /\ Len(file) \in Nat
            /\ \A k \in 1..Len(file) : file'[k] = file[k]
            /\ file'[Len(file) + 1] = w
        BY <2>1, AppendFacts DEF RecordTypeOK
      <3>2. ~ Recorded(w)
        BY <2>1 DEF FileInv
      <3>3. CASE x = w
        BY <2>6, <3>1, <3>2, <3>3 DEF Recorded
      <3>4. CASE x /= w
        BY <2>6, <3>1, <3>4 DEF FileInv
      <3>5. QED
        BY <3>3, <3>4
    <2>7. FileInv'
      BY <2>1, <2>2, <2>5, <2>6 DEF FileInv, RecordTypeOK
    <2>8. QED
      BY <2>3, <2>4, <2>7
  <1>8. ASSUME NEW w \in Writers, Return(w) PROVE RecordInv'
    BY <1>8, WritersAssumption
    DEF Return, Go, Release, RecordTypeOK, LockInv, SeekInv, FileInv, Recorded
  <1>9. ASSUME NEW w \in Writers, Die(w) PROVE RecordInv'
    BY <1>9, WritersAssumption
    DEF Die, Release, RecordTypeOK, LockInv, SeekInv, FileInv, Recorded
  <1>10. QED
    BY <1>1, <1>2, <1>3, <1>4, <1>5, <1>6, <1>7, <1>8, <1>9 DEF RecordNext

(* The lock, the sought position and the file agree in every state.        *)
THEOREM RecordInvariance == RecordSpec => []RecordInv
  <1>1. QED
    BY RecordInitial, RecordSteps, PTL DEF RecordSpec

(* Each variable keeps its type.                                           *)
THEOREM RecordTypeCorrect == RecordSpec => []RecordTypeOK
  <1>1. RecordInv => RecordTypeOK
    BY DEF RecordInv
  <1>2. QED
    BY <1>1, RecordInvariance, PTL

(* What _record answers is true of the file, for any number of concurrent  *)
(* calls, killed anywhere.                                                 *)
THEOREM AnswersTruthfully == RecordSpec => []TruthfullyRecorded
  <1>1. RecordInv => TruthfullyRecorded
    BY DEF RecordInv, FileInv, TruthfullyRecorded
  <1>2. QED
    BY <1>1, RecordInvariance, PTL

(* The lock makes seek and write one append.                               *)
THEOREM Appends == RecordSpec => OnlyAppended
  <1>1. RecordInv /\ [RecordNext]_recordVars => [file' = file \/ \E w \in Writers : file' = Append(file, w)]_recordVars
    <2> SUFFICES ASSUME RecordInv, RecordNext
                 PROVE  file' = file \/ \E w \in Writers : file' = Append(file, w)
      BY DEF recordVars
    <2>1. ASSUME NEW w \in Writers, Write(w) PROVE file' = Append(file, w)
      BY <2>1, WriteAppends
    <2>2. QED
      BY <2>1 DEF RecordNext, Open, CannotOpen, Lock, TimeOut, SeekEnd, Return, Die
  <1>2. QED
    BY <1>1, RecordInvariance, PTL DEF RecordSpec, OnlyAppended
================================================================================
