------------------------------- MODULE TestShard -------------------------------
(***************************************************************************)
(* One shard of the WoA test matrix under its three bounds: the step       *)
(* "Run PyTorch arm64 test suite" of _woa-test.yml, its entrypoint         *)
(* pytorch-windows-test-shard.ps1 with the watchdog of TestShardRunner.ps1 *)
(* around run_test.py, and sitecustomize.py in each test-file process.     *)
(*                                                                         *)
(* Time is the variable clock, in units of run_test.py's sharding          *)
(* threshold (ten minutes), from the start of run_test.py on.  A timer     *)
(* that is due, and can run, runs before the clock moves on.               *)
(*                                                                         *)
(* An operator named ...Mutant is a plausible bug of the definition that   *)
(* follows it; no specification uses it.                                   *)
(***************************************************************************)
EXTENDS Naturals, FiniteSets, FiniteSetsExt

CONSTANTS
  Files,        \* test files of the checkout
  Whole,        \* [Files -> Nat]: how long the whole file takes at most
  Measured,     \* files the repository's own statistics know
  Piece,        \* how long a piece of a file that is split takes at most
  Median,       \* the cost backfilled for a file without statistics
  Threshold,    \* run_test.py splits a file that costs more
  Bound,        \* PER_PROCESS_TIMEOUT_SEC of the workflow
  Grace,        \* _BACKSTOP_GRACE_SEC
  Cap,          \* PYTORCH_WIN_TEST_RUN_TEST_TIMEOUT_SEC
  Procs,        \* test files run_test.py runs at a time
  Attempts,     \* how often run_test.py runs a file that fails
  MaxHangs,     \* bound: processes that hang
  KillMayFail,  \* whether taskkill may leave a process behind
  None          \* no exit code

ASSUME ShardAssumption ==
  /\ IsFiniteSet(Files) /\ Whole \in [Files -> Nat \ {0}] /\ Measured \subseteq Files
  /\ {Piece, Median, Threshold, Bound, Grace, Cap, Procs, Attempts} \subseteq Nat \ {0}
  /\ MaxHangs \in Nat /\ KillMayFail \in BOOLEAN
  /\ None \notin {0, 1, 124, 125}

TimedOut == 124     \* Get-RunTestTimeoutExitCode
NoReport == 125     \* Get-TestReportUnavailableExitCode
Synthetic == {"watchdog", "placeholder"}
Timers == {"python", "native"}

VARIABLES
  costs,     \* [files with a recorded cost -> cost]: test-times.json
  slice,     \* the files of this shard
  bound,     \* PER_PROCESS_TIMEOUT_SEC as the step leaves it; 0 is off
  perTest,   \* is pytest-timeout on?
  phase,     \* where the step is
  code,      \* what Invoke-RunTestPython returned
  exitCode,  \* what the step exited with
  clock,     \* time since run_test.py was started
  runner,    \* run_test.py: "none", "running", "stuck", "ended", "killed"
  runCode,   \* its exit code; None if the step could not read it
  proc,      \* [Files -> the file's process]
  tries,     \* [Files -> processes started for the file]
  outcome,   \* [Files -> how its last process ended]
  hangs,     \* number of processes that hung
  orphans,   \* files whose workers outlived the process
  killed,    \* files whose process a bound of its own ended while it worked
  junit      \* XML reports in the reports tree

setup == <<costs, slice>>
env == <<bound, perTest>>
verdict == <<code, exitCode>>
tests == <<proc, tries, outcome, hangs, orphans, killed>>
vars == <<setup, env, phase, verdict, clock, runner, runCode, tests, junit>>

(* import: until the first test; close: after pytest wrote its report      *)
Stages == {"import", "test", "close"}
NoProcess == [at |-> "none", stuck |-> "no", age |-> 0, timers |-> {}, killer |-> FALSE]
Processes ==
  [at : Stages \union {"none"}, stuck : {"no", "waiting", "gil"}, age : 0..Cap + 1,
   timers : SUBSET Timers, killer : BOOLEAN]
Alive(f) == proc[f].at /= "none"

(***************************************************************************)
(* Before the tests: statistics, bound, import check.                      *)
(***************************************************************************)
(* backfill_missing_times: a file without statistics gets the median.      *)
Backfilled == [f \in Files |-> IF f \in Measured THEN Whole[f] ELSE Median]

(* How long one process of the file takes at most while it works.  A file  *)
(* is split by its recorded cost, and only if it has one.                  *)
Length(f) ==
  IF f \in DOMAIN costs /\ costs[f] > Threshold THEN Piece ELSE Whole[f]

(* The seed step may be absent: then no file has a recorded cost.          *)
Init ==
  /\ costs \in {Backfilled, <<>>} /\ slice \in SUBSET Files
  /\ bound = Bound /\ perTest = FALSE
  /\ phase = "arm" /\ code = 0 /\ exitCode = None
  /\ clock = 0 /\ runner = "none" /\ runCode = 0
  /\ proc = [f \in Files |-> NoProcess]
  /\ tries = [f \in Files |-> 0] /\ outcome = [f \in Files |-> "none"]
  /\ hangs = 0 /\ orphans = {} /\ killed = {} /\ junit = {}

Exit(c) == phase' = "exited" /\ exitCode' = c

RawBoundMutant == IF DOMAIN costs = {} THEN None ELSE bound
AlwaysArmedMutant == bound
ArmedBound == IF DOMAIN costs = {} THEN 0 ELSE bound

ArmBound ==
  /\ phase = "arm" /\ phase' = "probe"
  /\ bound' = ArmedBound
  /\ UNCHANGED <<setup, perTest, verdict, clock, runner, runCode, tests, junit>>

(* python -c "import torch"; the placeholder's write may fail, which ends  *)
(* the script with 1.                                                      *)
ImportFails ==
  /\ phase = "probe"
  /\ \E written \in BOOLEAN :
       junit' = IF written THEN junit \union {"placeholder"} ELSE junit
  /\ Exit(1)
  /\ UNCHANGED <<setup, env, code, clock, runner, runCode, tests>>

(* Add-TorchLibToPath throws.                                              *)
TorchLibMissing ==
  /\ phase = "probe" /\ Exit(1)
  /\ UNCHANGED <<setup, env, code, clock, runner, runCode, tests, junit>>

(* The import check, like the other calls of python and pip before the     *)
(* launch, has no timeout, and sitecustomize.py arms none of them.         *)
ProbeHangs ==
  /\ phase = "probe" /\ phase' = "hung"
  /\ UNCHANGED <<setup, env, verdict, clock, runner, runCode, tests, junit>>

(* Enable-PytestPerTestTimeout is best effort; Start-Process launches.     *)
Launch ==
  /\ phase = "probe" /\ phase' = "running"
  /\ perTest' \in BOOLEAN
  /\ runner' = "running"
  /\ UNCHANGED <<setup, bound, verdict, clock, runCode, tests, junit>>

(***************************************************************************)
(* run_test.py.                                                            *)
(***************************************************************************)
RunnerAlive == runner \in {"running", "stuck"}
Running == {f \in Files : Alive(f)}
Settled(f) ==
  ~ Alive(f) /\ (outcome[f] = "pass" \/ tries[f] = Attempts)

(* A crash on load, before any test: the step may lose the exit code of a  *)
(* process that ends before it took its handle.                            *)
CrashOnLoad ==
  /\ runner = "running" /\ \A f \in Files : tries[f] = 0
  /\ runner' = "ended" /\ runCode' \in {1, None}
  /\ UNCHANGED <<setup, env, phase, verdict, clock, tests, junit>>

(* _main in the new process: argv[0] is a test file.                       *)
ArmedTimersMutant == IF bound > 0 THEN {"python"} ELSE {}
ArmedTimers == IF bound > 0 THEN Timers ELSE {}

Start(f) ==
  /\ runner = "running" /\ f \in slice
  /\ ~ Alive(f) /\ ~ Settled(f) /\ Cardinality(Running) < Procs
  /\ proc' = [proc EXCEPT ![f] = [NoProcess EXCEPT !.at = "import", !.timers = ArmedTimers]]
  /\ tries' = [tries EXCEPT ![f] = @ + 1]
  /\ UNCHANGED <<setup, env, phase, verdict, clock, runner, runCode,
                 outcome, hangs, orphans, killed, junit>>

AllPassed == \A f \in slice : outcome[f] = "pass"

(* --keep-going: the exit code comes after every file.                     *)
RunnerEnds ==
  /\ runner = "running" /\ \A f \in slice : Settled(f)
  /\ runner' = "ended" /\ runCode' = IF AllPassed THEN 0 ELSE 1
  /\ UNCHANGED <<setup, env, phase, verdict, clock, tests, junit>>

(* No bound is on run_test.py itself but the watchdog.                     *)
RunnerHangs ==
  /\ runner = "running" /\ hangs < MaxHangs
  /\ runner' = "stuck" /\ hangs' = hangs + 1
  /\ UNCHANGED <<setup, env, phase, verdict, clock, runCode,
                 proc, tries, outcome, orphans, killed, junit>>

(***************************************************************************)
(* A test-file process.                                                    *)
(***************************************************************************)
FirstTest(f) ==
  /\ proc[f].at = "import" /\ proc[f].stuck = "no"
  /\ proc' = [proc EXCEPT ![f].at = "test"]
  /\ UNCHANGED <<setup, env, phase, verdict, clock, runner, runCode,
                 tries, outcome, hangs, orphans, killed, junit>>

(* pytest_sessionfinish writes the report.                                 *)
SessionEnds(f) ==
  /\ proc[f].at = "test" /\ proc[f].stuck = "no"
  /\ proc' = [proc EXCEPT ![f].at = "close"]
  /\ \E o \in {"passing", "failing"} : outcome' = [outcome EXCEPT ![f] = o]
  /\ junit' = junit \union {f}
  /\ UNCHANGED <<setup, env, phase, verdict, clock, runner, runCode,
                 tries, hangs, orphans, killed>>

(* How the process f ends: what run_test.py sees, and whether its workers  *)
(* end with it.                                                            *)
Gone(f, result, withWorkers) ==
  /\ proc' = [proc EXCEPT ![f] = NoProcess]
  /\ outcome' = [outcome EXCEPT ![f] = result]
  /\ orphans' = IF withWorkers THEN orphans ELSE orphans \union {f}
  /\ UNCHANGED <<setup, env, phase, verdict, clock, runner, runCode, tries, hangs>>

Leave(f) ==
  /\ proc[f].at = "close" /\ proc[f].stuck = "no"
  /\ Gone(f, IF outcome[f] = "passing" THEN "pass" ELSE "fail", TRUE)
  /\ UNCHANGED <<killed, junit>>

(* A native crash takes the process and its pipes to the workers.          *)
Crash(f) ==
  /\ Alive(f) /\ Gone(f, "fail", TRUE)
  /\ UNCHANGED <<killed, junit>>

(* pytest-timeout, thread method, ends a test that hangs but not one that  *)
(* holds the GIL.                                                          *)
PerTestTimeout(f) ==
  /\ perTest /\ proc[f].at = "test" /\ proc[f].stuck = "waiting"
  /\ Gone(f, "fail", TRUE)
  /\ UNCHANGED <<killed, junit>>

(* "gil": blocked in native code with the GIL held.                        *)
Hang(f) ==
  /\ Alive(f) /\ proc[f].stuck = "no" /\ hangs < MaxHangs
  /\ \E how \in {"waiting", "gil"} : proc' = [proc EXCEPT ![f].stuck = how]
  /\ hangs' = hangs + 1
  /\ UNCHANGED <<setup, env, phase, verdict, clock, runner, runCode,
                 tries, outcome, orphans, killed, junit>>

(* When a timer is due, and whether it can run then.                       *)
Deadline(t) == IF t = "python" THEN bound ELSE bound + Grace
Due(f, t) ==
  /\ Alive(f) /\ t \in proc[f].timers /\ proc[f].age >= Deadline(t)
  /\ t = "python" => proc[f].stuck /= "gil"

NotedAsKilled(f) == killed' = IF proc[f].stuck = "no" THEN killed \union {f} ELSE killed

(* _fire: record, stacks, and taskkill launched, or os._exit if it cannot  *)
(* be.                                                                     *)
Fire(f) ==
  /\ Due(f, "python")
  /\ \/ /\ proc' = [proc EXCEPT ![f].timers = @ \ {"python"}, ![f].killer = TRUE]
        /\ UNCHANGED <<setup, env, phase, verdict, clock, runner, runCode,
                       tries, outcome, hangs, orphans, killed>>
     \/ KillMayFail /\ Gone(f, "fail", FALSE) /\ NotedAsKilled(f)
  /\ UNCHANGED junit

(* taskkill /T /F, or its failure.                                         *)
TreeKillMutant(f) ==
  /\ Alive(f) /\ proc[f].killer
  /\ Gone(f, "fail", FALSE) /\ NotedAsKilled(f)
  /\ UNCHANGED junit
TreeKill(f) ==
  /\ Alive(f) /\ proc[f].killer
  /\ \/ Gone(f, "fail", TRUE) /\ NotedAsKilled(f)
     \/ /\ KillMayFail /\ proc' = [proc EXCEPT ![f].killer = FALSE]
        /\ UNCHANGED <<setup, env, phase, verdict, clock, runner, runCode,
                       tries, outcome, hangs, orphans, killed>>
  /\ UNCHANGED junit

(* faulthandler's native timer ends this process only.                     *)
Backstop(f) ==
  /\ Due(f, "native")
  /\ Gone(f, "fail", FALSE) /\ NotedAsKilled(f)
  /\ UNCHANGED junit

(***************************************************************************)
(* Time.  A process that works ends within Length, and run_test.py is at   *)
(* work while one of its processes is.                                     *)
(***************************************************************************)
Overdue(f) ==
  \/ Alive(f) /\ proc[f].stuck = "no" /\ proc[f].age >= Length(f)
  \/ Alive(f) /\ proc[f].killer
  \/ \E t \in Timers : Due(f, t)

Tick ==
  /\ phase = "running" /\ (runner = "stuck" \/ (runner = "running" /\ Running /= {}))
  /\ clock <= Cap /\ ~ \E f \in Files : Overdue(f)
  /\ clock' = clock + 1
  /\ proc' = [f \in Files |-> IF Alive(f) THEN [proc[f] EXCEPT !.age = @ + 1] ELSE proc[f]]
  /\ UNCHANGED <<setup, env, phase, verdict, runner, runCode,
                 tries, outcome, hangs, orphans, killed, junit>>

(***************************************************************************)
(* Invoke-RunTestPython.                                                   *)
(***************************************************************************)
(* A write to the shard's log fails while somebody holds it open.          *)
FoldFails == orphans /= {}

(* The loop sees that run_test.py exited.                                  *)
SeeExit ==
  /\ phase = "running" /\ runner = "ended"
  /\ \/ /\ phase' = "report" /\ code' = IF runCode = None THEN 0 ELSE runCode
        /\ UNCHANGED exitCode
     \/ FoldFails /\ Exit(1) /\ UNCHANGED code
  /\ UNCHANGED <<setup, env, clock, runner, runCode, tests, junit>>

(* The loop sees the deadline passed; run_test.py may still end by itself. *)
NoDeadlineMutant == FALSE
DeadlinePassed == clock > Cap

Expire ==
  /\ phase = "running" /\ RunnerAlive /\ DeadlinePassed
  /\ phase' = "expired"
  /\ UNCHANGED <<setup, env, verdict, clock, runner, runCode, tests, junit>>

(* Stop-ProcessTreeById, which throws nothing.                             *)
StopTree ==
  \/ /\ runner' = IF RunnerAlive THEN "killed" ELSE runner
     /\ proc' = [f \in Files |-> NoProcess]
     /\ outcome' = [f \in Files |-> IF Alive(f) THEN "killed" ELSE outcome[f]]
  \/ KillMayFail /\ UNCHANGED <<runner, proc, outcome>>

KillTree ==
  /\ phase = "expired" /\ phase' = "marking"
  /\ StopTree
  /\ UNCHANGED <<setup, env, verdict, clock, runCode,
                 tries, hangs, orphans, killed, junit>>

(* The marker is appended to a log the children hold until they are gone.  *)
Mark ==
  /\ phase = "marking" /\ ~ RunnerAlive
  /\ phase' = "report" /\ code' = TimedOut
  /\ UNCHANGED <<setup, env, exitCode, clock, runner, runCode, tests, junit>>

(* Its failure ends the script, which kills once more on its way out.      *)
MarkFails ==
  /\ phase = "marking" /\ (RunnerAlive \/ FoldFails)
  /\ Exit(1)
  /\ IF RunnerAlive THEN StopTree ELSE UNCHANGED <<runner, proc, outcome>>
  /\ UNCHANGED <<setup, env, code, clock, runCode,
                 tries, hangs, orphans, killed, junit>>

(***************************************************************************)
(* Reports and verdict.                                                    *)
(***************************************************************************)
(* Resolve-TestShardExitCode with -FailOnTestFailure, PublishExitCode 0.   *)
ResolvedMutant(c, xmls) == c
Resolved(c, xmls) ==
  IF c = TimedOut THEN TimedOut ELSE IF xmls = {} THEN NoReport ELSE c

(* Neither report's failure to be written stops the script.  The reports   *)
(* are counted before the placeholder is added.                            *)
Report ==
  /\ phase = "report"
  /\ \E written \in BOOLEAN :
       LET watchdog == IF code = TimedOut /\ written THEN {"watchdog"} ELSE {}
           real == junit \union watchdog
       IN /\ junit' = IF code /= TimedOut /\ real = {} /\ written
                      THEN {"placeholder"} ELSE real
          /\ Exit(Resolved(code, real))
  /\ UNCHANGED <<setup, env, code, clock, runner, runCode, tests>>

(* The script is over; what it leaves running may still hold the step's    *)
(* stdout, and the step with it.                                           *)
Left == RunnerAlive \/ Running /= {} \/ orphans /= {}

StepEnds ==
  /\ phase = "exited" /\ phase' = "over"
  /\ UNCHANGED <<setup, env, verdict, clock, runner, runCode, tests, junit>>

(* Orphaned workers may end by themselves.                                 *)
WorkersEnd(f) ==
  /\ f \in orphans /\ orphans' = orphans \ {f}
  /\ UNCHANGED <<setup, env, phase, verdict, clock, runner, runCode,
                 proc, tries, outcome, hangs, killed, junit>>

Script ==
  \/ ArmBound \/ ImportFails \/ TorchLibMissing \/ ProbeHangs \/ Launch
  \/ SeeExit \/ Expire \/ KillTree \/ Mark \/ MarkFails \/ Report

RunTest == CrashOnLoad \/ RunnerEnds \/ RunnerHangs \/ \E f \in Files : Start(f)

Bounds == \E f \in Files : Fire(f) \/ TreeKill(f) \/ Backstop(f)

Tests ==
  \E f \in Files :
    FirstTest(f) \/ SessionEnds(f) \/ Leave(f) \/ Crash(f) \/ PerTestTimeout(f) \/ Hang(f)

Next ==
  \/ Script \/ StepEnds \/ RunTest \/ Bounds \/ Tests \/ Tick
  \/ \E f \in Files : WorkersEnd(f)

Spec == Init /\ [][Next]_vars

(* The script goes on, unless its import check hangs, and the clock does;  *)
(* timers that are due run, and what works gets somewhere: run_test.py and *)
(* its processes may hang.  The step follows the script once nothing of it *)
(* is left; what is left need never end.                                   *)
FairSpec ==
  /\ Spec
  /\ WF_vars(Script) /\ WF_vars(Tick) /\ WF_vars(Bounds)
  /\ WF_vars(RunTest) /\ WF_vars(Tests)
  /\ WF_vars(StepEnds /\ ~ Left)

(***************************************************************************)
(* Properties.                                                             *)
(***************************************************************************)
TypeOK ==
  /\ costs \in {Backfilled, <<>>} /\ slice \subseteq Files
  /\ bound \in {0, Bound} /\ perTest \in BOOLEAN
  /\ phase \in {"arm", "probe", "running", "expired", "marking", "report", "exited",
                "hung", "over"}
  /\ code \in {0, 1, TimedOut} /\ exitCode \in {0, 1, TimedOut, NoReport, None}
  /\ clock \in 0..Cap + 1
  /\ runner \in {"none", "running", "stuck", "ended", "killed"} /\ runCode \in {0, 1, None}
  /\ proc \in [Files -> Processes] /\ tries \in [Files -> 0..Attempts]
  /\ outcome \in [Files -> {"none", "passing", "failing", "pass", "fail", "killed"}]
  /\ hangs \in 0..MaxHangs /\ orphans \subseteq Files /\ killed \subseteq Files
  /\ junit \subseteq Files \union Synthetic

(* A shard is green only if every file of its slice passed in the end and  *)
(* left a report, whatever hung, crashed or was killed before: also an     *)
(* exit code that was lost (read as 0) and an empty slice are not green.   *)
GreenMeansPassed ==
  exitCode = 0 =>
    slice /= {} /\ \A f \in slice : outcome[f] = "pass" /\ f \in junit

(* The per-process bound ends processes that hang, never one at work: it   *)
(* is off where files run whole and may take longer.                       *)
OnlyHungAreKilled == killed = {}

(* While the bound is on no test-file process outlives its two timers, be  *)
(* it stuck with the GIL or not killed by its taskkill.                    *)
NoneOutlivesItsBound ==
  bound > 0 => \A f \in Files : Alive(f) => proc[f].age <= Bound + Grace

(* The processes so far: a file, and which of its tries.                   *)
Started == {p \in Files \X (1..Attempts) : p[2] <= tries[p[1]]}

(* A hang costs its file and not the shard: while the bound is on and      *)
(* run_test.py itself works, the watchdog's deadline passes only if the    *)
(* hangs, at what a bound takes each, and the other processes explain it.  *)
HangCostsItsFile ==
  LET started == Cardinality(Started)
      longest == Max({Length(f) : f \in slice})
  IN bound > 0 /\ runner = "running" /\ DeadlinePassed =>
       hangs * (Bound + Grace) + (started - hangs) * longest > Cap

(* Workers outlive their process only when its interpreter was stuck with  *)
(* the GIL and faulthandler ended it, or when taskkill was not launched or *)
(* has failed; else the tree goes as a whole.                              *)
OnlyStarvedLeaveWorkers ==
  [][\A f \in orphans' \ orphans :
        proc[f].stuck = "gil" \/ (KillMayFail /\ ~ proc[f].killer)]_vars

(* Whatever the tests and run_test.py do, hang included, the step comes to *)
(* its end, but for the two ways that no bound of the shard covers: the    *)
(* import check before it hangs, or the script has ended and what it could *)
(* not kill holds the step (sitecustomize.py:38-41).  Then only the job's  *)
(* own cap is left (_woa-test.yml:130).                                    *)
ShardEnds ==
  <>[](\/ phase \in {"over", "hung"}
       \/ phase = "exited" /\ Left)
================================================================================
