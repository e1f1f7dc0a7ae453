----------------------------- MODULE ShardEvidence -----------------------------
(***************************************************************************)
(* How the reports tree that ReportScan reads comes about: the test files  *)
(* of a shard under run_test.py, which parse_failures.py describes in the  *)
(* docstrings of collect, _is_recovered and _drop_redundant_file_markers.  *)
(* A file is run by a session, one process, that stops at the first        *)
(* failure; a new session tries the test again and, if it passes or has    *)
(* failed Tries times, goes on behind it.  A session that ends writes one  *)
(* JUnit file; a process that dies leaves none, one that does not parse,   *)
(* or one whose headers count a failure that is not itemized.  Files may   *)
(* be run in several rounds (configurations).                              *)
(*                                                                         *)
(* A shard that is killed leaves what there is at that point, so the       *)
(* invariants, which hold of every state, hold of it too.  Files that      *)
(* run_test.py runs side by side leave evidence of their own, as every key *)
(* holds its file: here one is run at a time, in any order.                *)
(***************************************************************************)
EXTENDS ReportScan

CONSTANTS
    Files,    \* the test files of the shard
    Count,    \* [Files -> how many tests the file has]
    Rounds,   \* [Files -> how often the file is run]
    Verbose,  \* the files whose progress lines reach the log
    Tries     \* [Files -> how often a failing test is tried]

(* The tests of a file are numbered, and no test has the name of a marker  *)
(* or of a report that does not parse.                                     *)
ASSUME EvidenceAssumption ==
    /\ Count \in [Files -> Nat] /\ Rounds \in [Files -> Nat] /\ Tries \in [Files -> Nat]
    /\ WholeFile \notin Nat /\ Unreadable \notin Nat

VARIABLES
    tree,     \* what is on the disk
    session,  \* [Files -> the session that runs, or the last one]
    place,    \* [Files -> where run_test.py is in the file]
    last,     \* [tests -> what became of the last attempt]
    red,      \* files whose marker was printed
    half      \* XML files that count a failure they do not itemize

vars == <<tree, session, place, last, red, half>>

TestKeys == UNION {{Key(f, i) : i \in 1..Count[f]} : f \in Files}

NoSession == [no |-> 0, open |-> FALSE, cases |-> {}, stopped |-> FALSE]

Init ==
    /\ tree = [suites |-> {}, broken |-> {}, log |-> <<>>, logs |-> 1]
    /\ session = [f \in Files |-> NoSession]
    /\ place = [f \in Files |-> [round |-> 1, test |-> 1, tries |-> 0, gaveUp |-> FALSE]]
    /\ last = [k \in TestKeys |-> [result |-> "none", kept |-> "open"]]
    /\ red = {} /\ half = {}

InTheMiddle(f) == session[f].open \/ place[f].test > 1 \/ place[f].tries > 0

InFile(f) == place[f].round <= Rounds[f]

StartSession(f) ==
    /\ InFile(f) /\ ~session[f].open /\ place[f].test <= Count[f]
    /\ \A g \in Files \ {f} : ~InTheMiddle(g)
    /\ session' = [session EXCEPT ![f] = [NoSession EXCEPT !.no = session[f].no + 1,
                                                           !.open = TRUE]]
    /\ UNCHANGED <<tree, place, last, red, half>>

(* Behind a test that passed, and behind a failed attempt: the test is     *)
(* tried again unless it has failed Tries times.                           *)
Behind(p) == [p EXCEPT !.test = @ + 1, !.tries = 0]

AfterFailure(f, p) ==
    IF p.tries + 1 < Tries[f] THEN [p EXCEPT !.tries = @ + 1]
    ELSE [Behind(p) EXCEPT !.gaveUp = TRUE]

(* The lines of an attempt.  A test whose teardown fails has passed first. *)
Lines(key, outcome) ==
    CASE outcome = "passed"   -> <<[key |-> key, kind |-> "passed"]>>
      [] outcome = "failed"   -> <<[key |-> key, kind |-> "failed"]>>
      [] outcome = "teardown" -> <<[key |-> key, kind |-> "passed"],
                                   [key |-> key, kind |-> "failed"]>>
      [] outcome = "skipped"  -> <<>>

CaseKind(outcome) ==
    CASE outcome = "failed"   -> "failure"
      [] outcome = "teardown" -> "error"
      [] OTHER                -> outcome

Attempt(f, outcome) ==
    LET key == Key(f, place[f].test)
        bad == outcome \in {"failed", "teardown"}
    IN  /\ InFile(f) /\ session[f].open /\ ~session[f].stopped
        /\ place[f].test <= Count[f]
        /\ session' = [session EXCEPT
               ![f].cases = @ \union {[no   |-> Cardinality(@),
                                       key  |-> key,
                                       kind |-> CaseKind(outcome)]},
               ![f].stopped = bad]
        /\ place' = [place EXCEPT ![f] = IF bad THEN AfterFailure(f, @) ELSE Behind(@)]
        /\ last' = [last EXCEPT ![key] = [result |-> IF bad THEN "failed" ELSE "good",
                                          kept   |-> "open"]]
        /\ tree' = IF f \in Verbose
                   THEN [tree EXCEPT !.log = @ \o Lines(key, outcome)] ELSE tree
        /\ UNCHANGED <<red, half>>

(* The JUnit file of a session, with `more' failures in its headers than   *)
(* it itemizes.  Its timestamp orders it among those of its file.          *)
Suite(f, more) ==
    LET s == session[f]
    IN  [id |-> <<f, s.no>>, ts |-> s.no, cases |-> s.cases,
         declared |-> Cardinality(FailedCases(s)) + more,
         key |-> Key(NoFile, f), child |-> FALSE]

(* The attempts of the session are kept on the disk, or lost with it.      *)
Settle(f, kept) ==
    [k \in TestKeys |-> IF k \in {c.key : c \in session[f].cases}
                        THEN [last[k] EXCEPT !.kept = kept] ELSE last[k]]

CloseSession(f) ==
    /\ InFile(f) /\ session[f].open
    /\ session[f].stopped \/ place[f].test > Count[f]
    /\ tree' = [tree EXCEPT !.suites = @ \union {Suite(f, 0)}]
    /\ session' = [session EXCEPT ![f].open = FALSE]
    /\ last' = Settle(f, "kept")
    /\ UNCHANGED <<place, red, half>>

(* The process dies in a test.                                             *)
Die(f, leaves) ==
    LET key == Key(f, place[f].test)
        id  == <<f, session[f].no>>
    IN  /\ InFile(f) /\ session[f].open /\ ~session[f].stopped
        /\ place[f].test <= Count[f]
        /\ session' = [session EXCEPT ![f].open = FALSE]
        /\ place' = [place EXCEPT ![f] = AfterFailure(f, @)]
        /\ tree' = CASE leaves = "nothing" -> tree
                     [] leaves = "broken"  -> [tree EXCEPT !.broken = @ \union {id}]
                     [] leaves = "half"    -> [tree EXCEPT !.suites = @ \union {Suite(f, 1)}]
        /\ half' = IF leaves = "half" THEN half \union {id} ELSE half
        /\ last' = [Settle(f, IF leaves = "half" THEN "kept" ELSE "lost")
                        EXCEPT ![key] = [result |-> "failed", kept |-> "lost"]]
        /\ UNCHANGED red

(* The file is through: the marker if some test failed to the end, and the *)
(* next round.                                                             *)
CompleteFile(f) ==
    /\ InFile(f) /\ ~session[f].open /\ place[f].test > Count[f]
    /\ place' = [place EXCEPT ![f] = [round |-> @.round + 1, test |-> 1, tries |-> 0,
                                      gaveUp |-> FALSE]]
    /\ IF place[f].gaveUp
       THEN /\ tree' = [tree EXCEPT !.log =
                            Append(@, [key |-> Key(f, WholeFile), kind |-> "marker"])]
            /\ red' = red \union {f}
       ELSE UNCHANGED <<tree, red>>
    /\ UNCHANGED <<session, last, half>>

Outcomes == {"passed", "skipped", "failed", "teardown"}

Next ==
    \E f \in Files :
        \/ StartSession(f)
        \/ \E o \in Outcomes : Attempt(f, o)
        \/ CloseSession(f)
        \/ \E l \in {"nothing", "broken", "half"} : Die(f, l)
        \/ CompleteFile(f)

Spec == Init /\ [][Next]_vars

--------------------------------------------------------------------------------
(* Type correctness: the tree has the form ReportScan reads, and the       *)
(* totals that it takes from it count no test twice.                       *)
TypeOK ==
    /\ \A s \in tree.suites :
           /\ s.id[1] \in Files /\ s.ts \in Nat /\ s.declared \in Nat
           /\ \A c \in s.cases : c.key \in TestKeys /\ c.kind \in CaseKinds
    /\ \A x \in tree.broken : x[1] \in Files
    /\ \A i \in DOMAIN tree.log : tree.log[i].kind \in {"failed", "passed", "marker"}
    /\ red \subseteq Files
    /\ \A k \in TestKeys : /\ last[k].result \in {"none", "good", "failed"}
                           /\ last[k].kept \in {"open", "kept", "lost"}
    /\ SkippedOnly(tree) \cap (FailedKeys(tree) \union PassedOnly(tree)) = {}
    /\ PassedOnly(tree) \cap FailedKeys(tree) = {}

(* A test is not reported when its last attempt passed or was skipped,     *)
(* unless the report of that attempt was lost with its process: the        *)
(* reconciliation of _is_recovered.                                        *)
NothingInvented ==
    \A r \in Failures(tree) :
        r.key \in TestKeys /\ last[r.key].result = "good" => last[r.key].kept # "kept"

(* A test whose last attempt failed and was recorded is reported, whatever *)
(* earlier rounds and retries recorded of it: "an early pass can never     *)
(* mask a genuinely later failure".  For a file whose progress lines are   *)
(* in the log the code does not do that (a PASSED line outweighs all       *)
(* else), see EveryRedFileIsNamed.                                         *)
NoFailureLost ==
    \A k \in TestKeys :
        (last[k] = [result |-> "failed", kept |-> "kept"] /\ k.file \notin Verbose)
            => k \in FailedKeys(tree)

(* Every file that failed to the end has a row, of the file or of one of   *)
(* its tests: the markers are dropped only after the failures that were    *)
(* made good are.                                                          *)
EveryRedFileIsNamed ==
    \A f \in red : \E r \in Failures(tree) : r.key.file = f

(* A shard with a report that counts a failure it does not itemize, with   *)
(* one that does not parse, or with a red file is never summarised as      *)
(* passed, also not when it is killed right afterwards.                    *)
CrashIsNotGreen ==
    half # {} \/ red # {} \/ tree.broken # {} => Verdict(tree) # "all passed"
================================================================================
