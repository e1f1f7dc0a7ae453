------------------------------ MODULE ReportScan -------------------------------
(***************************************************************************)
(* What scripts/test-summary/parse_failures.py reads out of the reports    *)
(* tree of a shard: run_test.py leaves one JUnit file per session of a     *)
(* test file, several of the same file when it retries, and a run log with *)
(* a line per outcome.  Some of it is missing or broken when a process     *)
(* died, so the two sources are combined and reconciled.                   *)
(*                                                                         *)
(* A tree is a record                                                      *)
(*   suites  the <testsuite>s of the XML files that parse: records [id,    *)
(*           ts, declared, cases, key, child], where ts is the suite's     *)
(*           timestamp, declared what its failures and errors headers add  *)
(*           up to, cases a set of records [no, key, kind], and child says *)
(*           that the suite itself holds a failure or an error (a          *)
(*           collection error), which counts as the test `key';            *)
(*   broken  the XML files that do not parse (one that does holds a        *)
(*           suite);                                                       *)
(*   log     the lines of the logs that mean something to the scan, in     *)
(*           order: records [key, kind], where kind is "failed" or         *)
(*           "passed" for the two orders of a pytest progress line and for *)
(*           the summary line, and "marker" for `<file> failed!';          *)
(*   logs    how many log files there are.                                 *)
(*                                                                         *)
(* A test is identified by [file, name]: the test-root relative path that  *)
(* module_path derives, and the class and name of dedup_key.  Messages,    *)
(* titles and the order of the rendered rows are left out, and so is the   *)
(* "error" or "failure" a row is labelled with.                            *)
(*                                                                         *)
(* An operator named ...Mutant is a plausible bug of the definition that   *)
(* follows it; no specification uses it.                                   *)
(***************************************************************************)
EXTENDS Integers, Sequences, FiniteSets

CONSTANTS
    NoFile,     \* the file of a key when neither file nor classname tells
    WholeFile,  \* the name in the key of a `<file> failed!' marker
    Unreadable  \* the name in the key of the row of an XML file that does not
                \* parse; its file is the XML file itself

Key(file, name) == [file |-> file, name |-> name]

FailKinds == {"failure", "error"}
CaseKinds == FailKinds \union {"passed", "skipped"}

(***************************************************************************)
(* What the sources say of a test.                                         *)
(***************************************************************************)
CasesOf(tree, key, kinds) ==
    {s \in tree.suites : \E c \in s.cases : c.key = key /\ c.kind \in kinds}

XmlKeys(tree, kinds) ==
    UNION {{c.key : c \in {d \in s.cases : d.kind \in kinds}} : s \in tree.suites}

ChildKeys(tree) == {s.key : s \in {t \in tree.suites : t.child}}

LogKeys(tree, kinds) ==
    {tree.log[i].key : i \in {j \in DOMAIN tree.log : tree.log[j].kind \in kinds}}

PassedKeys(tree) == XmlKeys(tree, {"passed"})
SkippedKeys(tree) == XmlKeys(tree, {"skipped"})

(* The timestamps of the suites in which a test failed, and of those in    *)
(* which it passed or was skipped.                                         *)
FailTimes(tree, key) ==
    {s.ts : s \in CasesOf(tree, key, FailKinds)
                  \union {t \in tree.suites : t.child /\ t.key = key}}

OkTimesMutant(tree, key) == {s.ts : s \in CasesOf(tree, key, {"passed"})}

OkTimes(tree, key) == {s.ts : s \in CasesOf(tree, key, {"passed", "skipped"})}

(***************************************************************************)
(* Has a failure been made good by a later attempt?  A PASSED line in the  *)
(* log always says so, a pass or skip in XML when no failure of the test   *)
(* in XML is newer.                                                        *)
(***************************************************************************)
RecoveredMutant(tree, key) ==
    \/ key \in LogKeys(tree, {"passed"})
    \/ OkTimes(tree, key) # {}

Recovered(tree, key) ==
    \/ key \in LogKeys(tree, {"passed"})
    \/ /\ OkTimes(tree, key) # {}
       /\ \A f \in FailTimes(tree, key) : \E o \in OkTimes(tree, key) : o >= f

(***************************************************************************)
(* The rows that the sink holds when both sources are read: one per test,  *)
(* XML before the logs and, within the logs, the first line before the     *)
(* others.  `whole' marks the row of a whole file.                         *)
(***************************************************************************)
MarkerFirst(tree, key) ==
    \E i \in DOMAIN tree.log :
        /\ tree.log[i] = [key |-> key, kind |-> "marker"]
        /\ \A j \in 1..(i - 1) :
               ~(tree.log[j].key = key /\ tree.log[j].kind = "failed")

Sunk(tree) ==
    LET xml == XmlKeys(tree, FailKinds) \union ChildKeys(tree)
        log == LogKeys(tree, {"failed", "marker"}) \ xml
    IN  {[key |-> k, source |-> "xml", whole |-> FALSE] : k \in xml}
        \union {[key |-> k, source |-> "log", whole |-> MarkerFirst(tree, k)] :
                   k \in log}
        \union {[key |-> Key(x, Unreadable), source |-> "report", whole |-> FALSE] :
                   x \in tree.broken}

(* The marker of a file is dropped when a test of the file is a row too.   *)
DropRedundantMarkers(rows) ==
    LET itemized == {r.key.file : r \in {q \in rows : ~q.whole}} \ {NoFile}
    IN  {r \in rows : ~(r.whole /\ r.key.file \in itemized)}

Unrecovered(tree, rows) == {r \in rows : ~Recovered(tree, r.key)}

FailuresMutant(tree) == Unrecovered(tree, DropRedundantMarkers(Sunk(tree)))

Failures(tree) == DropRedundantMarkers(Unrecovered(tree, Sunk(tree)))

FailedKeys(tree) == {r.key : r \in Failures(tree)}

(***************************************************************************)
(* The totals of the summary, and what the headers declare beyond the      *)
(* failures that were itemized.                                            *)
(***************************************************************************)
PassedOnly(tree) == PassedKeys(tree) \ FailedKeys(tree)

SkippedOnlyMutant(tree) == SkippedKeys(tree) \ FailedKeys(tree)

SkippedOnly(tree) == SkippedKeys(tree) \ (FailedKeys(tree) \union PassedKeys(tree))

(* Both are sums over the suites, counted as the pairs of a suite and one  *)
(* of its failures.                                                        *)
DeclaredFailures(tree) ==
    UNION {{s} \X (1..s.declared) : s \in tree.suites}

FailedCases(s) == {c \in s.cases : c.kind \in FailKinds}

ItemizedFailures(tree) == UNION {{s} \X FailedCases(s) : s \in tree.suites}

Declared(tree) == Cardinality(DeclaredFailures(tree))

Itemized(tree) ==
    Cardinality(ItemizedFailures(tree)) + Cardinality({s \in tree.suites : s.child})

AtLeastZero(n) == IF n > 0 THEN n ELSE 0

MissingItemization(tree) == AtLeastZero(Declared(tree) - Itemized(tree))

(* What the summary of a shard says of it.                                 *)
VerdictMutant(tree) ==
    CASE tree.suites = {} /\ tree.broken = {} /\ tree.logs = 0 -> "nothing found"
      [] Failures(tree) # {} -> "failing"
      [] OTHER -> "all passed"

Verdict(tree) ==
    CASE tree.suites = {} /\ tree.broken = {} /\ tree.logs = 0 -> "nothing found"
      [] Failures(tree) # {} -> "failing"
      [] Failures(tree) = {} /\ MissingItemization(tree) > 0 -> "likely crash"
      [] OTHER -> "all passed"
================================================================================
