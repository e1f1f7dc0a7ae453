-------------------------- MODULE ShardEvidence_proofs --------------------------
(***************************************************************************)
(* Theorems about ShardEvidence, and through it about the reconciliation   *)
(* of ReportScan, for any test files, tests, rounds and tries.             *)
(***************************************************************************)
EXTENDS ShardEvidence, FiniteSetTheorems, FunctionTheorems, TLAPS

(***************************************************************************)
(* The inductive invariant.                                                *)
(***************************************************************************)
CaseType == [no : Nat, key : TestKeys, kind : CaseKinds]

SuiteType ==
    [id : Files \X Nat, ts : Nat, cases : SUBSET CaseType, declared : Nat,
     key : {Key(NoFile, f) : f \in Files}, child : {FALSE}]

LineType ==
    [key : TestKeys \union {Key(f, WholeFile) : f \in Files},
     kind : {"failed", "passed", "marker"}]

TreeType ==
    [suites : SUBSET SuiteType, broken : SUBSET (Files \X Nat), log : Seq(LineType),
     logs : {1}]

SessionType == [no : Nat, open : BOOLEAN, cases : SUBSET CaseType, stopped : BOOLEAN]

PlaceType == [round : Nat, test : Nat \ {0}, tries : Nat, gaveUp : BOOLEAN]

LastType == [result : {"none", "good", "failed"}, kept : {"open", "kept", "lost"}]

(* The types of the variables.                                             *)
Shapes ==
    /\ tree \in TreeType
    /\ session \in [Files -> SessionType] /\ place \in [Files -> PlaceType]
    /\ last \in [TestKeys -> LastType]
    /\ red \subseteq Files /\ half \subseteq Files \X Nat

(* The cases of one session are of its file, each of another test.         *)
OneSession(f, cases) ==
    /\ IsFiniteSet(cases)
    /\ \A c \in cases : c.key.file = f
    /\ \A c, d \in cases : c.key = d.key => c = d

(* A case of the session that runs is behind it unless it stopped there,   *)
(* and is the last attempt of its test.                                    *)
SessionInv ==
    \A f \in Files :
        /\ OneSession(f, session[f].cases)
        /\ session[f].open /\ ~session[f].stopped =>
               \A c \in session[f].cases : c.key.name < place[f].test
        /\ session[f].open =>
               \A c \in session[f].cases :
                   c.kind \in FailKinds <=> last[c.key].result = "failed"

(* A suite is what a session that is over left; its headers count no less  *)
(* than it itemizes, and more if its process died after it was written.    *)
SuiteInv ==
    /\ IsFiniteSet(tree.suites)
    /\ \A s \in tree.suites :
           /\ OneSession(s.id[1], s.cases)
           /\ s.ts <= session[s.id[1]].no
           /\ session[s.id[1]].open => s.ts < session[s.id[1]].no
           /\ s.declared >= Cardinality(FailedCases(s))
    /\ half # {} => \E s \in tree.suites : s.declared > Cardinality(FailedCases(s))

(* A line about an attempt names its test, a passing one a verbose file,   *)
(* and a red file has its marker.                                          *)
LogInv ==
    /\ \A i \in DOMAIN tree.log : tree.log[i].kind # "marker" => tree.log[i].key \in TestKeys
    /\ \A i \in DOMAIN tree.log : tree.log[i].kind = "passed" => tree.log[i].key.file \in Verbose
    /\ \A f \in red : \E i \in DOMAIN tree.log :
           tree.log[i] = [key |-> Key(f, WholeFile), kind |-> "marker"]

(* The last attempt of a test, if its report was kept, is in a suite, and  *)
(* what other suites hold of the test is older.                            *)
Latest(k, s, c) ==
    /\ c \in s.cases /\ c.key = k
    /\ c.kind \in FailKinds <=> last[k].result = "failed"
    /\ \A t \in tree.suites : \A d \in t.cases : d.key = k => t.ts < s.ts \/ (t = s /\ d = c)

LastInv ==
    \A k \in TestKeys :
        last[k].kept = "kept" => \E s \in tree.suites : \E c \in s.cases : Latest(k, s, c)

IInv == Shapes /\ SessionInv /\ SuiteInv /\ LogInv /\ LastInv

(***************************************************************************)
(* What the scan makes of such a tree.                                     *)
(***************************************************************************)
(* The key of a test holds its file and its number, and is neither the key *)
(* of a marker nor that of a broken report.                                *)
LEMMA KeyFacts ==
  /\ \A f \in Files : \A i \in 1..Count[f] : Key(f, i) \in TestKeys
  /\ \A k \in TestKeys : k.file \in Files /\ k.name \in Nat /\ k = Key(k.file, k.name)
  /\ \A x : Key(x, WholeFile) \notin TestKeys /\ Key(x, Unreadable) \notin TestKeys
  /\ \A x, y : Key(x, y).file = x /\ Key(x, y).name = y
  <1>1. \A f \in Files : \A i \in 1..Count[f] : Key(f, i) \in TestKeys
    BY DEF TestKeys
  <1>2. \A x, y : Key(x, y).file = x /\ Key(x, y).name = y
    BY DEF Key
  <1>3. ASSUME NEW k \in TestKeys
        PROVE  k.file \in Files /\ k.name \in Nat /\ k = Key(k.file, k.name)
    <2>a. PICK f \in Files : \E i \in 1..Count[f] : k = Key(f, i)
      BY DEF TestKeys
    <2>1. PICK i \in 1..Count[f] : k = Key(f, i)
      BY <2>a
    <2>2. k.file = f /\ k.name = i
      BY <1>2, <2>1
    <2>3. i \in Nat
      BY EvidenceAssumption
    <2>4. QED
      BY <2>1, <2>2, <2>3
  <1>4. \A x : Key(x, WholeFile) \notin TestKeys /\ Key(x, Unreadable) \notin TestKeys
    BY <1>2, <1>3, EvidenceAssumption
  <1>5. QED
    BY <1>1, <1>2, <1>3, <1>4

(* What the suites hold, read through the operators of the scan.           *)
LEMMA SuiteFacts ==
  ASSUME Shapes
  PROVE  /\ ChildKeys(tree) = {}
         /\ \A s \in tree.suites : s.ts \in Nat /\ \A c \in s.cases : c.key \in TestKeys
         /\ \A k : \A f \in FailTimes(tree, k) : \E s \in tree.suites : \E c \in s.cases :
                f = s.ts /\ c.key = k /\ c.kind \in FailKinds
         /\ \A k : \A o \in OkTimes(tree, k) : \E s \in tree.suites : \E c \in s.cases :
                o = s.ts /\ c.key = k /\ c.kind \in {"passed", "skipped"}
         /\ \A s \in tree.suites : \A c \in s.cases :
                /\ c.kind \in FailKinds => s.ts \in FailTimes(tree, c.key)
                /\ c.kind \notin FailKinds => s.ts \in OkTimes(tree, c.key)
  <1>1. \A s \in tree.suites : /\ s.ts \in Nat /\ s.child = FALSE
                                /\ \A c \in s.cases : c.key \in TestKeys /\ c.kind \in CaseKinds
    BY DEF Shapes, TreeType, SuiteType, CaseType
  <1>2. ChildKeys(tree) = {}
    BY <1>1 DEF ChildKeys
  <1>3. ASSUME NEW k, NEW f \in FailTimes(tree, k)
        PROVE  \E s \in tree.suites : \E c \in s.cases :
                  f = s.ts /\ c.key = k /\ c.kind \in FailKinds
    BY <1>1 DEF FailTimes, CasesOf
  <1>4. ASSUME NEW k, NEW o \in OkTimes(tree, k)
        PROVE  \E s \in tree.suites : \E c \in s.cases :
                  o = s.ts /\ c.key = k /\ c.kind \in {"passed", "skipped"}
    BY DEF OkTimes, CasesOf
  <1>5. ASSUME NEW s \in tree.suites, NEW c \in s.cases
        PROVE  /\ c.kind \in FailKinds => s.ts \in FailTimes(tree, c.key)
               /\ c.kind \notin FailKinds => s.ts \in OkTimes(tree, c.key)
    <2>1. c.kind \notin FailKinds => c.kind \in {"passed", "skipped"}
      BY <1>1 DEF CaseKinds
    <2>2. QED
      BY <2>1 DEF FailTimes, OkTimes, CasesOf
  <1>6. QED
    BY <1>1, <1>2, <1>3, <1>4, <1>5

(* A row of the scan that is not the marker of a whole file is a failure   *)
(* if it was not made good, and so every row of the scan has a failure of  *)
(* its file.                                                               *)
LEMMA RowsStay ==
  ASSUME NEW r \in Sunk(tree), ~Recovered(tree, r.key)
  PROVE  /\ ~r.whole => r \in Failures(tree)
         /\ \E q \in Failures(tree) : q.key.file = r.key.file
  <1> DEFINE rows == Unrecovered(tree, Sunk(tree))
  <1>1. r \in rows
    BY DEF Unrecovered
  <1>2. Failures(tree) = DropRedundantMarkers(rows)
    BY DEF Failures
  <1> HIDE DEF rows
  <1>3. \A q \in rows : ~q.whole => q \in Failures(tree)
    BY <1>2 DEF DropRedundantMarkers
  <1>4. CASE r \in Failures(tree)
    BY <1>1, <1>3, <1>4
  <1>5. CASE r \notin Failures(tree)
    <2>1. r.key.file \in {q.key.file : q \in {p \in rows : ~p.whole}}
      BY <1>1, <1>2, <1>5 DEF DropRedundantMarkers
    <2>2. PICK q \in rows : ~q.whole /\ q.key.file = r.key.file
      BY <2>1
    <2>3. QED
      BY <1>1, <1>3, <2>2
  <1>6. QED
    BY <1>4, <1>5

(* Every failure comes from a row that was not made good.                  *)
LEMMA FailuresAreRows ==
  \A r \in Failures(tree) : r \in Sunk(tree) /\ ~Recovered(tree, r.key)
  BY DEF Failures, DropRedundantMarkers, Unrecovered

(* A failure that the reports hold of a test is a failure of the scan      *)
(* unless it was made good.                                                *)
LEMMA FailedCaseIsNamed ==
  ASSUME NEW s \in tree.suites, NEW c \in s.cases, c.kind \in FailKinds,
         ~Recovered(tree, c.key)
  PROVE  c.key \in FailedKeys(tree)
  <1> DEFINE r == [key |-> c.key, source |-> "xml", whole |-> FALSE]
  <1>1. c.key \in XmlKeys(tree, FailKinds)
    BY DEF XmlKeys
  <1>2. r \in Sunk(tree)
    BY <1>1 DEF Sunk
  <1>3. r.key = c.key /\ ~r.whole
    OBVIOUS
  <1> HIDE DEF r
  <1>4. r \in Failures(tree)
    BY <1>2, <1>3, RowsStay
  <1>5. QED
    BY <1>3, <1>4 DEF FailedKeys

(***************************************************************************)
(* The properties follow from the invariant.                               *)
(***************************************************************************)
(* A kept last attempt that was good makes up for every failure of the     *)
(* test: no other suite is as new.                                         *)
LEMMA GoodIsRecovered ==
  ASSUME IInv, NEW k \in TestKeys, last[k].kept = "kept", last[k].result = "good"
  PROVE  Recovered(tree, k)
  <1>1. PICK s \in tree.suites : \E c \in s.cases : Latest(k, s, c)
    BY DEF IInv, LastInv
  <1>2. PICK c \in s.cases : Latest(k, s, c)
    BY <1>1
  <1>3. c.key = k /\ c.kind \notin FailKinds
    BY <1>2 DEF Latest
  <1>4. s.ts \in OkTimes(tree, k)
    BY <1>3, SuiteFacts DEF IInv
  <1>5. ASSUME NEW f \in FailTimes(tree, k) PROVE s.ts >= f
    <2>1. PICK t \in tree.suites : \E d \in t.cases : f = t.ts /\ d.key = k /\ d.kind \in FailKinds
      BY SuiteFacts DEF IInv
    <2>2. PICK d \in t.cases : f = t.ts /\ d.key = k /\ d.kind \in FailKinds
      BY <2>1
    <2>3. t.ts < s.ts
      BY <1>2, <1>3, <2>2 DEF Latest
    <2>4. s.ts \in Nat /\ t.ts \in Nat
      BY SuiteFacts DEF IInv
    <2>5. QED
      BY <2>2, <2>3, <2>4
  <1>6. QED
    BY <1>4, <1>5 DEF Recovered

(* A kept last attempt that failed is not made good by older passes.       *)
LEMMA FailureIsNamed ==
  ASSUME IInv, NEW k \in TestKeys, last[k] = [result |-> "failed", kept |-> "kept"],
         k.file \notin Verbose
  PROVE  k \in FailedKeys(tree)
  <1>0. last[k].kept = "kept" /\ last[k].result = "failed"
    OBVIOUS
  <1>1. PICK s \in tree.suites : \E c \in s.cases : Latest(k, s, c)
    BY <1>0 DEF IInv, LastInv
  <1>2. PICK c \in s.cases : Latest(k, s, c)
    BY <1>1
  <1>3. c.key = k /\ c.kind \in FailKinds
    BY <1>0, <1>2 DEF Latest
  <1>4. s.ts \in FailTimes(tree, k)
    BY <1>3, SuiteFacts DEF IInv
  <1>5. k \notin LogKeys(tree, {"passed"})
    BY DEF LogKeys, IInv, LogInv
  <1>6. ASSUME NEW o \in OkTimes(tree, k) PROVE ~(o >= s.ts)
    <2>1. PICK t \in tree.suites : \E d \in t.cases :
              o = t.ts /\ d.key = k /\ d.kind \in {"passed", "skipped"}
      BY SuiteFacts DEF IInv
    <2>2. PICK d \in t.cases : o = t.ts /\ d.key = k /\ d.kind \in {"passed", "skipped"}
      BY <2>1
    <2>3. d # c
      BY <1>3, <2>2 DEF FailKinds
    <2>4. t.ts < s.ts
      BY <1>2, <2>2, <2>3 DEF Latest
    <2>5. s.ts \in Nat /\ t.ts \in Nat
      BY SuiteFacts DEF IInv
    <2>6. QED
      BY <2>2, <2>4, <2>5
  <1>7. ~Recovered(tree, k)
    BY <1>4, <1>5, <1>6 DEF Recovered
  <1>8. QED
    BY <1>3, <1>7, FailedCaseIsNamed

(* Neither a log line nor a suite says that what is no test has passed.    *)
LEMMA OnlyTestsRecover ==
  ASSUME IInv, NEW k, k \notin TestKeys
  PROVE  ~Recovered(tree, k)
  <1>1. k \notin LogKeys(tree, {"passed"})
    <2>1. SUFFICES ASSUME NEW i \in DOMAIN tree.log, tree.log[i].kind = "passed"
                   PROVE  tree.log[i].key # k
      BY DEF LogKeys
    <2>2. QED
      BY <2>1 DEF IInv, LogInv
  <1>2. OkTimes(tree, k) = {}
    BY SuiteFacts DEF IInv
  <1>3. QED
    BY <1>1, <1>2 DEF Recovered

(* The marker of a red file is a row of the scan.                          *)
LEMMA MarkerIsSunk ==
  ASSUME IInv, NEW f \in red
  PROVE  \E r \in Sunk(tree) : r.key = Key(f, WholeFile)
  <1> DEFINE k == Key(f, WholeFile)
             xml == XmlKeys(tree, FailKinds) \union ChildKeys(tree)
             log == LogKeys(tree, {"failed", "marker"}) \ xml
             r == [key |-> k, source |-> "log", whole |-> MarkerFirst(tree, k)]
  <1>1. k \notin TestKeys
    BY KeyFacts
  <1>2. k \notin xml
    <2>1. k \notin XmlKeys(tree, FailKinds)
      BY <1>1, SuiteFacts DEF XmlKeys, IInv
    <2>2. QED
      BY <2>1, SuiteFacts DEF IInv
  <1>3. k \in LogKeys(tree, {"failed", "marker"})
    <2>1. PICK i \in DOMAIN tree.log : tree.log[i] = [key |-> k, kind |-> "marker"]
      BY DEF IInv, LogInv
    <2>2. tree.log[i].key = k /\ tree.log[i].kind = "marker"
      BY <2>1
    <2>3. QED
      BY <2>2 DEF LogKeys
  <1>4. r \in {[key |-> j, source |-> "log", whole |-> MarkerFirst(tree, j)] : j \in log}
    BY <1>2, <1>3
  <1>5. r.key = k
    OBVIOUS
  <1>6. Sunk(tree) = {[key |-> j, source |-> "xml", whole |-> FALSE] : j \in xml}
            \union {[key |-> j, source |-> "log", whole |-> MarkerFirst(tree, j)] : j \in log}
            \union {[key |-> Key(x, Unreadable), source |-> "report", whole |-> FALSE] :
                       x \in tree.broken}
    BY DEF Sunk
  <1> HIDE DEF r, k, log, xml
  <1>7. r \in Sunk(tree)
    BY <1>4, <1>6
  <1>8. QED
    BY <1>5, <1>7 DEF k

(* So a red file has a failure.                                            *)
LEMMA RedIsNamed ==
  ASSUME IInv, NEW f \in red
  PROVE  \E r \in Failures(tree) : r.key.file = f
  <1>1. PICK r \in Sunk(tree) : r.key = Key(f, WholeFile)
    BY MarkerIsSunk
  <1>2. ~Recovered(tree, r.key)
    BY <1>1, KeyFacts, OnlyTestsRecover
  <1>3. QED
    BY <1>1, <1>2, RowsStay, KeyFacts

(* And so has a report that does not parse.                                *)
LEMMA BrokenIsNamed ==
  ASSUME IInv, NEW x \in tree.broken
  PROVE  Failures(tree) # {}
  <1> DEFINE r == [key |-> Key(x, Unreadable), source |-> "report", whole |-> FALSE]
  <1>1. r \in Sunk(tree)
    BY DEF Sunk
  <1>2. r.key = Key(x, Unreadable)
    OBVIOUS
  <1> HIDE DEF r
  <1>3. ~Recovered(tree, r.key)
    BY <1>2, KeyFacts, OnlyTestsRecover
  <1>4. QED
    BY <1>1, <1>3, RowsStay

(* Finite sets of failures under a suite each.                             *)
LEMMA FiniteFailures ==
  ASSUME Shapes, SuiteInv
  PROVE  /\ IsFiniteSet(DeclaredFailures(tree))
         /\ \A s \in tree.suites : IsFiniteSet(FailedCases(s))
  <1>1. ASSUME NEW s \in tree.suites
        PROVE  IsFiniteSet(FailedCases(s)) /\ IsFiniteSet({s} \X (1..s.declared))
    <2>1. IsFiniteSet(s.cases) /\ FailedCases(s) \in SUBSET s.cases
      BY DEF SuiteInv, OneSession, FailedCases
    <2>2. IsFiniteSet(FailedCases(s))
      BY <2>1, FS_Subset
    <2>n. s.declared \in Nat
      BY DEF Shapes, TreeType, SuiteType
    <2>3. s.declared \in Int /\ 1 \in Int
      BY <2>n
    <2>4. IsFiniteSet(1..s.declared) /\ IsFiniteSet({s})
      BY <2>3, FS_Interval, FS_Singleton
    <2>5. IsFiniteSet({s} \X (1..s.declared))
      BY <2>4, FS_Product
    <2>6. QED
      BY <2>2, <2>5
  <1> DEFINE pairs(s) == {s} \X (1..s.declared)
             sets == {pairs(s) : s \in tree.suites}
             f == [s \in tree.suites |-> pairs(s)]
  <1>2. f \in Surjection(tree.suites, sets)
    BY Fun_IsSurj, Zenon
  <1>3. IsFiniteSet(sets)
    BY <1>2, FS_Surjection DEF SuiteInv
  <1>4. \A T \in sets : IsFiniteSet(T)
    BY <1>1
  <1>5. IsFiniteSet(UNION sets)
    BY <1>3, <1>4, FS_UNION
  <1>6. DeclaredFailures(tree) = UNION sets
    BY DEF DeclaredFailures
  <1>7. QED
    BY <1>1, <1>5, <1>6

(* A report whose headers count a failure that it does not itemize is      *)
(* missed, as no other report itemizes more than it counts.                *)
LEMMA HalfIsMissing ==
  ASSUME IInv, half # {}
  PROVE  MissingItemization(tree) > 0
  <1> DEFINE D == DeclaredFailures(tree)
             F == ItemizedFailures(tree)
  <1>1. PICK h \in tree.suites : h.declared > Cardinality(FailedCases(h))
    BY DEF IInv, SuiteInv
  <1>2. ASSUME NEW s \in tree.suites
        PROVE  /\ Cardinality(FailedCases(s)) \in Nat /\ s.declared \in Nat
               /\ Cardinality(FailedCases(s)) <= s.declared
               /\ \E g : g \in Injection(FailedCases(s), 1..Cardinality(FailedCases(s)))
    <2>1. IsFiniteSet(FailedCases(s))
      BY FiniteFailures DEF IInv
    <2>2. /\ Cardinality(FailedCases(s)) \in Nat
          /\ ExistsBijection(1..Cardinality(FailedCases(s)), FailedCases(s))
      BY <2>1, FS_CardinalityType
    <2>3. ExistsBijection(FailedCases(s), 1..Cardinality(FailedCases(s)))
      BY <2>2, Fun_ExistsBijSymmetric
    <2>4. s.declared \in Nat /\ s.declared >= Cardinality(FailedCases(s))
      BY DEF IInv, Shapes, TreeType, SuiteType, SuiteInv
    <2>5. QED
      BY <2>2, <2>3, <2>4 DEF ExistsBijection, Bijection
  <1> DEFINE number == [s \in tree.suites |->
                           CHOOSE g : g \in Injection(FailedCases(s),
                                                      1..Cardinality(FailedCases(s)))]
  <1>3. \A s \in tree.suites :
            number[s] \in Injection(FailedCases(s), 1..Cardinality(FailedCases(s)))
    BY <1>2
  <1> HIDE DEF number
  <1>4. \A s \in tree.suites : \A c, d \in FailedCases(s) :
            /\ number[s][c] \in 1..Cardinality(FailedCases(s))
            /\ number[s][c] = number[s][d] => c = d
    BY <1>3 DEF Injection, IsInjective
  <1> DEFINE last1 == <<h, h.declared>>
             e == [p \in F |-> <<p[1], number[p[1]][p[2]]>>]
  <1>5. ASSUME NEW p \in F
        PROVE  /\ p[1] \in tree.suites /\ p[2] \in FailedCases(p[1]) /\ p = <<p[1], p[2]>>
               /\ e[p] \in D \ {last1}
    <2>1. PICK s \in tree.suites : p \in {s} \X FailedCases(s)
      BY DEF ItemizedFailures
    <2>2. p[1] = s /\ p[2] \in FailedCases(s) /\ p = <<p[1], p[2]>>
      BY <2>1
    <2>3. e[p] = <<s, number[s][p[2]]>>
      BY <2>2
    <2>4. number[s][p[2]] \in 1..s.declared
      BY <1>2, <1>4, <2>2
    <2>5. e[p] \in D
      BY <2>3, <2>4 DEF DeclaredFailures
    <2>6. s = h => number[s][p[2]] # h.declared
      BY <1>1, <1>2, <1>4, <2>2
    <2>7. e[p] # last1
      BY <2>3, <2>6
    <2>8. QED
      BY <2>2, <2>5, <2>7
  <1>6. e \in Injection(F, D \ {last1})
    <2>1. e \in [F -> D \ {last1}]
      BY <1>5
    <2>2. ASSUME NEW p \in F, NEW q \in F, e[p] = e[q] PROVE p = q
      <3>1. p[1] = q[1] /\ number[p[1]][p[2]] = number[q[1]][q[2]]
        BY <2>2
      <3>a. /\ p[1] \in tree.suites /\ p[2] \in FailedCases(p[1])
            /\ q[2] \in FailedCases(p[1]) /\ number[p[1]][p[2]] = number[p[1]][q[2]]
        BY <1>5, <3>1
      <3>2. p[2] = q[2]
        BY <1>4, <3>a
      <3>3. p = <<p[1], p[2]>> /\ q = <<q[1], q[2]>>
        BY <1>5
      <3>4. QED
        BY <3>1, <3>2, <3>3
    <2> HIDE DEF e, D, F, last1
    <2>3. QED
      BY <2>1, <2>2 DEF Injection, IsInjective
  <1>7. last1 \in D
    BY <1>1, <1>2 DEF DeclaredFailures
  <1>8. IsFiniteSet(D)
    BY FiniteFailures DEF IInv
  <1> HIDE DEF D, F, e, last1
  <1>9. /\ IsFiniteSet(D \ {last1}) /\ Cardinality(D \ {last1}) = Cardinality(D) - 1
        /\ Cardinality(D) \in Nat
    BY <1>7, <1>8, FS_RemoveElement, FS_CardinalityType
  <1>10. IsFiniteSet(F) /\ Cardinality(F) <= Cardinality(D \ {last1})
    BY <1>6, <1>9, FS_Injection
  <1>11. Cardinality(F) \in Nat /\ Cardinality(D) \in Nat /\ Cardinality(F) < Cardinality(D)
    BY <1>9, <1>10, FS_CardinalityType
  <1>12. Cardinality({s \in tree.suites : s.child}) = 0
    <2>1. {s \in tree.suites : s.child} = {}
      BY DEF IInv, Shapes, TreeType, SuiteType
    <2>2. QED
      BY <2>1, FS_EmptySet
  <1>13. Declared(tree) - Itemized(tree) > 0
    BY <1>11, <1>12 DEF Declared, Itemized, D, F
  <1>14. QED
    BY <1>13 DEF MissingItemization, AtLeastZero

(* The invariant implies what the shard's summary owes.                    *)
LEMMA Consequences ==
  ASSUME IInv
  PROVE  TypeOK /\ NothingInvented /\ NoFailureLost /\ EveryRedFileIsNamed /\ CrashIsNotGreen
  <1>1. TypeOK
    <2>1. \A s \in tree.suites :
              /\ s.id[1] \in Files /\ s.ts \in Nat /\ s.declared \in Nat
              /\ \A c \in s.cases : c.key \in TestKeys /\ c.kind \in CaseKinds
      BY DEF IInv, Shapes, TreeType, SuiteType, CaseType
    <2>2. \A x \in tree.broken : x[1] \in Files
      BY DEF IInv, Shapes, TreeType
    <2>3. \A i \in DOMAIN tree.log : tree.log[i].kind \in {"failed", "passed", "marker"}
      <3>1. tree.log \in Seq(LineType)
        BY DEF IInv, Shapes, TreeType
      <3>2. \A i \in DOMAIN tree.log : tree.log[i] \in LineType
        BY <3>1
      <3>3. QED
        BY <3>2 DEF LineType
    <2>4. \A k \in TestKeys : /\ last[k].result \in {"none", "good", "failed"}
                              /\ last[k].kept \in {"open", "kept", "lost"}
      BY DEF IInv, Shapes, LastType
    <2>5. /\ SkippedOnly(tree) \cap (FailedKeys(tree) \union PassedOnly(tree)) = {}
          /\ PassedOnly(tree) \cap FailedKeys(tree) = {}
      BY DEF SkippedOnly, PassedOnly
    <2>6. QED
      BY <2>1, <2>2, <2>3, <2>4, <2>5 DEF TypeOK, IInv, Shapes
  <1>2. NothingInvented
    BY GoodIsRecovered, FailuresAreRows DEF NothingInvented
  <1>3. NoFailureLost
    BY FailureIsNamed DEF NoFailureLost
  <1>4. EveryRedFileIsNamed
    BY RedIsNamed DEF EveryRedFileIsNamed
  <1>5. CrashIsNotGreen
    <2>1. tree.logs = 1
      BY DEF IInv, Shapes, TreeType
    <2>2. red # {} \/ tree.broken # {} => Failures(tree) # {}
      BY RedIsNamed, BrokenIsNamed
    <2>3. half # {} => MissingItemization(tree) > 0
      BY HalfIsMissing
    <2>4. Failures(tree) # {} \/ MissingItemization(tree) > 0 => Verdict(tree) # "all passed"
      BY <2>1 DEF Verdict
    <2>5. QED
      BY <2>2, <2>3, <2>4 DEF CrashIsNotGreen
  <1>6. QED
    BY <1>1, <1>2, <1>3, <1>4, <1>5

(***************************************************************************)
(* The pieces of the steps.                                                *)
(***************************************************************************)
(* run_test.py goes on behind a test, or tries it again.                   *)
LEMMA PlaceMoves ==
  ASSUME NEW f \in Files, NEW p \in PlaceType
  PROVE  /\ Behind(p) \in PlaceType /\ Behind(p).test = p.test + 1
         /\ AfterFailure(f, p) \in PlaceType
  <1>1. Behind(p) \in PlaceType /\ Behind(p).test = p.test + 1
    <2>1. Behind(p) = [p EXCEPT !.test = p.test + 1, !.tries = 0]
      BY DEF Behind
    <2>2. p.test \in Nat \ {0}
      BY DEF PlaceType
    <2> DEFINE next == p.test + 1
    <2>3. next \in Nat \ {0}
      BY <2>2
    <2> HIDE DEF next
    <2>4. [p EXCEPT !.test = next, !.tries = 0] \in PlaceType
      BY <2>3 DEF PlaceType
    <2>5. [p EXCEPT !.test = next, !.tries = 0].test = next
      BY DEF PlaceType
    <2>6. QED
      BY <2>1, <2>4, <2>5 DEF next
  <1>2. [p EXCEPT !.tries = @ + 1] \in PlaceType
    BY DEF PlaceType
  <1>3. [Behind(p) EXCEPT !.gaveUp = TRUE] \in PlaceType
    BY <1>1 DEF PlaceType
  <1>4. QED
    BY <1>1, <1>2, <1>3 DEF AfterFailure

(* The fields of a file's session and place.                               *)
LEMMA Fields ==
  ASSUME Shapes, NEW f \in Files
  PROVE  /\ session[f] \in SessionType /\ session[f].no \in Nat
         /\ session[f].cases \in SUBSET CaseType
         /\ session[f].open \in BOOLEAN /\ session[f].stopped \in BOOLEAN
         /\ place[f] \in PlaceType /\ place[f].test \in Nat \ {0}
  BY DEF Shapes, SessionType, PlaceType

(* A test of a file that is not through has a key.                         *)
LEMMA CurrentKey ==
  ASSUME Shapes, NEW f \in Files, place[f].test <= Count[f]
  PROVE  /\ Key(f, place[f].test) \in TestKeys
         /\ Key(f, place[f].test).file = f /\ Key(f, place[f].test).name = place[f].test
  <1>1. place[f].test \in 1..Count[f]
    BY Fields, EvidenceAssumption
  <1>2. QED
    BY <1>1, KeyFacts

(* What an attempt leaves in the session and in the log.                   *)
LEMMA AttemptFacts ==
  ASSUME NEW o \in Outcomes, NEW k
  PROVE  /\ CaseKind(o) \in CaseKinds
         /\ CaseKind(o) \in FailKinds <=> o \in {"failed", "teardown"}
         /\ Lines(k, o) \in Seq([key : {k}, kind : {"failed", "passed"}])
  <1>1. CASE o = "passed"
    BY <1>1 DEF CaseKind, CaseKinds, FailKinds, Lines
  <1>2. CASE o = "failed"
    BY <1>2 DEF CaseKind, CaseKinds, FailKinds, Lines
  <1>3. CASE o = "teardown"
    BY <1>3 DEF CaseKind, CaseKinds, FailKinds, Lines
  <1>4. CASE o = "skipped"
    BY <1>4 DEF CaseKind, CaseKinds, FailKinds, Lines
  <1>5. QED
    BY <1>1, <1>2, <1>3, <1>4 DEF Outcomes

(* The suite that a session leaves, with more failures in its headers.     *)
LEMMA SuiteLeft ==
  ASSUME Shapes, SessionInv, NEW f \in Files, NEW more \in Nat
  PROVE  /\ Suite(f, more) \in SuiteType
         /\ Suite(f, more).id[1] = f /\ Suite(f, more).ts = session[f].no
         /\ Suite(f, more).cases = session[f].cases
         /\ OneSession(f, Suite(f, more).cases)
         /\ Cardinality(FailedCases(Suite(f, more))) \in Nat
         /\ Suite(f, more).declared = Cardinality(FailedCases(Suite(f, more))) + more
  <1> DEFINE n == Suite(f, more)
  <1>1. /\ n.id = <<f, session[f].no>> /\ n.ts = session[f].no /\ n.cases = session[f].cases
        /\ n.declared = Cardinality(FailedCases(session[f])) + more
        /\ n.key = Key(NoFile, f) /\ n.child = FALSE
        /\ n = [id |-> n.id, ts |-> n.ts, cases |-> n.cases, declared |-> n.declared,
                key |-> n.key, child |-> n.child]
    BY DEF Suite
  <1> HIDE DEF n
  <1>2. FailedCases(n) = FailedCases(session[f])
    BY <1>1 DEF FailedCases
  <1>3. OneSession(f, session[f].cases)
    BY DEF SessionInv
  <1>4. Cardinality(FailedCases(session[f])) \in Nat
    <2>1. IsFiniteSet(session[f].cases) /\ FailedCases(session[f]) \in SUBSET session[f].cases
      BY <1>3 DEF OneSession, FailedCases
    <2>2. QED
      BY <2>1, FS_Subset, FS_CardinalityType
  <1>5. n.id \in Files \X Nat /\ n.ts \in Nat /\ n.cases \in SUBSET CaseType
    BY <1>1, Fields
  <1>a. n.declared \in Nat
    BY <1>1, <1>4
  <1>b. n.key \in {Key(NoFile, g) : g \in Files} /\ n.child \in {FALSE}
    BY <1>1
  <1>6. n \in SuiteType
    BY <1>1, <1>5, <1>a, <1>b DEF SuiteType
  <1>7. n.id[1] = f
    BY <1>1
  <1>8. QED
    BY <1>1, <1>2, <1>3, <1>4, <1>6, <1>7 DEF n

(* What Settle makes of the last attempts.                                 *)
LEMMA SettleFacts ==
  ASSUME Shapes, NEW f \in Files, NEW kept \in {"kept", "lost"}
  PROVE  /\ Settle(f, kept) \in [TestKeys -> LastType]
         /\ \A k \in TestKeys : Settle(f, kept)[k].result = last[k].result
         /\ \A k \in TestKeys : k \notin {c.key : c \in session[f].cases} =>
                Settle(f, kept)[k] = last[k]
         /\ \A k \in TestKeys : k \in {c.key : c \in session[f].cases} =>
                Settle(f, kept)[k].kept = kept
  <1> DEFINE keys == {c.key : c \in session[f].cases}
  <1>1. \A k \in TestKeys :
            Settle(f, kept)[k] = IF k \in keys THEN [last[k] EXCEPT !.kept = kept] ELSE last[k]
    BY DEF Settle
  <1>2. \A k \in TestKeys : /\ last[k] \in LastType
                            /\ [last[k] EXCEPT !.kept = kept] \in LastType
                            /\ [last[k] EXCEPT !.kept = kept].result = last[k].result
                            /\ [last[k] EXCEPT !.kept = kept].kept = kept
    BY DEF Shapes, LastType
  <1>3. Settle(f, kept) \in [TestKeys -> LastType]
    BY <1>2 DEF Settle
  <1> HIDE DEF keys
  <1>4. QED
    BY <1>1, <1>2, <1>3 DEF keys

(* A list over a smaller set is one over a larger set.                     *)
LEMMA SeqSubset ==
  ASSUME NEW S, NEW T, \A x \in S : x \in T, NEW seq \in Seq(S)
  PROVE  seq \in Seq(T)
  <1>1. Len(seq) \in Nat /\ seq \in [1..Len(seq) -> S]
    OBVIOUS
  <1>2. seq \in [1..Len(seq) -> T]
    BY <1>1
  <1>3. QED
    BY <1>1, <1>2

(* Lines added to the log leave those that are there.                      *)
LEMMA LogGrows ==
  ASSUME NEW log \in Seq(LineType), NEW lines \in Seq(LineType)
  PROVE  /\ log \o lines \in Seq(LineType)
         /\ \A i \in DOMAIN log : i \in DOMAIN (log \o lines) /\ (log \o lines)[i] = log[i]
         /\ \A i \in DOMAIN (log \o lines) :
                \/ i \in DOMAIN log /\ (log \o lines)[i] = log[i]
                \/ \E j \in DOMAIN lines : (log \o lines)[i] = lines[j]
  <1>1. Len(log) \in Nat /\ DOMAIN log = 1..Len(log) /\ Len(lines) \in Nat
        /\ DOMAIN lines = 1..Len(lines)
    OBVIOUS
  <1>2. log \o lines \in Seq(LineType) /\ DOMAIN (log \o lines) = 1..(Len(log) + Len(lines))
    OBVIOUS
  <1>3. \A i \in 1..(Len(log) + Len(lines)) :
            (log \o lines)[i] = IF i <= Len(log) THEN log[i] ELSE lines[i - Len(log)]
    OBVIOUS
  <1>4. ASSUME NEW i \in 1..(Len(log) + Len(lines)), ~(i <= Len(log))
        PROVE  i - Len(log) \in DOMAIN lines
    BY <1>1, <1>4
  <1>5. QED
    BY <1>1, <1>2, <1>3, <1>4

(***************************************************************************)
(* What every kind of step keeps.                                          *)
(***************************************************************************)
(* While no suite is added, a test whose last attempt is kept keeps the    *)
(* suite that holds it.                                                    *)
LEMMA SameSuites ==
  ASSUME LastInv, tree'.suites = tree.suites,
         \A k \in TestKeys : last'[k] = last[k] \/ last'[k].kept # "kept"
  PROVE  LastInv'
  <1> SUFFICES ASSUME NEW k \in TestKeys, last'[k].kept = "kept"
               PROVE  \E s \in tree'.suites : \E c \in s.cases : Latest(k, s, c)'
    BY DEF LastInv
  <1>1. last'[k] = last[k] /\ last[k].kept = "kept"
    OBVIOUS
  <1>2. PICK s \in tree.suites : \E c \in s.cases : Latest(k, s, c)
    BY <1>1 DEF LastInv
  <1>3. PICK c \in s.cases : Latest(k, s, c)
    BY <1>2
  <1>4. Latest(k, s, c)'
    BY <1>1, <1>3 DEF Latest
  <1>5. QED
    BY <1>3, <1>4

(* The suite of a session that is over is newer than what other suites     *)
(* hold of its tests.                                                      *)
LEMMA NewSuite ==
  ASSUME IInv, NEW f \in Files, session[f].open, NEW more \in Nat,
         tree'.suites = tree.suites \union {Suite(f, more)},
         \A k \in TestKeys :
            \/ last'[k] = last[k] /\ k \notin {c.key : c \in session[f].cases}
            \/ last'[k].result = last[k].result /\ k \in {c.key : c \in session[f].cases}
            \/ last'[k].kept # "kept"
  PROVE  LastInv'
  <1>0. PICK n : n = Suite(f, more)
    OBVIOUS
  <1>1. n.cases = session[f].cases /\ n.ts = session[f].no /\ n \in tree'.suites
    BY <1>0, SuiteLeft DEF IInv
  <1>2. \A c \in n.cases : c.key.file = f /\ c.key \in TestKeys
    BY <1>1, Fields DEF IInv, SessionInv, OneSession, CaseType
  <1>3. \A c, d \in n.cases : c.key = d.key => c = d
    BY <1>1 DEF IInv, SessionInv, OneSession
  <1>4. \A t \in tree.suites : \A d \in t.cases : d.key.file = f => t.ts < n.ts
    BY <1>1 DEF IInv, SuiteInv, OneSession
  <1>5. tree'.suites = tree.suites \union {n}
    BY <1>0
  <1> SUFFICES ASSUME NEW k \in TestKeys, last'[k].kept = "kept"
               PROVE  \E s \in tree'.suites : \E c \in s.cases : Latest(k, s, c)'
    BY DEF LastInv
  <1>6. CASE k \in {c.key : c \in session[f].cases}
    <2>1. PICK c \in n.cases : c.key = k
      BY <1>1, <1>6
    <2>2. last'[k].result = last[k].result
      BY <1>6
    <2>3. c.kind \in FailKinds <=> last'[k].result = "failed"
      BY <1>1, <2>1, <2>2 DEF IInv, SessionInv
    <2>4. ASSUME NEW t \in tree'.suites, NEW d \in t.cases, d.key = k
          PROVE  t.ts < n.ts \/ (t = n /\ d = c)
      <3>1. CASE t = n
        BY <1>3, <2>1, <2>4, <3>1
      <3>2. CASE t \in tree.suites
        BY <1>2, <1>4, <2>1, <2>4, <3>2
      <3>3. QED
        BY <1>5, <3>1, <3>2
    <2>5. Latest(k, n, c)'
      BY <2>1, <2>3, <2>4 DEF Latest
    <2>6. QED
      BY <1>1, <2>1, <2>5
  <1>7. CASE k \notin {c.key : c \in session[f].cases}
    <2>1. last'[k] = last[k] /\ last[k].kept = "kept"
      BY <1>7
    <2>2. PICK s \in tree.suites : \E c \in s.cases : Latest(k, s, c)
      BY <2>1 DEF IInv, LastInv
    <2>3. PICK c \in s.cases : Latest(k, s, c)
      BY <2>2
    <2>4. \A d \in n.cases : d.key # k
      BY <1>1, <1>7
    <2>5. \A t \in tree'.suites : \A d \in t.cases :
              d.key = k => t.ts < s.ts \/ (t = s /\ d = c)
      BY <1>5, <2>3, <2>4 DEF Latest
    <2>6. Latest(k, s, c)'
      BY <2>1, <2>3, <2>5 DEF Latest
    <2>7. s \in tree'.suites
      BY <1>5
    <2>8. QED
      BY <2>3, <2>6, <2>7
  <1>8. QED
    BY <1>6, <1>7

(* Suites stay older than their file's session while none is added.        *)
LEMMA SuitesStay ==
  ASSUME Shapes, Shapes', SuiteInv, tree'.suites = tree.suites, half' = half,
         \A g \in Files :
            \/ session'[g].no = session[g].no /\ (session'[g].open => session[g].open)
            \/ session'[g].no = session[g].no + 1
  PROVE  SuiteInv'
  <1>1. \A g \in Files : session[g].no \in Nat /\ session'[g].no \in Nat
    BY Fields DEF Shapes, SessionType
  <1>2. \A s \in tree.suites : s.id[1] \in Files /\ s.ts \in Nat
    BY DEF Shapes, TreeType, SuiteType
  <1>3. ASSUME NEW s \in tree.suites
        PROVE  /\ s.ts <= session'[s.id[1]].no
               /\ session'[s.id[1]].open => s.ts < session'[s.id[1]].no
    <2>1. /\ s.ts <= session[s.id[1]].no
          /\ session[s.id[1]].open => s.ts < session[s.id[1]].no
      BY DEF SuiteInv
    <2>2. QED
      BY <1>1, <1>2, <2>1
  <1>4. QED
    BY <1>3 DEF SuiteInv

(* A session ends, and its suite is added.                                 *)
LEMMA SuiteAdded ==
  ASSUME IInv, NEW f \in Files, session[f].open, NEW more \in Nat,
         tree'.suites = tree.suites \union {Suite(f, more)},
         session' = [session EXCEPT ![f].open = FALSE],
         half' = half \/ more > 0
  PROVE  SuiteInv'
  <1>0. PICK n : n = Suite(f, more)
    OBVIOUS
  <1>1. /\ n.id[1] = f /\ n.ts = session[f].no /\ OneSession(f, n.cases)
        /\ Cardinality(FailedCases(n)) \in Nat
        /\ n.declared = Cardinality(FailedCases(n)) + more
    BY <1>0, SuiteLeft DEF IInv
  <1>2. session'[f].no = session[f].no /\ session'[f].open = FALSE
    BY DEF IInv, Shapes, SessionType
  <1>3. \A g \in Files \ {f} : session'[g] = session[g]
    BY DEF IInv, Shapes
  <1>4. IsFiniteSet(tree'.suites)
    BY FS_AddElement DEF IInv, SuiteInv
  <1>5. ASSUME NEW s \in tree'.suites
        PROVE  /\ OneSession(s.id[1], s.cases)
               /\ s.ts <= session'[s.id[1]].no
               /\ session'[s.id[1]].open => s.ts < session'[s.id[1]].no
               /\ s.declared >= Cardinality(FailedCases(s))
    <2>1. CASE s = n
      <3>1. session[f].no \in Nat
        BY Fields DEF IInv
      <3>2. QED
        BY <1>1, <1>2, <2>1, <3>1
    <2>2. CASE s \in tree.suites
      <3>1. /\ OneSession(s.id[1], s.cases) /\ s.declared >= Cardinality(FailedCases(s))
            /\ s.ts <= session[s.id[1]].no
            /\ session[s.id[1]].open => s.ts < session[s.id[1]].no
        BY <2>2 DEF IInv, SuiteInv
      <3>2. s.id[1] \in Files
        BY <2>2 DEF IInv, Shapes, TreeType, SuiteType
      <3>3. CASE s.id[1] = f
        BY <1>2, <3>1, <3>3
      <3>4. CASE s.id[1] # f
        BY <1>3, <3>1, <3>2, <3>4
      <3>5. QED
        BY <3>3, <3>4
    <2>3. QED
      BY <1>0, <2>1, <2>2
  <1>6. half' # {} => \E s \in tree'.suites : s.declared > Cardinality(FailedCases(s))
    <2>1. CASE half' = half
      BY <2>1 DEF IInv, SuiteInv
    <2>2. CASE more > 0
      <3>1. n.declared > Cardinality(FailedCases(n)) /\ n \in tree'.suites
        BY <1>0, <1>1, <2>2
      <3>2. QED
        BY <3>1
    <2>3. QED
      BY <2>1, <2>2
  <1>7. QED
    BY <1>4, <1>5, <1>6 DEF SuiteInv

(* Lines about a test of the file are added to the log.                    *)
LEMMA LogInvGrows ==
  ASSUME Shapes, LogInv, NEW f \in Files, NEW k \in TestKeys, k.file = f, red' = red,
         NEW lines \in Seq([key : {k}, kind : {"failed", "passed"}]),
         tree'.log = IF f \in Verbose THEN tree.log \o lines ELSE tree.log
  PROVE  LogInv' /\ tree'.log \in Seq(LineType)
  <1>0. tree.log \in Seq(LineType)
    BY DEF Shapes, TreeType
  <1>1. CASE f \notin Verbose
    BY <1>0, <1>1 DEF LogInv
  <1>2. CASE f \in Verbose
    <2> DEFINE lineType == [key : {k}, kind : {"failed", "passed"}]
    <2>0. lines \in Seq(lineType)
      OBVIOUS
    <2>a. \A x \in lineType : x.key = k /\ x.kind \in {"failed", "passed"} /\ x \in LineType
      BY DEF LineType
    <2> HIDE DEF lineType
    <2>1. \A j \in DOMAIN lines : lines[j] \in lineType
      BY <2>0
    <2>2. \A j \in DOMAIN lines : lines[j].key = k /\ lines[j].kind \in {"failed", "passed"}
      BY <2>1, <2>a
    <2>3. lines \in Seq(LineType)
      BY <2>0, <2>a, SeqSubset
    <2>4. tree'.log = tree.log \o lines
      BY <1>2
    <2>5. /\ tree'.log \in Seq(LineType)
          /\ \A i \in DOMAIN tree.log : i \in DOMAIN tree'.log /\ tree'.log[i] = tree.log[i]
          /\ \A i \in DOMAIN tree'.log :
                \/ i \in DOMAIN tree.log /\ tree'.log[i] = tree.log[i]
                \/ \E j \in DOMAIN lines : tree'.log[i] = lines[j]
      BY <1>0, <2>3, <2>4, LogGrows
    <2>6. ASSUME NEW i \in DOMAIN tree'.log
          PROVE  /\ tree'.log[i].kind # "marker" => tree'.log[i].key \in TestKeys
                 /\ tree'.log[i].kind = "passed" => tree'.log[i].key.file \in Verbose
      <3>1. CASE i \in DOMAIN tree.log /\ tree'.log[i] = tree.log[i]
        BY <3>1 DEF LogInv
      <3>2. CASE \E j \in DOMAIN lines : tree'.log[i] = lines[j]
        BY <1>2, <2>2, <3>2
      <3>3. QED
        BY <2>5, <3>1, <3>2
    <2>7. \A g \in red' : \E i \in DOMAIN tree'.log :
              tree'.log[i] = [key |-> Key(g, WholeFile), kind |-> "marker"]
      BY <2>5 DEF LogInv
    <2>8. QED
      BY <2>5, <2>6, <2>7 DEF LogInv
  <1>3. QED
    BY <1>1, <1>2

(***************************************************************************)
(* The steps.                                                              *)
(***************************************************************************)
(* Nothing has been run at the start.                                      *)
LEMMA Initial == Init => IInv
  <1> SUFFICES ASSUME Init PROVE IInv
    OBVIOUS
  <1>1. tree.suites = {} /\ tree.broken = {} /\ tree.log = <<>> /\ tree.logs = 1
        /\ tree = [suites |-> tree.suites, broken |-> tree.broken, log |-> tree.log,
                   logs |-> tree.logs]
    BY DEF Init
  <1>2. \A f \in Files : /\ session[f] = NoSession /\ session[f].cases = {}
                         /\ session[f].open = FALSE
    BY DEF Init, NoSession
  <1>3. Shapes
    <2>1. tree \in TreeType
      <3>1. tree.suites \in SUBSET SuiteType /\ tree.broken \in SUBSET (Files \X Nat)
            /\ tree.log \in Seq(LineType) /\ tree.logs \in {1}
        BY <1>1
      <3>2. QED
        BY <1>1, <3>1 DEF TreeType
    <2>2. session \in [Files -> SessionType]
      BY DEF Init, NoSession, SessionType
    <2>3. place \in [Files -> PlaceType]
      BY DEF Init, PlaceType
    <2>4. last \in [TestKeys -> LastType]
      BY DEF Init, LastType
    <2>5. QED
      BY <2>1, <2>2, <2>3, <2>4 DEF Init, Shapes
  <1>4. SessionInv
    BY <1>2, FS_EmptySet DEF SessionInv, OneSession
  <1>5. SuiteInv
    BY <1>1, FS_EmptySet DEF SuiteInv, Init
  <1>6. LogInv
    BY <1>1 DEF LogInv, Init
  <1>7. LastInv
    BY DEF LastInv, Init
  <1>8. QED
    BY <1>3, <1>4, <1>5, <1>6, <1>7 DEF IInv

(* A session starts with no case.                                          *)
LEMMA StartSessionInv ==
  ASSUME IInv, NEW f \in Files, StartSession(f) PROVE IInv'
  <1> DEFINE x == [NoSession EXCEPT !.no = session[f].no + 1, !.open = TRUE]
  <1>1. session' = [session EXCEPT ![f] = x]
    BY DEF StartSession
  <1>2. x \in SessionType /\ x.no = session[f].no + 1 /\ x.cases = {} /\ x.open
    <2>1. NoSession \in SessionType /\ NoSession.cases = {}
      BY DEF NoSession, SessionType
    <2>2. session[f].no + 1 \in Nat
      BY Fields DEF IInv
    <2>3. QED
      BY <2>1, <2>2 DEF SessionType
  <1> HIDE DEF x
  <1>3. UNCHANGED <<tree, place, last, red, half>>
    BY DEF StartSession
  <1>4. \A g \in Files : session'[g] = IF g = f THEN x ELSE session[g]
    BY <1>1 DEF IInv, Shapes
  <1>5. Shapes'
    <2>1. session' \in [Files -> SessionType]
      BY <1>1, <1>2 DEF IInv, Shapes
    <2>2. QED
      BY <1>3, <2>1 DEF IInv, Shapes
  <1>6. SessionInv'
    BY <1>2, <1>3, <1>4, FS_EmptySet DEF IInv, SessionInv, OneSession
  <1>7. SuiteInv'
    BY <1>2, <1>3, <1>4, <1>5, SuitesStay DEF IInv
  <1>8. LogInv'
    BY <1>3 DEF IInv, LogInv
  <1>9. LastInv'
    BY <1>3, SameSuites DEF IInv
  <1>10. QED
    BY <1>5, <1>6, <1>7, <1>8, <1>9 DEF IInv

(* An attempt is a case of the running session, of a test that the session *)
(* has none of.                                                            *)
LEMMA AttemptInv ==
  ASSUME IInv, NEW f \in Files, NEW o \in Outcomes, Attempt(f, o) PROVE IInv'
  <1> DEFINE bad == o \in {"failed", "teardown"}
             old == session[f].cases
  <1>0. PICK k : k = Key(f, place[f].test)
    OBVIOUS
  <1>1. k \in TestKeys /\ k.file = f /\ k.name = place[f].test
    BY <1>0, CurrentKey DEF IInv, Attempt
  <1>2. PICK n : n = [no |-> Cardinality(old), key |-> k, kind |-> CaseKind(o)]
    OBVIOUS
  <1>3. n \in CaseType /\ n.key = k /\ (n.kind \in FailKinds <=> bad)
    <2>1. Cardinality(old) \in Nat
      BY FS_CardinalityType DEF IInv, SessionInv, OneSession
    <2>2. QED
      BY <1>1, <1>2, <2>1, AttemptFacts DEF CaseType
  <1>4. session' = [session EXCEPT ![f] = [session[f] EXCEPT !.cases = old \union {n},
                                                            !.stopped = bad]]
    <2>1. session' = [session EXCEPT
                          ![f].cases = @ \union {[no   |-> Cardinality(@),
                                                  key  |-> Key(f, place[f].test),
                                                  kind |-> CaseKind(o)]},
                          ![f].stopped = bad]
      BY DEF Attempt
    <2>2. QED
      BY <1>0, <1>2, <2>1 DEF IInv, Shapes
  <1>5. PICK x : x = [session[f] EXCEPT !.cases = old \union {n}, !.stopped = bad]
    OBVIOUS
  <1>6. /\ x \in SessionType /\ x.no = session[f].no /\ x.open = session[f].open
        /\ x.cases = old \union {n} /\ x.stopped = bad
    <2>1. old \union {n} \in SUBSET CaseType
      BY <1>3, Fields DEF IInv
    <2>2. bad \in BOOLEAN
      OBVIOUS
    <2>3. session[f] \in SessionType
      BY Fields DEF IInv
    <2> HIDE DEF bad, old
    <2>4. QED
      BY <1>5, <2>1, <2>2, <2>3 DEF SessionType
  <1>7. session[f].open /\ ~session[f].stopped
    BY DEF Attempt
  <1>8. \A g \in Files : session'[g] = IF g = f THEN x ELSE session[g]
    BY <1>4, <1>5 DEF IInv, Shapes
  <1>9. PICK p \in PlaceType : /\ place' = [place EXCEPT ![f] = p]
                               /\ ~bad => p.test = place[f].test + 1
    <2>1. place' = [place EXCEPT ![f] = IF bad THEN AfterFailure(f, place[f])
                                        ELSE Behind(place[f])]
      BY DEF Attempt, IInv, Shapes
    <2>2. QED
      BY <2>1, Fields, PlaceMoves DEF IInv
  <1>10. \A g \in Files : place'[g] = IF g = f THEN p ELSE place[g]
    BY <1>9 DEF IInv, Shapes
  <1>11. PICK l \in LastType : /\ last' = [last EXCEPT ![k] = l] /\ l.kept # "kept"
                               /\ l.result = "failed" <=> bad
    <2> DEFINE l0 == [result |-> IF bad THEN "failed" ELSE "good", kept |-> "open"]
    <2>1. l0 \in LastType /\ l0.kept # "kept" /\ (l0.result = "failed" <=> bad)
      BY DEF LastType
    <2>2. last' = [last EXCEPT ![k] = l0]
      BY <1>0 DEF Attempt
    <2>3. QED
      BY <2>1, <2>2
  <1>12. \A j \in TestKeys : last'[j] = IF j = k THEN l ELSE last[j]
    BY <1>11 DEF IInv, Shapes
  <1>13. /\ tree'.suites = tree.suites /\ tree'.broken = tree.broken /\ tree'.logs = tree.logs
         /\ tree'.log = IF f \in Verbose THEN tree.log \o Lines(k, o) ELSE tree.log
         /\ tree' = [suites |-> tree'.suites, broken |-> tree'.broken, log |-> tree'.log,
                     logs |-> tree'.logs]
    BY <1>0 DEF Attempt, IInv, Shapes, TreeType
  <1>14. UNCHANGED <<red, half>>
    BY DEF Attempt
  <1>15. LogInv' /\ tree'.log \in Seq(LineType)
    BY <1>1, <1>13, <1>14, AttemptFacts, LogInvGrows DEF IInv
  <1>16. Shapes'
    <2>1. tree' \in TreeType
      BY <1>13, <1>15 DEF IInv, Shapes, TreeType
    <2>2. session' \in [Files -> SessionType]
      BY <1>4, <1>5, <1>6 DEF IInv, Shapes
    <2>3. place' \in [Files -> PlaceType]
      BY <1>9 DEF IInv, Shapes
    <2>4. last' \in [TestKeys -> LastType]
      BY <1>11 DEF IInv, Shapes
    <2>5. QED
      BY <1>14, <2>1, <2>2, <2>3, <2>4 DEF IInv, Shapes
  <1>17. \A c \in old : c.key \in TestKeys /\ c.key.file = f /\ c.key # k
    <2>1. \A c \in old : c.key.name < place[f].test /\ c.key.file = f
      BY <1>7 DEF IInv, SessionInv, OneSession
    <2>2. \A c \in old : c.key \in TestKeys
      BY Fields DEF IInv, CaseType
    <2>3. place[f].test \in Nat /\ \A c \in old : c.key.name \in Nat
      BY <2>2, Fields, KeyFacts DEF IInv
    <2>4. QED
      BY <1>1, <2>1, <2>2, <2>3
  <1> HIDE DEF bad, old
  <1>18. SessionInv'
    <2>1. ASSUME NEW g \in Files, g # f
          PROVE  /\ session'[g] = session[g] /\ place'[g] = place[g]
                 /\ \A c \in session[g].cases : last'[c.key] = last[c.key]
      <3>1. session'[g] = session[g] /\ place'[g] = place[g]
        BY <1>8, <1>10, <2>1
      <3>2. \A c \in session[g].cases : c.key \in TestKeys /\ c.key.file = g
        BY Fields DEF IInv, SessionInv, OneSession, CaseType
      <3>3. QED
        BY <1>1, <1>12, <2>1, <3>1, <3>2
    <2>2. ASSUME NEW g \in Files, g # f
          PROVE  /\ OneSession(g, session'[g].cases)
                 /\ session'[g].open /\ ~session'[g].stopped =>
                        \A c \in session'[g].cases : c.key.name < place'[g].test
                 /\ session'[g].open =>
                        \A c \in session'[g].cases :
                            c.kind \in FailKinds <=> last'[c.key].result = "failed"
      BY <2>1, <2>2 DEF IInv, SessionInv
    <2>3. OneSession(f, x.cases)
      <3>1. IsFiniteSet(x.cases)
        <4>1. IsFiniteSet(old)
          BY DEF IInv, SessionInv, OneSession, old
        <4>2. QED
          BY <1>6, <4>1, FS_AddElement
      <3>2. \A c \in x.cases : c.key.file = f
        BY <1>1, <1>3, <1>6, <1>17
      <3>3. \A c, d \in old : c.key = d.key => c = d
        BY DEF IInv, SessionInv, OneSession, old
      <3>4. \A c, d \in x.cases : c.key = d.key => c = d
        BY <1>3, <1>6, <1>17, <3>3
      <3>5. QED
        BY <3>1, <3>2, <3>4 DEF OneSession
    <2>4. ~x.stopped => \A c \in x.cases : c.key.name < p.test
      <3>1. SUFFICES ASSUME ~bad, NEW c \in x.cases PROVE c.key.name < p.test
        BY <1>6
      <3>2. p.test = place[f].test + 1 /\ place[f].test \in Nat
        BY <1>9, <3>1, Fields DEF IInv
      <3>3. CASE c = n
        BY <1>1, <1>3, <3>2, <3>3
      <3>4. CASE c \in old
        <4>1. c.key.name < place[f].test
          BY <1>7, <3>4 DEF IInv, SessionInv, old
        <4>2. c.key.name \in Nat
          BY <1>17, <3>4, KeyFacts
        <4>3. QED
          BY <3>2, <4>1, <4>2
      <3>5. QED
        BY <1>6, <3>3, <3>4
    <2>5. \A c \in x.cases : c.kind \in FailKinds <=> last'[c.key].result = "failed"
      <3>1. \A c \in old : c.kind \in FailKinds <=> last[c.key].result = "failed"
        BY <1>7 DEF IInv, SessionInv, old
      <3>2. \A c \in old : last'[c.key] = last[c.key]
        BY <1>12, <1>17
      <3>3. last'[n.key] = l
        BY <1>1, <1>3, <1>12
      <3>4. QED
        BY <1>3, <1>6, <1>11, <3>1, <3>2, <3>3
    <2>6. session'[f] = x /\ place'[f] = p
      BY <1>8, <1>10
    <2>7. QED
      BY <2>2, <2>3, <2>4, <2>5, <2>6 DEF SessionInv
  <1>19. SuiteInv'
    BY <1>6, <1>8, <1>13, <1>14, <1>16, SuitesStay DEF IInv
  <1>20. LastInv'
    BY <1>11, <1>12, <1>13, SameSuites DEF IInv
  <1>21. QED
    BY <1>15, <1>16, <1>18, <1>19, <1>20 DEF IInv

(* A session that is over leaves its cases, and the other files alone.     *)
LEMMA SessionOver ==
  ASSUME IInv, NEW f \in Files, session' = [session EXCEPT ![f].open = FALSE],
         \A g \in Files \ {f} : place'[g] = place[g],
         \A k \in TestKeys : k.file # f => last'[k] = last[k]
  PROVE  /\ session' \in [Files -> SessionType]
         /\ \A g \in Files : session'[g].no = session[g].no
         /\ \A g \in Files : session'[g].open => session[g].open
         /\ SessionInv'
  <1> DEFINE x == [session[f] EXCEPT !.open = FALSE]
  <1>1. /\ x \in SessionType /\ x.no = session[f].no /\ ~x.open
        /\ x.cases = session[f].cases
    BY Fields DEF IInv, SessionType
  <1>2. session' = [session EXCEPT ![f] = x]
    OBVIOUS
  <1> HIDE DEF x
  <1>3. \A g \in Files : session'[g] = IF g = f THEN x ELSE session[g]
    BY <1>2 DEF IInv, Shapes
  <1>4. session' \in [Files -> SessionType]
    BY <1>1, <1>2 DEF IInv, Shapes
  <1>5. ASSUME NEW g \in Files
        PROVE  /\ OneSession(g, session'[g].cases)
               /\ session'[g].open /\ ~session'[g].stopped =>
                      \A c \in session'[g].cases : c.key.name < place'[g].test
               /\ session'[g].open =>
                      \A c \in session'[g].cases :
                          c.kind \in FailKinds <=> last'[c.key].result = "failed"
    <2>1. CASE g = f
      BY <1>1, <1>3, <2>1 DEF IInv, SessionInv
    <2>2. CASE g # f
      <3>1. session'[g] = session[g] /\ place'[g] = place[g]
        BY <1>3, <2>2
      <3>2. \A c \in session[g].cases : last'[c.key] = last[c.key]
        BY <2>2, Fields DEF IInv, SessionInv, OneSession, CaseType
      <3>3. QED
        BY <3>1, <3>2 DEF IInv, SessionInv
    <2>3. QED
      BY <2>1, <2>2
  <1>6. QED
    BY <1>1, <1>3, <1>4, <1>5 DEF SessionInv

(* Settle touches the tests of the session's file only.                    *)
LEMMA SettleStays ==
  ASSUME IInv, NEW f \in Files, NEW kept \in {"kept", "lost"},
         NEW k \in TestKeys, k.file # f
  PROVE  Settle(f, kept)[k] = last[k]
  <1>1. k \notin {c.key : c \in session[f].cases}
    BY DEF IInv, SessionInv, OneSession
  <1>2. QED
    BY <1>1, SettleFacts DEF IInv

(* A suite added to the tree leaves the rest of it.                        *)
LEMMA TreeWithSuite ==
  ASSUME IInv, NEW f \in Files, NEW more \in Nat,
         tree' = [tree EXCEPT !.suites = @ \union {Suite(f, more)}]
  PROVE  /\ tree' \in TreeType /\ tree'.suites = tree.suites \union {Suite(f, more)}
         /\ tree'.log = tree.log
  <1>1. Suite(f, more) \in SuiteType
    BY SuiteLeft DEF IInv
  <1>2. tree \in TreeType /\ tree.suites \union {Suite(f, more)} \in SUBSET SuiteType
    BY <1>1 DEF IInv, Shapes, TreeType
  <1> DEFINE more1 == tree.suites \union {Suite(f, more)}
  <1>3. tree' = [tree EXCEPT !.suites = more1]
    OBVIOUS
  <1> HIDE DEF more1
  <1>4. more1 \in SUBSET SuiteType
    BY <1>2 DEF more1
  <1>5. tree' \in TreeType /\ tree'.suites = more1 /\ tree'.log = tree.log
    BY <1>2, <1>3, <1>4 DEF TreeType
  <1>6. QED
    BY <1>5 DEF more1

(* A session that ends in order leaves its suite.                          *)
LEMMA CloseSessionInv ==
  ASSUME IInv, NEW f \in Files, CloseSession(f) PROVE IInv'
  <1>1. /\ tree' = [tree EXCEPT !.suites = @ \union {Suite(f, 0)}]
        /\ session' = [session EXCEPT ![f].open = FALSE]
        /\ last' = Settle(f, "kept") /\ UNCHANGED <<place, red, half>>
        /\ session[f].open
    BY DEF CloseSession
  <1>2. /\ tree' \in TreeType /\ tree'.suites = tree.suites \union {Suite(f, 0)}
        /\ tree'.log = tree.log
    BY <1>1, TreeWithSuite
  <1>3. \A k \in TestKeys : k.file # f => last'[k] = last[k]
    BY <1>1, SettleStays
  <1>4. session' \in [Files -> SessionType] /\ SessionInv'
    BY <1>1, <1>3, SessionOver
  <1>5. Shapes'
    <2>1. last' \in [TestKeys -> LastType]
      BY <1>1, SettleFacts DEF IInv
    <2>2. QED
      BY <1>1, <1>2, <1>4, <2>1 DEF IInv, Shapes
  <1>6. SuiteInv'
    BY <1>1, <1>2, SuiteAdded
  <1>7. LogInv'
    BY <1>1, <1>2 DEF IInv, LogInv
  <1>8. LastInv'
    <2>1. \A k \in TestKeys : /\ last'[k].result = last[k].result
                              /\ k \notin {c.key : c \in session[f].cases} => last'[k] = last[k]
      BY <1>1, SettleFacts DEF IInv
    <2>2. QED
      BY <1>1, <1>2, <2>1, NewSuite
  <1>9. QED
    BY <1>4, <1>5, <1>6, <1>7, <1>8 DEF IInv

(* A process that dies loses its attempts, or keeps those before the one   *)
(* it died in in a suite that counts one more.                             *)
LEMMA DieInv ==
  ASSUME IInv, NEW f \in Files, NEW leaves \in {"nothing", "broken", "half"}, Die(f, leaves)
  PROVE  IInv'
  <1>0. PICK k : k = Key(f, place[f].test)
    OBVIOUS
  <1>1. k \in TestKeys /\ k.file = f
    BY <1>0, CurrentKey DEF IInv, Die
  <1>2. PICK kept \in {"kept", "lost"} : /\ kept = IF leaves = "half" THEN "kept" ELSE "lost"
                                         /\ leaves # "half" => kept = "lost"
    OBVIOUS
  <1>3. /\ session' = [session EXCEPT ![f].open = FALSE] /\ UNCHANGED red
        /\ session[f].open
        /\ last' = [Settle(f, kept) EXCEPT ![k] = [result |-> "failed", kept |-> "lost"]]
        /\ half' = IF leaves = "half" THEN half \union {<<f, session[f].no>>} ELSE half
    BY <1>0, <1>2 DEF Die
  <1>4. PICK l \in LastType : /\ l.kept = "lost"
                              /\ last' = [Settle(f, kept) EXCEPT ![k] = l]
    BY <1>3 DEF LastType
  <1>5. Settle(f, kept) \in [TestKeys -> LastType]
    BY SettleFacts DEF IInv
  <1>6. last' \in [TestKeys -> LastType]
        /\ \A j \in TestKeys : last'[j] = IF j = k THEN l ELSE Settle(f, kept)[j]
    BY <1>4, <1>5
  <1>7. \A j \in TestKeys : j.file # f => last'[j] = last[j]
    BY <1>1, <1>6, SettleStays
  <1>8. /\ place' \in [Files -> PlaceType] /\ \A g \in Files \ {f} : place'[g] = place[g]
    <2>1. place' = [place EXCEPT ![f] = AfterFailure(f, place[f])]
      BY DEF Die
    <2>2. AfterFailure(f, place[f]) \in PlaceType
      BY Fields, PlaceMoves DEF IInv
    <2>3. QED
      BY <2>1, <2>2 DEF IInv, Shapes
  <1>9. /\ session' \in [Files -> SessionType] /\ SessionInv'
        /\ \A g \in Files : session'[g].no = session[g].no /\ (session'[g].open => session[g].open)
    BY <1>3, <1>7, <1>8, SessionOver
  <1>10. <<f, session[f].no>> \in Files \X Nat
    BY Fields DEF IInv
  <1>11. half' \subseteq Files \X Nat
    BY <1>3, <1>10 DEF IInv, Shapes
  <1>12. CASE leaves = "half"
    <2>1. tree' = [tree EXCEPT !.suites = @ \union {Suite(f, 1)}]
      BY <1>12 DEF Die
    <2>2. /\ tree' \in TreeType /\ tree'.suites = tree.suites \union {Suite(f, 1)}
          /\ tree'.log = tree.log
      BY <2>1, TreeWithSuite
    <2>3. Shapes'
      BY <1>3, <1>6, <1>8, <1>9, <1>11, <2>2 DEF IInv, Shapes
    <2>a. 1 \in Nat /\ 1 > 0
      OBVIOUS
    <2>4. SuiteInv'
      BY <1>3, <2>2, <2>a, SuiteAdded, Zenon
    <2>5. LogInv'
      BY <1>3, <2>2 DEF IInv, LogInv
    <2>6. LastInv'
      <3>1. \A j \in TestKeys :
                \/ last'[j] = last[j] /\ j \notin {c.key : c \in session[f].cases}
                \/ last'[j].result = last[j].result /\ j \in {c.key : c \in session[f].cases}
                \/ last'[j].kept # "kept"
        BY <1>4, <1>6, SettleFacts DEF IInv
      <3>2. QED
        BY <1>3, <2>2, <3>1, NewSuite
    <2>7. QED
      BY <1>9, <2>3, <2>4, <2>5, <2>6 DEF IInv
  <1>13. CASE leaves # "half"
    <2>1. /\ tree' \in TreeType /\ tree'.suites = tree.suites /\ tree'.log = tree.log
      <3>1. CASE leaves = "nothing"
        BY <3>1 DEF Die, IInv, Shapes
      <3>2. CASE leaves = "broken"
        <4> DEFINE more == tree.broken \union {<<f, session[f].no>>}
        <4>1. more \in SUBSET (Files \X Nat)
          BY <1>10 DEF IInv, Shapes, TreeType
        <4>2. tree' = [tree EXCEPT !.broken = more]
          BY <3>2 DEF Die
        <4> HIDE DEF more
        <4>3. QED
          BY <4>1, <4>2 DEF IInv, Shapes, TreeType
      <3>3. QED
        BY <1>13, <3>1, <3>2
    <2>2. Shapes'
      BY <1>3, <1>6, <1>8, <1>9, <1>11, <2>1 DEF IInv, Shapes
    <2>3. SuiteInv'
      BY <1>3, <1>9, <1>13, <2>1, <2>2, SuitesStay DEF IInv
    <2>4. LogInv'
      BY <1>3, <2>1 DEF IInv, LogInv
    <2>5. LastInv'
      <3>1. kept = "lost"
        BY <1>2, <1>13
      <3>2. \A j \in TestKeys : last'[j] = last[j] \/ last'[j].kept # "kept"
        BY <1>4, <1>6, <3>1, SettleFacts DEF IInv
      <3>3. QED
        BY <2>1, <3>2, SameSuites DEF IInv
    <2>6. QED
      BY <1>9, <2>2, <2>3, <2>4, <2>5 DEF IInv
  <1>14. QED
    BY <1>12, <1>13

(* The marker of a file names no test.                                     *)
LEMMA CompleteFileInv ==
  ASSUME IInv, NEW f \in Files, CompleteFile(f) PROVE IInv'
  <1> DEFINE p == [round |-> place[f].round + 1, test |-> 1, tries |-> 0, gaveUp |-> FALSE]
             marker == [key |-> Key(f, WholeFile), kind |-> "marker"]
  <1>1. place' = [place EXCEPT ![f] = p]
    BY DEF CompleteFile, IInv, Shapes
  <1>2. p \in PlaceType
    BY Fields DEF IInv, PlaceType
  <1> HIDE DEF p
  <1>3. UNCHANGED <<session, last, half>> /\ ~session[f].open
    BY DEF CompleteFile
  <1>4. place' \in [Files -> PlaceType] /\ \A g \in Files \ {f} : place'[g] = place[g]
    BY <1>1, <1>2 DEF IInv, Shapes
  <1>5. SessionInv'
    <2>1. \A g \in Files : session[g].open => place'[g] = place[g]
      BY <1>3, <1>4
    <2>2. QED
      BY <1>3, <2>1 DEF IInv, SessionInv
  <1>6. /\ tree' \in TreeType /\ tree'.suites = tree.suites /\ red' \subseteq Files
        /\ LogInv'
    <2>1. CASE UNCHANGED <<tree, red>>
      BY <2>1 DEF IInv, Shapes, LogInv
    <2>2. CASE /\ tree' = [tree EXCEPT !.log = Append(tree.log, marker)]
               /\ red' = red \union {f}
      <3>1. tree.log \in Seq(LineType) /\ marker \in LineType
        BY DEF IInv, Shapes, TreeType, LineType
      <3>2. marker.kind = "marker"
        OBVIOUS
      <3> HIDE DEF marker
      <3> DEFINE log == Append(tree.log, marker)
      <3>3. /\ log \in Seq(LineType) /\ Len(tree.log) \in Nat
            /\ DOMAIN tree.log = 1..Len(tree.log) /\ DOMAIN log = 1..(Len(tree.log) + 1)
            /\ \A i \in 1..Len(tree.log) : log[i] = tree.log[i]
            /\ log[Len(tree.log) + 1] = marker
        BY <3>1
      <3>4. tree' = [tree EXCEPT !.log = log]
        BY <2>2
      <3> HIDE DEF log
      <3>5. tree' \in TreeType /\ tree'.suites = tree.suites /\ tree'.log = log
        BY <3>3, <3>4 DEF IInv, Shapes, TreeType
      <3>6. \A i \in DOMAIN log : \/ i \in DOMAIN tree.log /\ log[i] = tree.log[i]
                                  \/ log[i] = marker
        BY <3>3
      <3>7. \A i \in DOMAIN log :
                /\ log[i].kind # "marker" => log[i].key \in TestKeys
                /\ log[i].kind = "passed" => log[i].key.file \in Verbose
        BY <3>2, <3>6 DEF IInv, LogInv
      <3>8. ASSUME NEW g \in red'
            PROVE  \E i \in DOMAIN log : log[i] = [key |-> Key(g, WholeFile), kind |-> "marker"]
        <4>1. CASE g = f
          <5>1. Len(tree.log) + 1 \in DOMAIN log
            BY <3>3
          <5>2. QED
            BY <3>3, <4>1, <5>1 DEF marker
        <4>2. CASE g \in red
          <5>1. PICK i \in DOMAIN tree.log :
                    tree.log[i] = [key |-> Key(g, WholeFile), kind |-> "marker"]
            BY <4>2 DEF IInv, LogInv
          <5>2. i \in DOMAIN log /\ log[i] = tree.log[i]
            BY <3>3
          <5>3. QED
            BY <5>1, <5>2
        <4>3. QED
          BY <2>2, <4>1, <4>2
      <3>9. QED
        BY <2>2, <3>5, <3>7, <3>8 DEF IInv, Shapes, LogInv
    <2>3. QED
      BY <2>1, <2>2 DEF CompleteFile
  <1>7. Shapes'
    BY <1>3, <1>4, <1>6 DEF IInv, Shapes
  <1>8. SuiteInv'
    BY <1>3, <1>6, <1>7, SuitesStay DEF IInv
  <1>9. LastInv'
    BY <1>3, <1>6, SameSuites DEF IInv
  <1>10. QED
    BY <1>5, <1>6, <1>7, <1>8, <1>9 DEF IInv

(* Every step keeps the invariant.                                         *)
LEMMA Steps == IInv /\ [Next]_vars => IInv'
  <1> SUFFICES ASSUME IInv, [Next]_vars PROVE IInv'
    OBVIOUS
  <1>1. CASE UNCHANGED vars
    BY <1>1 DEF vars, IInv, Shapes, SessionInv, OneSession, SuiteInv, LogInv, LastInv, Latest
  <1>2. CASE Next
    <2>1. PICK f \in Files :
              \/ StartSession(f)
              \/ \E o \in Outcomes : Attempt(f, o)
              \/ CloseSession(f)
              \/ \E l \in {"nothing", "broken", "half"} : Die(f, l)
              \/ CompleteFile(f)
      BY <1>2 DEF Next
    <2>2. QED
      BY <2>1, StartSessionInv, AttemptInv, CloseSessionInv, DieInv, CompleteFileInv
  <1>3. QED
    BY <1>1, <1>2

(***************************************************************************)
(* The theorems.                                                           *)
(***************************************************************************)
(* The tree, the sessions and the last attempts agree in every state.      *)
THEOREM Invariance == Spec => []IInv
  BY Initial, Steps, PTL DEF Spec

(* The tree has the form the scan reads, and no total counts a test twice. *)
THEOREM TypeCorrect == Spec => []TypeOK
  <1>1. IInv => TypeOK
    BY Consequences
  <1>2. QED
    BY <1>1, Invariance, PTL

(* A test whose last attempt was good, and whose report was kept, is not   *)
(* reported, however often it failed in earlier sessions and rounds.       *)
THEOREM NoInvention == Spec => []NothingInvented
  <1>1. IInv => NothingInvented
    BY Consequences
  <1>2. QED
    BY <1>1, Invariance, PTL

(* A recorded failure that nothing made good is reported: an early pass    *)
(* never masks a later failure.                                            *)
THEOREM NoLoss == Spec => []NoFailureLost
  <1>1. IInv => NoFailureLost
    BY Consequences
  <1>2. QED
    BY <1>1, Invariance, PTL

(* A file that failed to the end is named, by its marker or by a test.     *)
THEOREM RedFilesNamed == Spec => []EveryRedFileIsNamed
  <1>1. IInv => EveryRedFileIsNamed
    BY Consequences
  <1>2. QED
    BY <1>1, Invariance, PTL

(* What a crash left behind, be it half a report, one that does not parse  *)
(* or a marker, keeps the summary from saying that everything passed.      *)
THEOREM CrashIsSeen == Spec => []CrashIsNotGreen
  <1>1. IInv => CrashIsNotGreen
    BY Consequences
  <1>2. QED
    BY <1>1, Invariance, PTL

================================================================================
