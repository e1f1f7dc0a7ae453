--------------------------- MODULE WheelSigning_proofs ---------------------------
(***************************************************************************)
(* Theorems about WheelSigning, for wheels of any number of entries, any   *)
(* sets of them and any disturbance on disk.                               *)
(***************************************************************************)
EXTENDS WheelSigning, TLAPS, WellFoundedInduction

(***************************************************************************)
(* Operators.                                                              *)
(***************************************************************************)
(* In a set that is selected there is one wheel of each package.           *)
LEMMA TheWheel ==
  ASSUME Selected, NEW p \in Packages
  PROVE  \E w \in wheels : WheelsOf(p) = {w} /\ ArchiveOf(p) = w.archive
  <1>1. PICK w \in wheels : WheelsOf(p) = {w}
    BY DEF Selected
  <1>2. (CHOOSE v \in wheels : v.package = p) = w
    BY <1>1 DEF WheelsOf
  <1>3. QED
    BY <1>1, <1>2 DEF ArchiveOf

(* A wheel that installs on an interpreter holds no native code for        *)
(* another one.                                                            *)
LEMMA InstalledRuns ==
  ASSUME NEW name, NEW i, i.minor \in Nat, i.threaded \in BOOLEAN,
         \A python \in name.pythons : python.minor \in Nat, Installs(name, i)
  PROVE  RunsOn(name, i.minor, i.threaded)
  <1>1. PICK p \in name.pythons, a \in name.abis, x \in name.platforms :
           Tag(p, a, x) \in SupportedTags(i)
    BY DEF Installs, TagsOf
  <1>2. \/ p = Cp(i.minor) /\ a = Own(i.minor, i.threaded)
        \/ a = Abi(IF i.threaded THEN "abi3t" ELSE "abi3") /\ \E m \in 2..i.minor : p = Cp(m)
        \/ p = Cp(i.minor) /\ a = Abi("none")
        \/ a = Abi("none") /\ (p = Py3 \/ \E m \in 0..i.minor : p = Py(m))
    <2> DEFINE stable == Abi(IF i.threaded THEN "abi3t" ELSE "abi3")
    <2>1. \A q, b, y, r, c, z : Tag(q, b, y) = Tag(r, c, z) => q = r /\ b = c
      BY DEF Tag
    <2>2. \/ Tag(p, a, x) = Tag(Cp(i.minor), Own(i.minor, i.threaded), i.platform)
          \/ \E m \in 2..i.minor : Tag(p, a, x) = Tag(Cp(m), stable, i.platform)
          \/ \E y \in {i.platform, "any"} : Tag(p, a, x) = Tag(Cp(i.minor), Abi("none"), y)
          \/ \E q \in {Py3} \union {Py(m) : m \in 0..i.minor}, y \in {i.platform, "any"} :
                Tag(p, a, x) = Tag(q, Abi("none"), y)
      BY <1>1 DEF SupportedTags
    <2>3. QED
      BY <2>1, <2>2
  <1>3. p.minor <= i.minor
    BY <1>2 DEF Cp, Py, Py3
  <1>4. \/ a.kind = "none" /\ (p.lang = "cp" => p.minor = i.minor)
        \/ a = Own(i.minor, i.threaded) /\ p = Cp(i.minor)
        \/ a = Abi(IF i.threaded THEN "abi3t" ELSE "abi3") /\ p.lang = "cp"
    BY <1>2 DEF Cp, Py, Py3, Abi
  <1>5. QED
    BY <1>3, <1>4 DEF RunsOn

(* A set that is selected runs on one interpreter.                         *)
LEMMA SelectedRuns ==
  ASSUME wheels \in WheelSets, Selected
  PROVE  \E t \in WheelsOf("torch") : \E a \in t.tags.abis :
            /\ t.tags.abis = {a} /\ a.kind \in {"own", "own-t"}
            /\ \A w \in wheels : RunsOn(w.tags, a.minor, a.kind = "own-t")
  <1>1. PICK t \in wheels : WheelsOf("torch") = {t}
    BY DEF Selected, Packages, Order
  <1>2. PICK i \in InterpretersOf(t.tags) : \A w \in wheels : Installs(w.tags, i)
    BY <1>1 DEF Selected
  <1>3. PICK g \in TagsOf(t.tags) :
           /\ TagsOf(t.tags) = {g} /\ g.abi.kind \in {"own", "own-t"}
           /\ g.abi.minor = g.python.minor
           /\ i = [minor |-> g.python.minor, threaded |-> g.abi.kind = "own-t",
                   platform |-> g.platform]
    BY <1>2 DEF InterpretersOf
  <1>4. PICK p \in t.tags.pythons, a \in t.tags.abis, x \in t.tags.platforms : g = Tag(p, a, x)
    BY <1>3 DEF TagsOf
  <1>5. g.python = p /\ g.abi = a
    BY <1>4 DEF Tag
  <1>6. t.tags.abis = {a}
    <2>1. ASSUME NEW b \in t.tags.abis PROVE b = a
      <3>1. Tag(p, b, x) = g
        BY <1>3 DEF TagsOf
      <3>2. QED
        BY <1>4, <3>1 DEF Tag
    <2>2. QED
      BY <2>1
  <1>7. \A w \in wheels : \A python \in w.tags.pythons : python.minor \in Nat
    BY SigningAssumption
  <1>8. i.minor = a.minor /\ i.minor \in Nat /\ i.threaded = (a.kind = "own-t")
    BY <1>3, <1>4, <1>5, <1>7
  <1>9. \A w \in wheels : RunsOn(w.tags, a.minor, a.kind = "own-t")
    <2>1. i.threaded \in BOOLEAN
      BY <1>8
    <2>2. \A w \in wheels : RunsOn(w.tags, i.minor, i.threaded)
      BY <1>2, <1>7, <1>8, <2>1, InstalledRuns
    <2>3. QED
      BY <1>8, <2>2
  <1>10. QED
    BY <1>1, <1>3, <1>5, <1>6, <1>9

(* What is put together from an archive and a tree is that archive with    *)
(* the contents of the tree.                                               *)
LEMMA RewrittenIsTheArchive ==
  ASSUME NEW p, AllSigned(PlanOf(source[p]).native, tree[p])
  PROVE  /\ DOMAIN Rewritten(p) = DOMAIN source[p]
         /\ \A k \in DOMAIN source[p] :
               /\ Rewritten(p)[k].name = source[p][k].name
               /\ Rewritten(p)[k].dir = source[p][k].dir
               /\ Rewritten(p)[k].stamp = source[p][k].stamp
         /\ \A k \in NativesOf(source[p]) :
               /\ Rewritten(p)[k].data = tree[p][source[p][k].name]
               /\ Rewritten(p)[k].data # source[p][k].data
         /\ \A k \in Files(source[p]) \ RecordsOf(source[p]) :
               Rewritten(p)[k].data = tree[p][source[p][k].name]
         /\ Describes(Rewritten(p))
  <1> DEFINE a == source[p]
             r == Rewritten(p)
  <1>1. DOMAIN r = DOMAIN a
    BY DEF Rewritten
  <1>2. \A k \in DOMAIN a : /\ r[k].name = a[k].name /\ r[k].dir = a[k].dir
                            /\ r[k].stamp = a[k].stamp /\ r[k].data = Packed(p, k)
    BY DEF Rewritten
  <1>3. Files(r) = Files(a)
    BY <1>1, <1>2 DEF Files
  <1>4. \A k \in Files(a) : a[k].name \notin RecordNames => r[k].data = tree[p][a[k].name]
    BY <1>2 DEF Packed, Files
  <1>5. \A k \in NativesOf(a) : r[k].data = tree[p][a[k].name]
    BY <1>4, SigningAssumption DEF NativesOf
  <1>6. \A k \in NativesOf(a) : r[k].data # a[k].data
    <2>1. ASSUME NEW k \in NativesOf(a) PROVE a[k].data # tree[p][a[k].name]
      <3>1. <<a[k].name, a[k].data>> \in PlanOf(a).native
        BY DEF PlanOf
      <3>2. QED
        BY <3>1 DEF AllSigned
    <2>2. QED
      BY <1>5, <2>1
  <1>7. Describes(r)
    <2>1. ASSUME NEW k \in Files(r), r[k].name \in RecordNames
          PROVE  r[k].data.rows = RecordRows(p)
      <3>1. k \in Files(a) /\ k \in DOMAIN a /\ a[k].name \in RecordNames
        BY <1>2, <1>3, <2>1 DEF Files
      <3>2. Packed(p, k) = [of |-> "RECORD", state |-> "new", rows |-> RecordRows(p)]
        BY <3>1 DEF Packed
      <3>3. QED
        BY <1>2, <3>1, <3>2
    <2>2. \A k \in Files(a) : r[k].name = a[k].name
      BY <1>2 DEF Files
    <2>3. RecordRows(p) = {<<r[j].name, r[j].data>> :
                             j \in {j \in Files(r) : r[j].name \notin RecordNames}}
      BY <1>3, <1>4, <2>2 DEF RecordRows
    <2>4. QED
      BY <2>1, <2>3 DEF Describes
  <1>8. \A k \in Files(a) \ RecordsOf(a) : r[k].data = tree[p][a[k].name]
    BY <1>4 DEF RecordsOf, Files
  <1>9. QED
    BY <1>1, <1>2, <1>5, <1>6, <1>7, <1>8

(* Of some numbers up to n one is the largest.                             *)
LEMMA LastOne ==
  ASSUME NEW n \in Nat, NEW S \in SUBSET (1..n), S # {}
  PROVE  \E k \in S : \A j \in S : j <= k
  <1> DEFINE T == {n - j : j \in S}
  <1>1. T \subseteq Nat /\ T # {}
    <2>1. \A j \in S : n - j \in Nat
      OBVIOUS
    <2>2. PICK j \in S : TRUE
      OBVIOUS
    <2>3. n - j \in T
      OBVIOUS
    <2>4. QED
      BY <2>1, <2>3
  <1> DEFINE less == OpToRel(<, Nat)
  <1>2. \A x, y \in Nat : y < x => <<y, x>> \in less
    BY DEF OpToRel
  <1>3. IsWellFoundedOn(less, Nat)
    BY NatLessThanWellFounded
  <1> HIDE DEF less
  <1>4. PICK x \in T : \A y \in T : ~(<<y, x>> \in less)
    <2> HIDE DEF T
    <2>1. QED
      BY <1>1, <1>3, WFMin
  <1>5. PICK k \in S : x = n - k
    BY <1>4
  <1>6. ASSUME NEW j \in S PROVE j <= k
    <2>1. n - j \in T
      OBVIOUS
    <2>2. ~(n - j < x)
      BY <1>1, <1>2, <1>4, <2>1
    <2>3. QED
      BY <1>5, <2>2
  <1>7. QED
    BY <1>6

(* What unpack leaves on disk under a name is what the last entry of that  *)
(* name holds.                                                             *)
LEMMA ExtractedIsAnEntry ==
  ASSUME NEW a, NEW length \in Nat, DOMAIN a = 1..length, NEW n \in FilesOf(a)
  PROVE  \E k \in Files(a) : a[k].name = n /\ Extracted(a)[n] = a[k].data
  <1> DEFINE S == {k \in Files(a) : a[k].name = n}
             last(k) == /\ k \in Files(a) /\ a[k].name = n
                        /\ \A j \in Files(a) : a[j].name = n => j <= k
  <1>1. S # {} /\ S \in SUBSET (1..length)
    BY DEF FilesOf, Files
  <1>2. PICK k \in S : \A j \in S : j <= k
    <2> HIDE DEF S
    <2>1. QED
      BY <1>1, LastOne
  <1>3. last(k)
    BY <1>2
  <1>4. last(CHOOSE m \in Files(a) : /\ a[m].name = n
                                     /\ \A j \in Files(a) : a[j].name = n => j <= m)
    BY <1>3
  <1>5. QED
    BY <1>4 DEF Extracted

(* Where all native files changed, what nothing but the signing touched is *)
(* as the signing leaves it.                                               *)
Kept(t, p, a) ==
    \A n \in FilesOf(a) : <<p, n>> \notin touched =>
        /\ n \in DOMAIN t
        /\ \/ t[n] = Extracted(a)[n]
           \/ n \in NativeNames /\ t[n] = Signed(Extracted(a)[n])

LEMMA UntouchedIsSigned ==
  ASSUME NEW a, NEW length \in Nat, DOMAIN a = 1..length, NEW t, NEW p,
         Kept(t, p, a), AllSigned(PlanOf(a).native, t)
  PROVE  \A k \in Files(a) : <<p, a[k].name>> \notin touched =>
            t[a[k].name] = SignedOf(a)[a[k].name]
  <1>1. SUFFICES ASSUME NEW k \in Files(a), <<p, a[k].name>> \notin touched
                 PROVE  t[a[k].name] = SignedOf(a)[a[k].name]
    OBVIOUS
  <1> DEFINE n == a[k].name
  <1>2. n \in FilesOf(a)
    BY DEF FilesOf
  <1>3. t[n] = Extracted(a)[n] \/ (n \in NativeNames /\ t[n] = Signed(Extracted(a)[n]))
    BY <1>1, <1>2 DEF Kept
  <1>4. CASE n \in NativeNames
    <2>1. PICK j \in Files(a) : a[j].name = n /\ Extracted(a)[n] = a[j].data
      BY <1>2, ExtractedIsAnEntry
    <2>2. <<n, Extracted(a)[n]>> \in PlanOf(a).native
      BY <1>4, <2>1 DEF PlanOf, NativesOf
    <2>3. t[n] # Extracted(a)[n]
      BY <2>2 DEF AllSigned
    <2>4. QED
      BY <1>2, <1>3, <1>4, <2>3 DEF SignedOf
  <1>5. CASE n \notin NativeNames
    BY <1>2, <1>3, <1>5 DEF SignedOf
  <1>6. QED
    BY <1>4, <1>5

(***************************************************************************)
(* The job.                                                                *)
(***************************************************************************)
(* Once the wheels are apart, the set is one that may be, and the plan and *)
(* what is still there of the sources are those wheels.                    *)
PlanInv ==
    step \notin {"unpack", "failed"} =>
        /\ Unpackable
        /\ \A p \in Packages : /\ plan[p] = PlanOf(ArchiveOf(p))
                               /\ source[p] \in {ArchiveOf(p), NoArchive}

(* Nothing is repacked before its step; what is, is as repack found the    *)
(* tree, which has not changed since; and the manifest says so.            *)
OutInv ==
    /\ step \in {"unpack", "sign"} => \A p \in Packages : out[p] = NoArchive
    /\ step \notin {"unpack", "failed"} =>
          \A p \in Packages : out[p] # NoArchive =>
              /\ out[p] = Rewritten(p) /\ source[p] = ArchiveOf(p)
              /\ AllSigned(PlanOf(source[p]).native, tree[p])
    /\ step \in {"verify", "attest"} =>
          \A p \in Packages :
              manifest[p] = [unsigned |-> plan[p].source, signed |-> out[p],
                             native |-> {<<f[1], f[2], tree[p][f[1]]>> : f \in plan[p].native}]
    /\ step = "attest" => \A p \in Packages : Verified(out[p])

(* What nothing but the signing touched on disk is there, as it was        *)
(* unpacked or, if native, signed.                                         *)
TreeInv ==
    step \notin {"unpack", "failed"} =>
        \A p \in Packages : Kept(tree[p], p, ArchiveOf(p))

IInv == TypeOK /\ PlanInv /\ TreeInv /\ OutInv /\ RepackedIsTheWheel

(* The job starts with it.                                                 *)
LEMMA SigningInit == Init => IInv
  BY SigningAssumption DEF Init, IInv, TypeOK, PlanInv, TreeInv, OutInv, RepackedIsTheWheel, Steps

(* What is on disk after unpack has names there are.                       *)
LEMMA NamesOnDisk ==
  ASSUME wheels \in WheelSets, Selected, NEW p \in Packages
  PROVE  DOMAIN Extracted(ArchiveOf(p)) \subseteq Names
  <1>1. PICK w \in wheels : ArchiveOf(p) = w.archive
    BY TheWheel
  <1>2. NamesIn(w.archive) \subseteq Names
    BY SigningAssumption
  <1>3. QED
    BY <1>1, <1>2 DEF Extracted, NamesIn, FilesOf, Files

(* Steps that only move the job on.                                        *)
LEMMA RepackedStays ==
  ASSUME RepackedIsTheWheel, UNCHANGED <<wheels, out, touched>>
  PROVE  RepackedIsTheWheel'
  <1>1. \A p, a : IsTheWheel(p, a)' = IsTheWheel(p, a)
    BY DEF IsTheWheel
  <1>2. \A p : WheelsOf(p)' = WheelsOf(p)
    BY DEF WheelsOf
  <1>3. QED
    BY <1>1, <1>2 DEF RepackedIsTheWheel

(* unpack keeps it.                                                        *)
LEMMA UnpackKeeps == ASSUME IInv, Unpack PROVE IInv'
  <1>1. CASE Unpackable
    <2>1. /\ step = "unpack" /\ step' = "sign" /\ UNCHANGED <<wheels, out, manifest, faults, touched>>
          /\ plan' = [p \in Packages |-> PlanOf(ArchiveOf(p))]
          /\ source' = [p \in Packages |-> ArchiveOf(p)]
          /\ tree' = [p \in Packages |-> Extracted(ArchiveOf(p))]
      BY <1>1 DEF Unpack
    <2>2. \A p \in Packages : ArchiveOf(p)' = ArchiveOf(p)
      BY <2>1 DEF ArchiveOf
    <2>3. Unpackable'
      BY <1>1, <2>1 DEF Unpackable, Selected, WheelsOf
    <2>4. TypeOK'
      BY <1>1, <2>1, NamesOnDisk DEF IInv, TypeOK, Steps, Unpackable
    <2>5. PlanInv'
      BY <2>1, <2>2, <2>3 DEF PlanInv
    <2>6. OutInv'
      BY <2>1 DEF IInv, OutInv
    <2>7. TreeInv'
      <3>1. \A p \in Packages : tree'[p] = Extracted(ArchiveOf(p))
        BY <2>1
      <3>2. \A a, p : Kept(Extracted(a), p, a)'
        BY DEF Kept, Extracted
      <3>3. QED
        BY <2>2, <3>1, <3>2 DEF TreeInv
    <2>8. QED
      BY <2>1, <2>4, <2>5, <2>6, <2>7, RepackedStays DEF IInv
  <1>2. CASE ~Unpackable
    <2>1. step' = "failed" /\ UNCHANGED <<wheels, out, faults, touched>>
      BY <1>2 DEF Unpack
    <2>2. QED
      BY <2>1, RepackedStays DEF IInv, TypeOK, PlanInv, TreeInv, OutInv, Steps
  <1>3. QED
    BY <1>1, <1>2

(* Whatever happens on disk while the signing step works keeps it.         *)
LEMMA SigningKeeps ==
  ASSUME IInv, \/ \E p \in Packages, n \in Names : Sign(p, n)
               \/ \E p \in Packages : Disturb(p)
               \/ EndSigning
  PROVE  IInv'
  <1>1. /\ step = "sign" /\ step' \in {"sign", "repack"}
        /\ UNCHANGED <<wheels, plan, out, manifest>>
    BY DEF Sign, Disturb, EndSigning
  <1>2. faults' \in 0..MaxFaults
    BY SigningAssumption DEF IInv, TypeOK, Sign, Disturb, EndSigning
  <1>3. DOMAIN source' = Packages /\ \A p \in Packages : source'[p] \in {source[p], NoArchive}
    BY <1>1 DEF IInv, TypeOK, Sign, Disturb, EndSigning
  <1>4. DOMAIN tree' = Packages /\ \A p \in Packages : DOMAIN tree'[p] \subseteq Names
    <2>1. DOMAIN tree = Packages /\ \A p \in Packages : DOMAIN tree[p] \subseteq Names
      BY <1>1 DEF IInv, TypeOK
    <2>2. ASSUME NEW p \in Packages, NEW n \in Names, Sign(p, n)
          PROVE  DOMAIN tree' = Packages /\ \A q \in Packages : DOMAIN tree'[q] \subseteq Names
      BY <2>1, <2>2 DEF Sign
    <2>3. ASSUME NEW p \in Packages, NEW n \in Names, NEW d \in Data,
                 tree' = [tree EXCEPT ![p] = Placed(@, n, d)]
          PROVE  DOMAIN tree' = Packages /\ \A q \in Packages : DOMAIN tree'[q] \subseteq Names
      <3>1. DOMAIN Placed(tree[p], n, d) \subseteq Names
        BY <2>1 DEF Placed
      <3>2. QED
        BY <2>1, <2>3, <3>1
    <2>4. ASSUME NEW p \in Packages, NEW n \in DOMAIN tree[p],
                 tree' = [tree EXCEPT ![p] = Removed(@, n)]
          PROVE  DOMAIN tree' = Packages /\ \A q \in Packages : DOMAIN tree'[q] \subseteq Names
      <3>1. DOMAIN Removed(tree[p], n) \subseteq Names
        BY <2>1 DEF Removed, Restrict
      <3>2. QED
        BY <2>1, <2>4, <3>1
    <2>5. QED
      BY <2>1, <2>2, <2>3, <2>4 DEF Disturb, EndSigning
  <1>5. TypeOK'
    <2>1. touched' \subseteq Packages \X Names
      BY DEF IInv, TypeOK, Sign, Disturb, EndSigning
    <2>2. QED
      BY <1>1, <1>2, <1>3, <1>4, <2>1 DEF IInv, TypeOK, Steps
  <1>6. \A p : ArchiveOf(p)' = ArchiveOf(p)
    BY <1>1 DEF ArchiveOf
  <1>7. Unpackable'
    BY <1>1 DEF IInv, PlanInv, Unpackable, Selected, WheelsOf
  <1>8. PlanInv'
    BY <1>1, <1>3, <1>6, <1>7 DEF IInv, PlanInv
  <1>9. OutInv'
    BY <1>1 DEF IInv, OutInv
  <1>10. TreeInv'
    <2>1. ASSUME NEW p \in Packages PROVE Kept(tree[p], p, ArchiveOf(p))'
      <3>1. SUFFICES ASSUME NEW n \in FilesOf(ArchiveOf(p)), <<p, n>> \notin touched'
                     PROVE  /\ n \in DOMAIN tree'[p]
                            /\ \/ tree'[p][n] = Extracted(ArchiveOf(p))[n]
                               \/ /\ n \in NativeNames
                                  /\ tree'[p][n] = Signed(Extracted(ArchiveOf(p))[n])
        BY <1>6 DEF Kept
      <3> DEFINE d == Extracted(ArchiveOf(p))[n]
      <3>2. <<p, n>> \notin touched /\ DOMAIN tree = Packages
        BY <1>1, <3>1 DEF IInv, TypeOK, Sign, Disturb, EndSigning
      <3>3. /\ n \in DOMAIN tree[p]
            /\ tree[p][n] = d \/ (n \in NativeNames /\ tree[p][n] = Signed(d))
        BY <1>1, <3>2 DEF IInv, TreeInv, Kept
      <3> HIDE DEF d
      <3>4. ASSUME NEW q \in Packages, NEW m \in Names, Sign(q, m)
            PROVE  /\ n \in DOMAIN tree'[p]
                   /\ tree'[p][n] = d \/ (n \in NativeNames /\ tree'[p][n] = Signed(d))
        <4>1. CASE q = p /\ m = n
          <5>1. n \in NativeNames /\ tree' = [tree EXCEPT ![p][n] = Signed(@)]
            BY <3>4, <4>1 DEF Sign
          <5>2. n \in DOMAIN tree'[p] /\ tree'[p][n] = Signed(tree[p][n])
            <6>1. tree'[p] = [tree[p] EXCEPT ![n] = Signed(tree[p][n])]
              BY <3>2, <5>1
            <6>2. QED
              BY <3>3, <6>1
          <5>3. Signed(Signed(d)) = Signed(d)
            BY DEF Signed
          <5>4. QED
            BY <3>3, <5>1, <5>2, <5>3
        <4>2. CASE ~(q = p /\ m = n)
          <5>1. DOMAIN tree'[p] = DOMAIN tree[p] /\ tree'[p][n] = tree[p][n]
            BY <3>2, <3>3, <3>4, <4>2 DEF Sign
          <5>2. QED
            BY <3>3, <5>1
        <4>3. QED
          BY <4>1, <4>2
      <3>5. ASSUME NEW q \in Packages, Disturb(q)
            PROVE  n \in DOMAIN tree'[p] /\ tree'[p][n] = tree[p][n]
        <4>1. ASSUME NEW m \in Names, touched' = touched \union {<<q, m>>},
                     \/ \E x \in Data : tree' = [tree EXCEPT ![q] = Placed(@, m, x)]
                     \/ tree' = [tree EXCEPT ![q] = Removed(@, m)]
              PROVE  n \in DOMAIN tree'[p] /\ tree'[p][n] = tree[p][n]
          <5>1. ~(p = q /\ n = m)
            BY <3>1, <4>1
          <5>2. CASE p # q
            BY <3>2, <3>3, <4>1, <5>2
          <5>3. CASE p = q
            <6>1. n # m
              BY <5>1, <5>3
            <6>2. \A x : /\ n \in DOMAIN Placed(tree[p], m, x)
                         /\ Placed(tree[p], m, x)[n] = tree[p][n]
              BY <3>3, <6>1 DEF Placed
            <6>3. n \in DOMAIN Removed(tree[p], m) /\ Removed(tree[p], m)[n] = tree[p][n]
              BY <3>3, <6>1 DEF Removed, Restrict
            <6>4. QED
              BY <3>2, <4>1, <5>3, <6>2, <6>3
          <5>4. QED
            BY <5>2, <5>3
        <4>2. QED
          BY <3>3, <3>5, <4>1 DEF Disturb
      <3>6. QED
        BY <3>3, <3>4, <3>5 DEF EndSigning, d
    <2>2. QED
      BY <1>1, <2>1 DEF TreeInv
  <1>11. RepackedIsTheWheel'
    BY <1>1, <1>9 DEF IInv, OutInv, RepackedIsTheWheel
  <1>12. QED
    BY <1>5, <1>8, <1>9, <1>10, <1>11 DEF IInv

(* A wheel that is repacked is the wheel that was unpacked.                *)
LEMMA RepackKeeps == ASSUME IInv, NEW k \in 1..3, Repack(k) PROVE IInv'
  <1> DEFINE p == Order[k]
  <1>1. /\ p \in Packages /\ step = "repack" /\ out[p] = NoArchive
        /\ UNCHANGED <<wheels, plan, source, tree, manifest, faults, touched>>
    BY DEF Repack, Packages
  <1>2. PICK w \in wheels : WheelsOf(p) = {w} /\ ArchiveOf(p) = w.archive
    BY <1>1, TheWheel DEF IInv, PlanInv, Unpackable
  <1>3. plan[p].source = w.archive /\ plan[p].native = PlanOf(w.archive).native
    <2>1. \A q \in Packages : plan[q] = PlanOf(ArchiveOf(q))
      BY <1>1 DEF IInv, PlanInv
    <2>2. plan[p] = PlanOf(w.archive)
      BY <1>1, <1>2, <2>1
    <2>3. PlanOf(w.archive).source = w.archive
      BY DEF PlanOf
    <2>4. QED
      BY <2>2, <2>3
  <1>4. \A q : ArchiveOf(q)' = ArchiveOf(q)
    BY <1>1 DEF ArchiveOf
  <1>5. \A q : Rewritten(q)' = Rewritten(q)
    BY <1>1 DEF Rewritten, Packed, RecordRows, Files
  <1> HIDE DEF p
  <1>6. CASE Repackable(p)
    <2>1. out' = [out EXCEPT ![p] = Rewritten(p)] /\ step' = step
      BY <1>6 DEF Repack, p
    <2>2. source[p] = w.archive /\ AllSigned(PlanOf(source[p]).native, tree[p])
      BY <1>3, <1>6 DEF Repackable
    <2>3. DOMAIN out = Packages
      BY DEF IInv, TypeOK
    <2>4. out'[p] = Rewritten(p) /\ \A q \in Packages \ {p} : out'[q] = out[q]
      BY <1>1, <2>1, <2>3
    <2>5. TypeOK'
      BY <1>1, <2>1, <2>3 DEF IInv, TypeOK, Steps
    <2>6. PlanInv'
      BY <1>1, <1>4, <2>1 DEF IInv, PlanInv, Unpackable, Selected, WheelsOf
    <2>7. OutInv'
      <3>1. ASSUME NEW q \in Packages, out'[q] # NoArchive
            PROVE  /\ out'[q] = Rewritten(q) /\ source[q] = ArchiveOf(q)
                   /\ AllSigned(PlanOf(source[q]).native, tree[q])
        <4>1. CASE q = p
          BY <1>2, <2>2, <2>4, <4>1
        <4>2. CASE q # p
          BY <1>1, <2>4, <3>1, <4>2 DEF IInv, OutInv
        <4>3. QED
          BY <4>1, <4>2
      <3>2. QED
        BY <1>1, <1>4, <1>5, <2>1, <3>1 DEF OutInv
    <2>8. TreeInv'
      BY <1>1, <1>4, <2>1 DEF IInv, TreeInv, Kept
    <2>9. RepackedIsTheWheel'
      <3>1. /\ DOMAIN out'[p] = DOMAIN w.archive
            /\ \A j \in DOMAIN w.archive :
                  /\ out'[p][j].name = w.archive[j].name /\ out'[p][j].dir = w.archive[j].dir
                  /\ out'[p][j].stamp = w.archive[j].stamp
            /\ \A j \in NativesOf(w.archive) : out'[p][j].data # w.archive[j].data
            /\ \A j \in Files(w.archive) \ RecordsOf(w.archive) :
                  out'[p][j].data = tree[p][w.archive[j].name]
            /\ Describes(out'[p])
        BY <2>2, <2>4, RewrittenIsTheArchive
      <3>2. \A j \in Files(w.archive) : <<p, w.archive[j].name>> \notin touched =>
               tree[p][w.archive[j].name] = SignedOf(w.archive)[w.archive[j].name]
        <4>1. PICK length \in Nat : DOMAIN w.archive = 1..length
          BY SigningAssumption DEF IInv, TypeOK
        <4>2. Kept(tree[p], p, w.archive) /\ AllSigned(PlanOf(w.archive).native, tree[p])
          BY <1>1, <1>2, <2>2 DEF IInv, TreeInv
        <4>3. QED
          BY <4>1, <4>2, UntouchedIsSigned
      <3>3. IsTheWheel(p, w.archive)'
        BY <1>1, <3>1, <3>2 DEF IsTheWheel
      <3>4. \A q \in Packages \ {p} : \A a : IsTheWheel(q, a)' = IsTheWheel(q, a)
        BY <1>1, <2>4 DEF IsTheWheel
      <3>5. ASSUME NEW q \in Packages, out'[q] # NoArchive
            PROVE  \E v \in WheelsOf(q) : IsTheWheel(q, v.archive)'
        <4>1. CASE q = p
          BY <1>2, <3>3, <4>1
        <4>2. CASE q # p
          <5>1. out[q] # NoArchive
            BY <2>4, <3>5, <4>2
          <5>2. PICK v \in WheelsOf(q) : IsTheWheel(q, v.archive)
            BY <5>1 DEF IInv, RepackedIsTheWheel
          <5>3. QED
            BY <3>4, <4>2, <5>2
        <4>3. QED
          BY <4>1, <4>2
      <3>6. \A q : WheelsOf(q)' = WheelsOf(q)
        BY <1>1 DEF WheelsOf
      <3>7. QED
        BY <3>5, <3>6 DEF RepackedIsTheWheel
    <2>10. QED
      BY <2>5, <2>6, <2>7, <2>8, <2>9 DEF IInv
  <1>7. CASE ~Repackable(p)
    <2>1. step' = "failed" /\ UNCHANGED <<wheels, out, faults, touched>>
      BY <1>1, <1>7 DEF Repack, p
    <2>2. QED
      BY <2>1, RepackedStays DEF IInv, TypeOK, PlanInv, TreeInv, OutInv, Steps
  <1>8. QED
    BY <1>6, <1>7

(* The manifest, the check of the signatures and the end keep it.          *)
LEMMA EndKeeps ==
  ASSUME IInv, WriteManifest \/ Verify \/ Lose \/ Over \/ UNCHANGED vars PROVE IInv'
  <1>1. CASE step' = "failed" /\ UNCHANGED <<wheels, plan, source, tree, out, manifest, faults, touched>>
    BY <1>1, RepackedStays DEF IInv, TypeOK, PlanInv, TreeInv, OutInv, Steps
  <1>2. ASSUME UNCHANGED <<wheels, plan, source, tree, out, faults, touched>>,
               step' \notin {"unpack", "failed"}, step \notin {"unpack", "failed"}
        PROVE  /\ PlanInv' /\ TreeInv' /\ RepackedIsTheWheel'
               /\ \A p \in Packages : out'[p] # NoArchive =>
                     /\ out'[p] = Rewritten(p)' /\ source'[p] = ArchiveOf(p)'
                     /\ AllSigned(PlanOf(source[p]).native, tree[p])'
    <2>1. \A p : /\ ArchiveOf(p)' = ArchiveOf(p) /\ Rewritten(p)' = Rewritten(p)
                 /\ AllSigned(PlanOf(source[p]).native, tree[p])'
                       = AllSigned(PlanOf(source[p]).native, tree[p])
      BY <1>2 DEF ArchiveOf, Rewritten, Packed, RecordRows, Files, PlanOf, NativesOf, AllSigned
    <2>2. Unpackable'
      BY <1>2 DEF IInv, PlanInv, Unpackable, Selected, WheelsOf
    <2>3. TreeInv'
      BY <1>2, <2>1 DEF IInv, TreeInv, Kept
    <2>4. QED
      BY <1>2, <2>1, <2>2, <2>3, RepackedStays DEF IInv, PlanInv, OutInv
  <1>3. CASE WriteManifest
    <2>1. /\ step = "repack" /\ step' = "verify" /\ \A p \in Packages : out[p] # NoArchive
          /\ UNCHANGED <<wheels, plan, source, tree, out, faults, touched>>
          /\ manifest' = [p \in Packages |->
               [unsigned |-> plan[p].source, signed |-> out[p],
                native |-> {<<f[1], f[2], tree[p][f[1]]>> : f \in plan[p].native}]]
      BY <1>3 DEF WriteManifest
    <2>2. TypeOK'
      BY <2>1 DEF IInv, TypeOK, Steps
    <2>3. OutInv'
      BY <1>2, <2>1 DEF OutInv
    <2>4. QED
      BY <1>2, <2>1, <2>2, <2>3 DEF IInv
  <1>4. CASE Verify
    <2>1. CASE \A p \in Packages : Verified(out[p])
      <3>1. /\ step = "verify" /\ step' = "attest"
            /\ UNCHANGED <<wheels, plan, source, tree, out, manifest, faults, touched>>
        BY <1>4, <2>1 DEF Verify
      <3>2. \A p \in Packages : Verified(out[p])'
        BY <2>1, <3>1 DEF Verified, NativesOf, Files
      <3>3. TypeOK'
        BY <3>1 DEF IInv, TypeOK, Steps
      <3>4. OutInv'
        BY <1>2, <3>1, <3>2 DEF IInv, OutInv
      <3>5. QED
        BY <1>2, <3>1, <3>3, <3>4 DEF IInv
    <2>2. CASE ~\A p \in Packages : Verified(out[p])
      BY <1>1, <1>4, <2>2 DEF Verify
    <2>3. QED
      BY <2>1, <2>2
  <1>5. CASE Lose
    BY <1>1, <1>5 DEF Lose
  <1>6. CASE UNCHANGED vars
    <2>1. UNCHANGED <<wheels, step, plan, source, tree, out, manifest, faults, touched>>
      BY <1>6 DEF vars
    <2>2. TypeOK'
      BY <2>1 DEF IInv, TypeOK
    <2>3. RepackedIsTheWheel'
      BY <2>1, RepackedStays DEF IInv
    <2>4. (\A p \in Packages : Verified(out[p])) => \A p \in Packages : Verified(out[p])'
      BY <2>1 DEF Verified, NativesOf, Files
    <2>5. CASE step \in {"unpack", "failed"}
      BY <2>1, <2>2, <2>3, <2>5 DEF IInv, PlanInv, TreeInv, OutInv
    <2>6. CASE step \notin {"unpack", "failed"}
      <3>1. OutInv'
        BY <1>2, <2>1, <2>4, <2>6 DEF IInv, OutInv
      <3>2. QED
        BY <1>2, <2>1, <2>2, <2>6, <3>1 DEF IInv
    <2>7. QED
      BY <2>5, <2>6
  <1>7. QED
    BY <1>3, <1>4, <1>5, <1>6 DEF Over

(* Every step keeps it.                                                    *)
LEMMA SigningNext == IInv /\ [Next]_vars => IInv'
  BY UnpackKeeps, SigningKeeps, RepackKeeps, EndKeeps DEF Next

(* The invariant of the job holds throughout.                              *)
LEMMA SigningInvariant == Spec => []IInv
  BY SigningInit, SigningNext, PTL DEF Spec

(* The job's variables keep to what its step needs.                        *)
THEOREM TypeCorrect == Spec => []TypeOK
  <1>1. IInv => TypeOK
    BY DEF IInv
  <1>2. QED
    BY <1>1, SigningInvariant, PTL

(* Whatever the signing step left out or found disturbed, a wheel that was *)
(* repacked has the entries of the one that was unpacked; every native     *)
(* file of it changed; what nothing but the signing touched holds what it  *)
(* held, signed if it is native; and its RECORD lists what is in it now.   *)
THEOREM RepackedHolds == Spec => []RepackedIsTheWheel
  <1>1. IInv => RepackedIsTheWheel
    BY DEF IInv
  <1>2. QED
    BY <1>1, SigningInvariant, PTL

(* What is attested is signed in full, and its manifest tells the truth.   *)
THEOREM AttestedHolds == Spec => []AttestedIsSigned
  <1>1. ASSUME IInv, step = "attest", NEW p \in Packages
        PROVE  \E w \in WheelsOf(p) :
                  /\ manifest[p].unsigned = w.archive /\ manifest[p].signed = out[p]
                  /\ \A k \in NativesOf(w.archive) :
                        /\ out[p][k].data.state = "signed"
                        /\ <<w.archive[k].name, w.archive[k].data, out[p][k].data>>
                              \in manifest[p].native
    <2>1. PICK w \in WheelsOf(p) : ArchiveOf(p) = w.archive
      BY <1>1, TheWheel DEF IInv, PlanInv, Unpackable
    <2>2. /\ out[p] = Rewritten(p) /\ source[p] = w.archive /\ Verified(out[p])
          /\ plan[p] = PlanOf(w.archive) /\ AllSigned(PlanOf(source[p]).native, tree[p])
          /\ manifest[p] = [unsigned |-> plan[p].source, signed |-> out[p],
                            native |-> {<<f[1], f[2], tree[p][f[1]]>> : f \in plan[p].native}]
      BY <1>1, <2>1 DEF IInv, PlanInv, OutInv, TypeOK
    <2>3. manifest[p].unsigned = w.archive /\ manifest[p].signed = out[p]
      BY <2>2 DEF PlanOf
    <2>4. ASSUME NEW k \in NativesOf(w.archive)
          PROVE  /\ out[p][k].data.state = "signed"
                 /\ <<w.archive[k].name, w.archive[k].data, out[p][k].data>>
                       \in manifest[p].native
      <3>1. /\ DOMAIN out[p] = DOMAIN w.archive /\ k \in DOMAIN w.archive
            /\ out[p][k].name = w.archive[k].name /\ out[p][k].dir = w.archive[k].dir
            /\ out[p][k].data = tree[p][w.archive[k].name]
        BY <2>2, RewrittenIsTheArchive DEF NativesOf, Files
      <3>2. k \in NativesOf(out[p])
        BY <3>1 DEF NativesOf, Files
      <3>3. <<w.archive[k].name, w.archive[k].data>> \in plan[p].native
        BY <2>2 DEF PlanOf
      <3>4. QED
        BY <2>2, <3>1, <3>2, <3>3 DEF Verified
    <2>5. QED
      BY <2>3, <2>4
  <1>2. IInv => AttestedIsSigned
    BY <1>1 DEF AttestedIsSigned
  <1>3. QED
    BY <1>2, SigningInvariant, PTL

(* The wheels that are signed together run on one interpreter.             *)
THEOREM OneInterpreterHolds == Spec => []OneInterpreter
  <1>1. IInv => OneInterpreter
    BY SelectedRuns DEF IInv, TypeOK, PlanInv, Unpackable, OneInterpreter
  <1>2. QED
    BY <1>1, SigningInvariant, PTL
================================================================================
