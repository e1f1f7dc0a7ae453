------------------------------ MODULE WheelSigning ------------------------------
(***************************************************************************)
(* The sign job of _woa-sign.yml for the wheels of one cell, from its      *)
(* download to what it attests: `wheel_repack.py unpack' takes the wheels  *)
(* apart, Azure's action signs native files on disk, `wheel_repack.py      *)
(* repack' puts the wheels together from what it finds there, one after    *)
(* the other, and verify-wheel-signatures.ps1 looks at the result.         *)
(*                                                                         *)
(* An archive is a sequence of entries [name, dir, stamp, data] in the     *)
(* order of its directory; the stamp is its time and attributes.  The data *)
(* of a file is [of, state, rows]: which file it is; whether it is as      *)
(* built ("new"), signed as expected, or anything else; and, in a RECORD,  *)
(* what it lists.  A hash stands for the data it is of.  On disk an        *)
(* archive is a function from the names of its files to their data.        *)
(*                                                                         *)
(* An operator named ...Mutant is a plausible bug of the definition that   *)
(* follows it; no specification uses it.                                   *)
(***************************************************************************)
EXTENDS WheelTags, Sequences, Functions

CONSTANTS
    WheelSets,     \* what may have been downloaded: sets of wheels
    Names,         \* names of files
    NativeNames,   \* those with a suffix that is signed
    RecordNames,   \* <name>.dist-info/RECORD
    SignedRecords, \* <name>.dist-info/RECORD.jws and .p7s
    UnsafeNames,   \* names that lead out of the directory they are put in
    Data,          \* what a file may hold
    NoArchive,     \* nothing is there yet
    MaxFaults      \* bound: what is disturbed on disk

NamesIn(archive) == {archive[k].name : k \in DOMAIN archive}
Files(archive) == {k \in DOMAIN archive : ~archive[k].dir}
FilesOf(archive) == {archive[k].name : k \in Files(archive)}

ASSUME SigningAssumption ==
    /\ MaxFaults \in Nat
    /\ NativeNames \cap RecordNames = {}
    /\ \A s \in WheelSets : \A w \in s :
          /\ w.archive # NoArchive /\ NamesIn(w.archive) \subseteq Names
          /\ Len(w.archive) \in Nat /\ DOMAIN w.archive = 1..Len(w.archive)
          /\ \A python \in w.tags.pythons : python.minor \in Nat

VARIABLES
    wheels,   \* the wheels that were downloaded: [package, tags, archive]
    step,     \* where the job is
    plan,     \* plan.json: [Packages -> what it says of the wheel]
    source,   \* [Packages -> the archive there under the name of the wheel]
    tree,     \* [Packages -> the unpacked wheel on disk]
    out,      \* [Packages -> the repacked wheel, or NoArchive]
    manifest, \* [Packages -> what the manifest says], or nothing
    faults,   \* number of faults so far
    touched   \* history: the files [package, name] that were disturbed on disk

vars == <<wheels, step, plan, source, tree, out, manifest, faults, touched>>

(* EXPECTED_PACKAGES, in the order the wheels are handled in.              *)
Order == <<"torch", "torchaudio", "torchvision">>
Packages == {Order[k] : k \in 1..3}

Init ==
    /\ wheels \in WheelSets /\ step = "unpack"
    /\ plan = <<>> /\ source = <<>> /\ tree = <<>>
    /\ out = [p \in Packages |-> NoArchive] /\ manifest = <<>>
    /\ faults = 0 /\ touched = {}

(***************************************************************************)
(* unpack.                                                                 *)
(***************************************************************************)
WheelsOf(p) == {w \in wheels : w.package = p}

Selected ==
    /\ \A w \in wheels : w.tags.platforms = {"win_arm64"} /\ w.package \in Packages
    /\ \A p \in Packages : \E w \in wheels : WheelsOf(p) = {w}
    /\ \A t \in WheelsOf("torch") :
          \E i \in InterpretersOf(t.tags) : \A w \in wheels : Installs(w.tags, i)

(* record_member: one RECORD, and none that is signed.                     *)
RecordFound(archive) ==
    /\ NamesIn(archive) \cap SignedRecords = {}
    /\ \E k \in DOMAIN archive : \A j \in DOMAIN archive :
          archive[j].name \in RecordNames <=> j = k

NativesOf(archive) == {k \in Files(archive) : archive[k].name \in NativeNames}

Unpackable ==
    /\ Selected
    /\ \A w \in wheels : /\ RecordFound(w.archive)
                         /\ NamesIn(w.archive) \cap UnsafeNames = {}
                         /\ NativesOf(w.archive) # {}

(* Where a name is there twice the later entry stays on disk.              *)
Extracted(archive) ==
    [n \in FilesOf(archive) |->
        LET k == CHOOSE k \in Files(archive) :
                    /\ archive[k].name = n
                    /\ \A j \in Files(archive) : archive[j].name = n => j <= k
        IN  archive[k].data]

(* The wheel as it was, and its native files with their hashes.            *)
PlanOf(archive) ==
    [source |-> archive,
     native |-> {<<archive[k].name, archive[k].data>> : k \in NativesOf(archive)}]

ArchiveOf(p) == (CHOOSE w \in wheels : w.package = p).archive

Unpack ==
    /\ step = "unpack"
    /\ IF Unpackable
       THEN /\ step' = "sign"
            /\ plan' = [p \in Packages |-> PlanOf(ArchiveOf(p))]
            /\ source' = [p \in Packages |-> ArchiveOf(p)]
            /\ tree' = [p \in Packages |-> Extracted(ArchiveOf(p))]
       ELSE step' = "failed" /\ UNCHANGED <<plan, source, tree>>
    /\ UNCHANGED <<wheels, out, manifest, faults, touched>>

(***************************************************************************)
(* The signing step.  Which files the action takes depends on a filter of  *)
(* its own, so it may leave some out; and what is on disk may be disturbed *)
(* while it works.                                                         *)
(***************************************************************************)
Signed(d) == [d EXCEPT !.state = "signed"]

Sign(p, n) ==
    /\ step = "sign" /\ n \in DOMAIN tree[p] \cap NativeNames
    /\ tree[p][n].state # "signed"
    /\ tree' = [tree EXCEPT ![p][n] = Signed(@)]
    /\ UNCHANGED <<wheels, step, plan, source, out, manifest, faults, touched>>

(* A file changes or is there in addition; or it is gone.                  *)
Placed(t, n, d) == [m \in DOMAIN t \union {n} |-> IF m = n THEN d ELSE t[m]]
Removed(t, n) == Restrict(t, DOMAIN t \ {n})

Disturb(p) ==
    /\ step = "sign" /\ faults < MaxFaults /\ faults' = faults + 1
    /\ \/ /\ \E n \in Names :
                /\ \/ \E d \in Data : tree' = [tree EXCEPT ![p] = Placed(@, n, d)]
                   \/ n \in DOMAIN tree[p] /\ tree' = [tree EXCEPT ![p] = Removed(@, n)]
                /\ touched' = touched \union {<<p, n>>}
          /\ UNCHANGED source
       \/ source' = [source EXCEPT ![p] = NoArchive] /\ UNCHANGED <<tree, touched>>
    /\ UNCHANGED <<wheels, step, plan, out, manifest>>

EndSigning ==
    /\ step = "sign" /\ step' = "repack"
    /\ UNCHANGED <<wheels, plan, source, tree, out, manifest, faults, touched>>

(***************************************************************************)
(* repack: the wheels in their order, and the manifest after the last.     *)
(***************************************************************************)
(* _signed_native: they are there, and none of them is as it was.          *)
AllSigned(native, t) == \A f \in native : f[1] \in DOMAIN t /\ f[2] # t[f[1]]

Repackable(p) ==
    /\ source[p] = plan[p].source
    /\ AllSigned(plan[p].native, tree[p])
    /\ RecordFound(source[p])
    /\ DOMAIN tree[p] = FilesOf(source[p])

RecordRowsMutant(p) ==
    {<<source[p][k].name, source[p][k].data>> :
        k \in {k \in Files(source[p]) : source[p][k].name \notin RecordNames}}

(* The RECORD lists every other file with its hash.                        *)
RecordRows(p) ==
    {<<source[p][k].name, tree[p][source[p][k].name]>> :
        k \in {k \in Files(source[p]) : source[p][k].name \notin RecordNames}}

(* rewrite_archive: what is in the tree, in the order of the source.       *)
Packed(p, k) ==
    IF k \notin Files(source[p]) THEN source[p][k].data
    ELSE IF source[p][k].name \in RecordNames
         THEN [of |-> "RECORD", state |-> "new", rows |-> RecordRows(p)]
         ELSE tree[p][source[p][k].name]

Rewritten(p) ==
    [k \in DOMAIN source[p] |->
        [name |-> source[p][k].name, dir |-> source[p][k].dir,
         stamp |-> source[p][k].stamp, data |-> Packed(p, k)]]

Repack(k) ==
    LET p == Order[k]
    IN  /\ step = "repack" /\ out[p] = NoArchive
        /\ \A j \in 1..(k - 1) : out[Order[j]] # NoArchive
        /\ IF Repackable(p) THEN out' = [out EXCEPT ![p] = Rewritten(p)] /\ UNCHANGED step
                            ELSE step' = "failed" /\ UNCHANGED out
        /\ UNCHANGED <<wheels, plan, source, tree, manifest, faults, touched>>

WriteManifest ==
    /\ step = "repack" /\ \A p \in Packages : out[p] # NoArchive
    /\ manifest' = [p \in Packages |->
          [unsigned |-> plan[p].source, signed |-> out[p],
           native |-> {<<f[1], f[2], tree[p][f[1]]>> : f \in plan[p].native}]]
    /\ step' = "verify"
    /\ UNCHANGED <<wheels, plan, source, tree, out, faults, touched>>

(***************************************************************************)
(* verify-wheel-signatures.ps1: every native file of every wheel is signed *)
(* as expected, and there is one.                                          *)
(***************************************************************************)
VerifiedMutant(archive) == \E k \in NativesOf(archive) : archive[k].data.state = "signed"

Verified(archive) ==
    /\ NativesOf(archive) # {}
    /\ \A k \in NativesOf(archive) : archive[k].data.state = "signed"

Verify ==
    /\ step = "verify"
    /\ step' = IF \A p \in Packages : Verified(out[p]) THEN "attest" ELSE "failed"
    /\ UNCHANGED <<wheels, plan, source, tree, out, manifest, faults, touched>>

(* The job is lost, or a step of it fails.                                 *)
Lose ==
    /\ step \notin {"attest", "failed"} /\ step' = "failed"
    /\ UNCHANGED <<wheels, plan, source, tree, out, manifest, faults, touched>>

Over == step \in {"attest", "failed"} /\ UNCHANGED vars

Next ==
    \/ Unpack
    \/ \E p \in Packages, n \in Names : Sign(p, n)
    \/ \E p \in Packages : Disturb(p)
    \/ EndSigning
    \/ \E k \in 1..3 : Repack(k)
    \/ WriteManifest
    \/ Verify
    \/ Lose
    \/ Over

Spec == Init /\ [][Next]_vars

--------------------------------------------------------------------------------
Steps == {"unpack", "sign", "repack", "verify", "attest", "failed"}

(* Type correctness.                                                       *)
TypeOK ==
    /\ wheels \in WheelSets /\ step \in Steps /\ faults \in 0..MaxFaults
    /\ touched \subseteq Packages \X Names
    /\ step \notin {"unpack", "failed"} =>
          /\ DOMAIN plan = Packages /\ DOMAIN source = Packages /\ DOMAIN tree = Packages
          /\ \A p \in Packages : DOMAIN tree[p] \subseteq Names
    /\ DOMAIN out = Packages
    /\ step \in {"verify", "attest"} =>
          DOMAIN manifest = Packages /\ \A p \in Packages : out[p] # NoArchive

(* A RECORD lists every other file as it is.                               *)
Describes(archive) ==
    \A k \in Files(archive) : archive[k].name \in RecordNames =>
        archive[k].data.rows =
            {<<archive[j].name, archive[j].data>> :
                j \in {j \in Files(archive) : archive[j].name \notin RecordNames}}

RecordsOf(archive) == {k \in DOMAIN archive : archive[k].name \in RecordNames}

(* What a file holds when nothing but the signing touched it.              *)
SignedOf(archive) ==
    [n \in FilesOf(archive) |->
        IF n \in NativeNames THEN Signed(Extracted(archive)[n]) ELSE Extracted(archive)[n]]

IsTheWheel(p, archive) ==
    /\ DOMAIN out[p] = DOMAIN archive
    /\ \A k \in DOMAIN archive :
          /\ out[p][k].name = archive[k].name /\ out[p][k].dir = archive[k].dir
          /\ out[p][k].stamp = archive[k].stamp
    /\ \A k \in NativesOf(archive) : out[p][k].data # archive[k].data
    /\ \A k \in Files(archive) \ RecordsOf(archive) :
          <<p, archive[k].name>> \notin touched =>
              out[p][k].data = SignedOf(archive)[archive[k].name]
    /\ Describes(out[p])

(* A repacked wheel is, entry by entry and in its order, the wheel that    *)
(* was unpacked, even when the job fails at a later wheel.  Every native   *)
(* file changed; one that nothing but the signing touched is the file that *)
(* was unpacked, signed.  Of the other files those that nothing touched    *)
(* are what they were (a name that is there twice holds what its later     *)
(* entry held), and the RECORD lists all of them as they are now.  A file  *)
(* that is not native and was changed on disk is packed as it is found,    *)
(* although wheel_repack.py:24-25 has only signed files and RECORD change. *)
RepackedIsTheWheel ==
    \A p \in Packages : out[p] # NoArchive => \E w \in WheelsOf(p) : IsTheWheel(p, w.archive)

(* What is attested is signed in full, and the manifest tells the truth of *)
(* what each wheel and each native file was and is.                        *)
AttestedIsSigned ==
    step = "attest" =>
        \A p \in Packages : \E w \in WheelsOf(p) :
            /\ manifest[p].unsigned = w.archive /\ manifest[p].signed = out[p]
            /\ \A k \in NativesOf(w.archive) :
                  /\ out[p][k].data.state = "signed"
                  /\ <<w.archive[k].name, w.archive[k].data, out[p][k].data>>
                        \in manifest[p].native

(* The wheels that are signed together run on one interpreter: no native   *)
(* code for another Python, or for the other kind of it, is among them.    *)
RunsOn(tags, minor, threaded) ==
    \E a \in tags.abis, python \in tags.pythons :
        /\ python.minor <= minor
        /\ \/ a.kind = "none" /\ (python.lang = "cp" => python.minor = minor)
           \/ a = Own(minor, threaded) /\ python = Cp(minor)
           \/ a = Abi(IF threaded THEN "abi3t" ELSE "abi3") /\ python.lang = "cp"

OneInterpreter ==
    step \notin {"unpack", "failed"} =>
        \E t \in WheelsOf("torch") : \E a \in t.tags.abis :
            /\ t.tags.abis = {a} /\ a.kind \in {"own", "own-t"}
            /\ \A w \in wheels : RunsOn(w.tags, a.minor, a.kind = "own-t")
================================================================================
