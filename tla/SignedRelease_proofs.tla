--------------------------- MODULE SignedRelease_proofs ---------------------------
(***************************************************************************)
(* Proofs about SignedRelease, for every set of cells and every number of  *)
(* attempts and of replaced artifacts.  IInv is inductive: its parts are   *)
(* preserved one after the other, each from itself and the parts before.   *)
(***************************************************************************)
EXTENDS SignedRelease, TLAPS

(* What can be published: payloads for some of the cells.                  *)
LEMMA PayloadsAre ==
  ASSUME NEW f PROVE f \in Payloads <=> \E D \in SUBSET Cells : f \in [D -> Signed \union {Foreign}]
BY DEF Payloads

(* One payload more, or another in a cell's place, is still publishable.   *)
LEMMA PayloadUpdate ==
  ASSUME NEW f \in Payloads, NEW c \in Cells, NEW s \in Signed \union {Foreign}
  PROVE  /\ [d \in DOMAIN f \union {c} |-> IF d = c THEN s ELSE f[d]] \in Payloads
         /\ [f EXCEPT ![c] = s] \in Payloads
<1>1. PICK D \in SUBSET Cells : f \in [D -> Signed \union {Foreign}]
  BY PayloadsAre
<1>2. [d \in DOMAIN f \union {c} |-> IF d = c THEN s ELSE f[d]] \in [D \union {c} -> Signed \union {Foreign}]
  BY <1>1
<1>3. [f EXCEPT ![c] = s] \in [D -> Signed \union {Foreign}]
  BY <1>1
<1>4. D \union {c} \in SUBSET Cells
  BY <1>1
<1> QED
  BY <1>1, <1>2, <1>3, <1>4, PayloadsAre

(* No payload at all is one of the things got can hold.                    *)
LEMMA NothingPublishable == NoCells \in Payloads
<1>1. NoCells \in [{} -> Signed \union {Foreign}]
  BY DEF NoCells
<1> QED
  BY <1>1, PayloadsAre

(* The types hold before anything ran.                                     *)
LEMMA TypeInit == Init => TypeOK
<1> USE ReleaseAssumption DEF UnsignedArtifacts, SignedArtifacts, Reports, Handovers, Pages
<1> SUFFICES ASSUME Init PROVE TypeOK
  OBVIOUS
<1>1. NoCells \in Payloads
  BY NothingPublishable
<1> QED
  BY <1>1 DEF Init, TypeOK, Attempts, NotRun, Nothing, NoCells, Results

(* Leaving every cell's result alone or resetting some keeps it a result.  *)
LEMMA ResetType ==
  ASSUME NEW T, NEW f \in [Cells -> T], NEW S, NEW v \in T
  PROVE  Reset(f, S, v) \in [Cells -> T]
BY DEF Reset

(* A re-run keeps the types.                                               *)
LEMMA RerunType ==
  ASSUME TypeOK,
         NEW builds, NEW fromResolve \in BOOLEAN, NEW signs, NEW validates, NEW fromRelease \in BOOLEAN,
         RerunFrom(builds, fromResolve, signs, validates, fromRelease)
  PROVE  TypeOK'
<1> USE ReleaseAssumption DEF UnsignedArtifacts, SignedArtifacts, Reports, Handovers, Pages
<1>0. NoCells \in Payloads
  BY NothingPublishable
<1>1. attempt' \in Attempts
  BY DEF RerunFrom, AttemptOver, TypeOK, Attempts
<1>2. build' \in [Cells -> Results] /\ sign' \in [Cells -> Results] /\ validate' \in [Cells -> Results]
  BY ResetType DEF RerunFrom, TypeOK, Results
<1>3. handed' \in [Cells -> Handovers \union {None}]
  BY ResetType DEF RerunFrom, TypeOK
<1>4. DOMAIN cells' \subseteq Cells
      /\ \A c \in DOMAIN cells' : cells'[c] \in [id : Nat, files : Built \union {Foreign, None}]
  BY DEF RerunFrom, TypeOK, NoCells
<1>5. got' \in Payloads /\ resolve' \in Results /\ release' \in Results
  BY <1>0 DEF RerunFrom, TypeOK, Results
<1> QED
  BY <1>1, <1>2, <1>3, <1>4, <1>5 DEF RerunFrom, TypeOK, artifacts

(* One more asset on the draft.                                            *)
LEMMA UploadedPage ==
  ASSUME TypeOK, PageInv, NEW c \in Cells, UploadAsset(c)
  PROVE  page \in Pages /\ page' \in Pages
<1>1. page \in Pages
  BY DEF UploadAsset, Present, TypeOK
<1>2. got[c] \in Signed \union {Foreign}
  BY PayloadsAre DEF UploadAsset, TypeOK
<1>3. [d \in DOMAIN page.assets \union {c} |-> IF d = c THEN got[c] ELSE page.assets[d]] \in Payloads
  BY <1>1, <1>2, PayloadUpdate DEF Pages
<1> QED
  BY <1>1, <1>3 DEF UploadAsset, Pages

(* A maintainer replaces an asset of a release that is not locked.         *)
LEMMA EditedPage ==
  ASSUME TypeOK, NEW c \in Cells, EditRelease(c)
  PROVE  page \in Pages /\ page' \in Pages
<1>1. page \in Pages
  BY DEF EditRelease, Present, TypeOK
<1>2. [page.assets EXCEPT ![c] = Foreign] \in Payloads
  BY <1>1, PayloadUpdate DEF Pages
<1> QED
  BY <1>1, <1>2 DEF EditRelease, Pages

(* Every step keeps the types.                                             *)
LEMMA TypeStep == TypeOK /\ OrderInv /\ PageInv /\ [Next]_vars => TypeOK'
<1> USE ReleaseAssumption DEF UnsignedArtifacts, SignedArtifacts, Reports, Handovers, Pages
<1> SUFFICES ASSUME TypeOK, OrderInv, PageInv, [Next]_vars PROVE TypeOK'
  OBVIOUS
<1>0. /\ attempt \in Attempts
      /\ \A c \in Cells : <<c, attempt>> \in Built
  BY DEF TypeOK, Built
<1>1. ASSUME NEW c \in Cells, Build(c) PROVE TypeOK'
  <2>1. PICK r \in {"success", "failure"}, uploaded \in BOOLEAN :
           /\ build' = [build EXCEPT ![c] = r]
           /\ IF uploaded
                THEN /\ unsigned' = [unsigned EXCEPT ![c] =
                          [id |-> nextId, during |-> attempt, content |-> <<c, attempt>>]]
                     /\ nextId' = nextId + 1
                ELSE UNCHANGED <<unsigned, nextId>>
    BY <1>1 DEF Build
  <2>2. build' \in [Cells -> Results]
    BY <2>1 DEF TypeOK, Results
  <2>3. unsigned' \in [Cells -> UnsignedArtifacts \union {None}]
        /\ nextId' \in Nat
    BY <1>0, <2>1 DEF TypeOK, Attempts
  <2>4. builtIn' \in [Cells -> 0..MaxAttempts]
    BY <1>0, <1>1 DEF Build, TypeOK, Attempts
  <2> QED
    BY <1>1, <2>2, <2>3, <2>4 DEF Build, TypeOK, publishing
<1>2. ASSUME NEW c \in Cells, HashUpload(c) PROVE TypeOK'
  <2>1. CASE Downloadable(unsigned, c, cells[c].id)
    <3>1. unsigned[c].content \in Built \union {Foreign}
      BY <2>1 DEF TypeOK, Downloadable
    <3>2. c \in DOMAIN cells /\ cells' = [cells EXCEPT ![c].files = unsigned[c].content]
      BY <1>2, <2>1 DEF HashUpload
    <3>3. DOMAIN cells' = DOMAIN cells
      BY <3>2
    <3>4. ASSUME NEW d \in DOMAIN cells
          PROVE  cells'[d] \in [id : Nat, files : Built \union {Foreign, None}]
      <4>1. cells[d] \in [id : Nat, files : Built \union {Foreign, None}]
        BY <3>4 DEF TypeOK
      <4>2. cells'[d] = IF d = c THEN [cells[d] EXCEPT !.files = unsigned[c].content] ELSE cells[d]
        BY <3>2, <3>4
      <4> QED
        BY <3>1, <4>1, <4>2
    <3> QED
      BY <1>2, <2>1, <3>3, <3>4 DEF HashUpload, TypeOK, publishing, artifacts
  <2>2. CASE ~Downloadable(unsigned, c, cells[c].id)
    BY <1>2, <2>2 DEF HashUpload, Fail, TypeOK, NoCells, Results, publishing, artifacts
  <2> QED
    BY <2>1, <2>2
<1>3. ASSUME NEW c \in Cells, SignFiles(c) PROVE TypeOK'
  <2>1. [cell |-> c, of |-> unsigned[c].content, in |-> attempt] \in Signed
    BY <1>0, <1>3 DEF SignFiles, Unaltered, Downloadable, TypeOK, Signed
  <2> QED
    BY <1>3, <2>1 DEF SignFiles, TypeOK, publishing, artifacts
<1>4. ASSUME NEW c \in Cells, UploadSigned(c) PROVE TypeOK'
  <2>1. signing[c] \in Signed
    BY <1>4 DEF UploadSigned, TypeOK
  <2>2. /\ signed' \in [Cells -> SignedArtifacts \union {None}]
        /\ handed' \in [Cells -> Handovers \union {None}]
        /\ signing' \in [Cells -> Signed \union {None}]
        /\ nextId' \in Nat
    BY <1>4, <2>1 DEF UploadSigned, TypeOK
  <2>3. sign' \in [Cells -> Results]
    BY <1>4 DEF UploadSigned, TypeOK, Results
  <2> QED
    BY <1>4, <2>2, <2>3 DEF UploadSigned, TypeOK, publishing
<1>5. ASSUME NEW c \in Cells, SignFails(c) PROVE TypeOK'
  BY <1>5 DEF SignFails, TypeOK, Results, publishing, artifacts
<1>6. ASSUME NEW c \in Cells, Validate(c) PROVE TypeOK'
  <2>1. signed[c].content \in Signed
    BY <1>6 DEF Validate, Unaltered, Downloadable, TypeOK, OrderInv
  <2>2. PICK passed \in BOOLEAN, r \in {"success", "failure"} :
          /\ report' = [report EXCEPT ![c] =
               [id |-> nextId, passed |-> passed, of |-> signed[c].content]]
          /\ validated' = IF passed THEN validated \union {signed[c].content} ELSE validated
          /\ validate' = [validate EXCEPT ![c] = r]
    BY <1>6 DEF Validate
  <2>3. report' \in [Cells -> Reports \union {None}]
    <3>1. [id |-> nextId, passed |-> passed, of |-> signed[c].content]
            \in Reports
      BY <2>1 DEF TypeOK
    <3> QED
      BY <2>2, <3>1 DEF TypeOK
  <2>4. validated' \subseteq Signed /\ validate' \in [Cells -> Results] /\ nextId' \in Nat
    BY <1>6, <2>1, <2>2 DEF Validate, TypeOK, Results
  <2> QED
    BY <1>6, <2>3, <2>4 DEF Validate, TypeOK, publishing
<1>7. ASSUME NEW c \in Cells, ValidateFails(c) PROVE TypeOK'
  BY <1>7 DEF ValidateFails, TypeOK, Results, publishing, artifacts
<1>8. ASSUME NEW c \in Cells, UploadAsset(c) PROVE TypeOK'
  BY <1>8, UploadedPage DEF UploadAsset, TypeOK, jobs, artifacts
<1>9. ASSUME NEW c \in Cells, EditRelease(c) PROVE TypeOK'
  BY <1>9, EditedPage DEF EditRelease, TypeOK, jobs, artifacts
<1>10. ASSUME NEW c \in Cells, AnotherJobUploads(c) PROVE TypeOK'
  <2>1. nextId' \in Nat /\ replaced' \in 0..MaxReplaced
    BY <1>10 DEF AnotherJobUploads, Replaces, TypeOK
  <2>2. CASE Replaces(unsigned, c, [id |-> nextId, during |-> 0, content |-> Foreign])
             /\ UNCHANGED <<signed, report>>
    BY <1>10, <2>1, <2>2 DEF AnotherJobUploads, Replaces, TypeOK, jobs, publishing
  <2>3. CASE (\E s \in {t \in attested : t.cell = c} \union {Foreign} :
                Replaces(signed, c, [id |-> nextId, content |-> s]))
             /\ UNCHANGED <<unsigned, report>>
    BY <1>10, <2>1, <2>3 DEF AnotherJobUploads, Replaces, TypeOK, jobs, publishing
  <2>4. CASE Replaces(report, c, None) /\ UNCHANGED <<unsigned, signed>>
    BY <1>10, <2>1, <2>4 DEF AnotherJobUploads, Replaces, TypeOK, jobs, publishing
  <2>5. CASE (\E s \in {t \in attested : t.cell = c} :
                Replaces(report, c, [id |-> nextId, passed |-> s \in validated, of |-> s]))
             /\ UNCHANGED <<unsigned, signed>>
    <3>1. PICK s \in Signed :
            report' = [report EXCEPT ![c] = [id |-> nextId, passed |-> s \in validated, of |-> s]]
      BY <2>5 DEF Replaces, TypeOK
    <3>2. [id |-> nextId, passed |-> s \in validated, of |-> s] \in Reports
      BY DEF TypeOK
    <3>3. report' \in [Cells -> Reports \union {None}]
      BY <3>1, <3>2 DEF TypeOK
    <3> QED
      BY <1>10, <2>1, <2>5, <3>3 DEF AnotherJobUploads, TypeOK, jobs, publishing
  <2> QED
    BY <1>10, <2>2, <2>3, <2>4, <2>5 DEF AnotherJobUploads
<1>11. ASSUME Resolve PROVE TypeOK'
  <2>1. CASE cells' = [c \in Eligible |-> Unhashed(unsigned[c])] /\ UNCHANGED resolve
    <3>1. \A c \in Eligible : unsigned[c] \in UnsignedArtifacts
      BY DEF Eligible, TypeOK
    <3> QED
      BY <1>11, <2>1, <3>1 DEF Resolve, Eligible, Unhashed, TypeOK, publishing, artifacts
  <2>2. CASE Fail
    BY <1>11, <2>2 DEF Resolve, Fail, NoCells, TypeOK, Results, publishing, artifacts
  <2> QED
    BY <1>11, <2>1, <2>2 DEF Resolve
<1>12. ASSUME Resolved \/ ResolveLost PROVE TypeOK'
  BY <1>12 DEF Resolved, ResolveLost, Fail, NoCells, TypeOK, Results, publishing, artifacts
<1>13. ASSUME SkipRelease \/ CheckEvidence \/ ReleaseLost PROVE TypeOK'
  BY <1>13 DEF SkipRelease, CheckEvidence, ReleaseLost, ReleaseFails, TypeOK, Results, jobs, artifacts
<1>14. ASSUME DownloadSigned PROVE TypeOK'
  <2>1. got' \in [{d \in Cells : signed[d] # None} -> Signed \union {Foreign}]
    BY <1>14 DEF DownloadSigned, TypeOK
  <2>2. got' \in Payloads
    BY <2>1, PayloadsAre
  <2> QED
    BY <1>14, <2>2 DEF DownloadSigned, TypeOK, jobs, artifacts
<1>15. ASSUME CreateDraft \/ PublishDraft PROVE TypeOK'
  <2>1. CASE CreateDraft
    <3>1. NoCells \in Payloads
      BY NothingPublishable
    <3> QED
      BY <2>1, <3>1 DEF CreateDraft, TypeOK, jobs, artifacts
  <2>2. CASE PublishDraft
    <3>1. page \in Pages
      BY <2>2 DEF PublishDraft, Present, TypeOK
    <3> QED
      BY <2>2, <3>1 DEF PublishDraft, TypeOK, jobs, artifacts
  <2> QED
    BY <1>15, <2>1, <2>2
<1>16. ASSUME Verify PROVE TypeOK'
  BY <1>16 DEF Verify, ReleaseFails, TypeOK, Results, jobs, artifacts
<1>17. ASSUME RerunFailed \/ RerunAll PROVE TypeOK'
  BY <1>17, RerunType DEF RerunFailed, RerunAll
<1>18. ASSUME UNCHANGED vars PROVE TypeOK'
  BY <1>18 DEF vars, TypeOK
<1>19. ASSUME DeleteRelease PROVE TypeOK'
  BY <1>19 DEF DeleteRelease, TypeOK, jobs, artifacts
<1> QED
  BY <1>1, <1>2, <1>3, <1>4, <1>5, <1>6, <1>7, <1>8, <1>9, <1>10, <1>11, <1>12, <1>13, <1>14, <1>15,
     <1>16, <1>17, <1>18, <1>19 DEF Next, Pipeline, Interference
(* Nothing is reported before the release is published for good, and what  *)
(* is reported is what it serves.                                          *)
LEMMA PageStep == TypeOK /\ PageInv /\ [Next]_vars => PageInv'
<1> SUFFICES ASSUME TypeOK, PageInv, [Next]_vars PROVE PageInv'
  OBVIOUS
<1> USE ReleaseAssumption
<1>1. ASSUME UNCHANGED <<at, page, reports>> PROVE PageInv'
  BY <1>1 DEF PageInv, Present
<1>2. ASSUME NEW c \in Cells,
             Build(c) \/ HashUpload(c) \/ SignFiles(c) \/ UploadSigned(c) \/ SignFails(c)
             \/ Validate(c) \/ ValidateFails(c) \/ AnotherJobUploads(c)
      PROVE PageInv'
  BY <1>1, <1>2 DEF Build, HashUpload, SignFiles, UploadSigned, SignFails, Validate, ValidateFails,
                    AnotherJobUploads, publishing
<1>3. ASSUME Resolve \/ Resolved \/ ResolveLost \/ SkipRelease \/ RerunFailed \/ RerunAll
      PROVE PageInv'
  BY <1>1, <1>3 DEF Resolve, Resolved, ResolveLost, SkipRelease, RerunFailed, RerunAll, RerunFrom, publishing
<1>4. ASSUME DownloadSigned \/ CheckEvidence \/ ReleaseLost PROVE PageInv'
  BY <1>4 DEF DownloadSigned, CheckEvidence, ReleaseLost, ReleaseFails, Present, PageInv
<1>5. ASSUME CreateDraft PROVE PageInv'
  <2>1. page' \in Pages /\ page'.draft /\ ~page'.immutable
    BY <1>5, NothingPublishable DEF CreateDraft, Pages
  <2>2. reports' = {} /\ at' = "upload"
    BY <1>5 DEF CreateDraft, PageInv
  <2> QED
    BY <2>1, <2>2 DEF Present, PageInv
<1>6. ASSUME NEW c \in Cells, UploadAsset(c) PROVE PageInv'
  <2>1. page \in Pages /\ page.draft /\ ~page.immutable /\ page' \in Pages
    BY <1>6, UploadedPage DEF UploadAsset, Present, PageInv
  <2>2. page'.draft /\ ~page'.immutable /\ reports' = {} /\ at' = "upload"
    BY <1>6, <2>1 DEF UploadAsset, PageInv, Pages
  <2> QED
    BY <2>1, <2>2 DEF Present, PageInv
<1>7. ASSUME PublishDraft PROVE PageInv'
  <2>1. page \in Pages /\ page.draft /\ ~page.immutable
    BY <1>7 DEF PublishDraft, Present, PageInv, TypeOK
  <2>2. page' \in Pages /\ ~page'.draft /\ reports' = {} /\ at' = "verify"
    BY <1>7, <2>1 DEF PublishDraft, PageInv, Pages
  <2> QED
    BY <2>2 DEF Present, PageInv
<1>8. ASSUME Verify PROVE PageInv'
  <2>1. CASE Verified
    <3>1. page' = page /\ at' = "rest" /\ reports' = reports \union {got}
      BY <1>8, <2>1 DEF Verify
    <3>2. page # None /\ page # Deleted /\ page.immutable /\ page.assets = got
      BY <2>1 DEF Verified, Present
    <3>3. \A r \in reports' : r = got
      BY <3>1, <3>2 DEF PageInv
    <3> QED
      BY <3>1, <3>2, <3>3 DEF PageInv, Present
  <2>2. CASE ~Verified
    BY <1>8, <2>2 DEF Verify, ReleaseFails, PageInv, Present
  <2> QED
    BY <2>1, <2>2
<1>9. ASSUME NEW c \in Cells, EditRelease(c) PROVE PageInv'
  <2>1. page \in Pages /\ ~page.immutable /\ page' \in Pages
    BY <1>9, EditedPage DEF EditRelease
  <2>2. page'.draft = page.draft /\ ~page'.immutable /\ reports' = {} /\ at' = at
    BY <1>9, <2>1 DEF EditRelease, PageInv, Pages
  <2>3. at # "create"
    BY <1>9 DEF EditRelease, PageInv
  <2>4. at = "upload" => page.draft
    BY <2>1 DEF PageInv
  <2> QED
    BY <2>1, <2>2, <2>3, <2>4 DEF PageInv, Present
<1>10. ASSUME UNCHANGED vars PROVE PageInv'
  BY <1>1, <1>10 DEF vars
<1>11. ASSUME DeleteRelease PROVE PageInv'
  <2>1. page' = (IF page.immutable THEN Deleted ELSE None) /\ at' = at /\ reports' = reports
    BY <1>11 DEF DeleteRelease
  <2>2. at = "upload" => page' = None
    BY <1>11, <2>1 DEF DeleteRelease, Present, PageInv
  <2>3. \A r \in reports' : page' = Deleted
    BY <1>11, <2>1 DEF DeleteRelease, Present, PageInv
  <2> QED
    BY <2>1, <2>2, <2>3 DEF PageInv, Present
<1> QED
  BY <1>2, <1>3, <1>4, <1>5, <1>6, <1>7, <1>8, <1>9, <1>10, <1>11 DEF Next, Pipeline, Interference
(* A re-run keeps only results whose needs keep theirs.                    *)
LEMMA RerunOrder ==
  ASSUME TypeOK, OrderInv,
         NEW builds, NEW fromResolve \in BOOLEAN, NEW signs, NEW validates, NEW fromRelease \in BOOLEAN,
         fromResolve => fromRelease,
         RerunFrom(builds, fromResolve, signs, validates, fromRelease)
  PROVE  OrderInv'
<1>1. at' = "rest" /\ signed' = signed
  BY DEF RerunFrom, AttemptOver, artifacts
<1>2. \A c \in Cells : validate'[c] = "success" => signed'[c] # None
  BY <1>1 DEF RerunFrom, Reset, OrderInv
<1>3. \A c \in Cells : sign'[c] = "success" => handed'[c] # None
  BY DEF RerunFrom, Reset, OrderInv
<1>4. release' = "success" => resolve' = "success" /\ cells' = cells /\ got' = got /\ release = "success"
  BY DEF RerunFrom, OrderInv
<1> QED
  BY <1>1, <1>2, <1>3, <1>4 DEF OrderInv, WholeSetOrNothing

(* A job has run only after the jobs it needs, on what they handed on.     *)
LEMMA OrderStep == TypeOK /\ OrderInv /\ [Next]_vars => OrderInv'
<1> USE ReleaseAssumption
<1> SUFFICES ASSUME TypeOK, OrderInv, [Next]_vars PROVE OrderInv'
  OBVIOUS
<1>1. ASSUME UNCHANGED <<resolve, cells, sign, handed, validate, release, at, got, signed>> PROVE OrderInv'
  BY <1>1 DEF OrderInv, WholeSetOrNothing
<1>2. ASSUME NEW c \in Cells, Build(c) \/ SignFiles(c) \/ UploadAsset(c) \/ EditRelease(c) PROVE OrderInv'
  BY <1>1, <1>2 DEF Build, SignFiles, UploadAsset, EditRelease, jobs, publishing, artifacts
<1>3. ASSUME NEW c \in Cells, HashUpload(c) PROVE OrderInv'
  BY <1>3 DEF HashUpload, Fail, OrderInv, WholeSetOrNothing, publishing, artifacts
<1>4. ASSUME NEW c \in Cells, UploadSigned(c) PROVE OrderInv'
  <2>1. signing[c] \in Signed
    BY <1>4 DEF UploadSigned, TypeOK
  <2>2. [id |-> nextId, content |-> signing[c]] \in SignedArtifacts
        /\ [id |-> nextId, files |-> signing[c]] \in Handovers
    BY <2>1 DEF TypeOK, SignedArtifacts, Handovers
  <2>3. signed' = [signed EXCEPT ![c] = [id |-> nextId, content |-> signing[c]]]
        /\ handed' = [handed EXCEPT ![c] = [id |-> nextId, files |-> signing[c]]]
    BY <1>4 DEF UploadSigned
  <2>4. signed'[c] # None /\ handed'[c] # None
    BY <2>2, <2>3 DEF TypeOK
  <2> QED
    BY <1>4, <2>4 DEF UploadSigned, OrderInv, WholeSetOrNothing, TypeOK, publishing
<1>5. ASSUME NEW c \in Cells, SignFails(c) \/ ValidateFails(c) PROVE OrderInv'
  BY <1>5 DEF SignFails, ValidateFails, OrderInv, WholeSetOrNothing, TypeOK, publishing, artifacts
<1>6. ASSUME NEW c \in Cells, Validate(c) PROVE OrderInv'
  BY <1>6 DEF Validate, Unaltered, Downloadable, OrderInv, WholeSetOrNothing, TypeOK, publishing
<1>7. ASSUME NEW c \in Cells, AnotherJobUploads(c) PROVE OrderInv'
  <2>3. \A d \in Cells : signed[d] # None => signed'[d] # None
    <3>1. CASE UNCHANGED signed
      BY <3>1
    <3>2. CASE \E t \in {u \in attested : u.cell = c} \union {Foreign} :
                 Replaces(signed, c, [id |-> nextId, content |-> t])
      <4>1. PICK t \in Signed \union {Foreign} : signed' = [signed EXCEPT ![c] = [id |-> nextId, content |-> t]]
        BY <3>2 DEF Replaces, TypeOK
      <4>2. [id |-> nextId, content |-> t] \in SignedArtifacts
        BY DEF TypeOK, SignedArtifacts
      <4> QED
        BY <4>1, <4>2 DEF TypeOK
    <3> QED
      BY <1>7, <3>1, <3>2 DEF AnotherJobUploads
  <2> QED
    BY <1>7, <2>3 DEF AnotherJobUploads, OrderInv, WholeSetOrNothing, jobs, publishing
<1>8. ASSUME Resolve \/ Resolved \/ ResolveLost PROVE OrderInv'
  BY <1>8 DEF Resolve, Resolved, ResolveLost, Fail, OrderInv, WholeSetOrNothing, publishing, artifacts
<1>9. ASSUME SkipRelease \/ CheckEvidence \/ CreateDraft \/ PublishDraft \/ Verify \/ ReleaseLost PROVE OrderInv'
  BY <1>9 DEF SkipRelease, CheckEvidence, CreateDraft, PublishDraft, Verify, ReleaseLost, ReleaseFails,
              OrderInv, WholeSetOrNothing, jobs, artifacts
<1>10. ASSUME DownloadSigned PROVE OrderInv'
  BY <1>10 DEF DownloadSigned, SignResult, OrderInv, WholeSetOrNothing, TypeOK, jobs, artifacts
<1>11. ASSUME RerunAll PROVE OrderInv'
  BY <1>11, RerunOrder DEF RerunAll
<1>12. ASSUME RerunFailed PROVE OrderInv'
  <2> DEFINE builds == {c \in Cells : build[c] = "failure"}
             fromResolve == builds # {} \/ resolve = "failure"
             signs == IF fromResolve THEN Cells ELSE {c \in Cells : sign[c] = "failure"}
             validates == IF fromResolve THEN Cells ELSE signs \union {c \in Cells : validate[c] = "failure"}
             fromRelease == validates # {} \/ release # "success"
  <2>1. RerunFrom(builds, fromResolve, signs, validates, fromRelease)
    BY <1>12 DEF RerunFailed
  <2>2. builds # {} => validates # {}
    OBVIOUS
  <2>3. resolve = "failure" => release # "success"
    BY DEF OrderInv
  <2>4. fromResolve => fromRelease
    BY <2>2, <2>3
  <2>5. fromResolve \in BOOLEAN /\ fromRelease \in BOOLEAN
    OBVIOUS
  <2> HIDE DEF builds, fromResolve, signs, validates, fromRelease
  <2> QED
    BY <2>1, <2>4, <2>5, RerunOrder
<1>13. ASSUME UNCHANGED vars PROVE OrderInv'
  BY <1>1, <1>13 DEF vars
<1>14. ASSUME DeleteRelease PROVE OrderInv'
  BY <1>1, <1>14 DEF DeleteRelease, jobs, artifacts
<1> QED
  BY <1>2, <1>3, <1>4, <1>5, <1>6, <1>7, <1>8, <1>9, <1>10, <1>11, <1>12, <1>13, <1>14 DEF Next, Pipeline, Interference
(* A "passed" in a report stays true, and only what passed is published.   *)
LEMMA EvidenceStep ==
  TypeOK /\ OrderInv /\ ProvenanceInv /\ PageInv /\ EvidenceInv /\ [Next]_vars => EvidenceInv'
<1> USE ReleaseAssumption
<1> SUFFICES ASSUME TypeOK, OrderInv, ProvenanceInv, PageInv, EvidenceInv, [Next]_vars PROVE EvidenceInv'
  OBVIOUS
<1>1. ASSUME attested \subseteq attested', UNCHANGED <<validated, report, at, got, reports>> PROVE EvidenceInv'
  BY <1>1 DEF EvidenceInv, ReleasedWasValidated
<1>2. ASSUME NEW c \in Cells,
             Build(c) \/ HashUpload(c) \/ SignFiles(c) \/ UploadSigned(c) \/ SignFails(c) \/ ValidateFails(c)
             \/ UploadAsset(c) \/ EditRelease(c)
      PROVE EvidenceInv'
  BY <1>1, <1>2 DEF Build, HashUpload, SignFiles, UploadSigned, SignFails, ValidateFails, UploadAsset,
                    EditRelease, jobs, publishing, artifacts
<1>3. ASSUME Resolve \/ Resolved \/ ResolveLost \/ SkipRelease PROVE EvidenceInv'
  BY <1>1, <1>3 DEF Resolve, Resolved, ResolveLost, SkipRelease, publishing, artifacts
<1>4. ASSUME NEW c \in Cells, Validate(c) PROVE EvidenceInv'
  <2>1. handed[c] # None /\ handed[c].files \in attested /\ signed[c].content \in attested
    BY <1>4 DEF Validate, Unaltered, OrderInv, ProvenanceInv
  <2>2. PICK passed \in BOOLEAN, r \in {"success", "failure"} :
          /\ report' = [report EXCEPT ![c] =
               [id |-> nextId, passed |-> passed, of |-> signed[c].content]]
          /\ validated' = IF passed THEN validated \union {signed[c].content} ELSE validated
    BY <1>4 DEF Validate
  <2>3. validated \subseteq validated' /\ validated' \subseteq attested
    BY <2>1, <2>2 DEF EvidenceInv
  <2>4. \A d \in Cells : report'[d] # None /\ report'[d].passed => report'[d].of \in validated'
    BY <2>2, <2>3 DEF EvidenceInv, TypeOK
  <2>5. attested' = attested /\ UNCHANGED <<at, got, reports>>
    BY <1>4 DEF Validate, publishing
  <2> QED
    BY <2>3, <2>4, <2>5 DEF EvidenceInv, ReleasedWasValidated
<1>5. ASSUME NEW c \in Cells, AnotherJobUploads(c) PROVE EvidenceInv'
  <2>1. \A d \in Cells : report'[d] # None /\ report'[d].passed => report'[d].of \in validated
    <3>1. CASE UNCHANGED report
      BY <3>1 DEF EvidenceInv
    <3>2. CASE Replaces(report, c, None)
      BY <3>2 DEF EvidenceInv, TypeOK, Replaces
    <3>3. CASE \E s \in {t \in attested : t.cell = c} :
                 Replaces(report, c, [id |-> nextId, passed |-> s \in validated, of |-> s])
      <4>1. PICK s \in attested :
              report' = [report EXCEPT ![c] = [id |-> nextId, passed |-> s \in validated, of |-> s]]
        BY <3>3 DEF Replaces
      <4>2. report'[c] = [id |-> nextId, passed |-> s \in validated, of |-> s]
            /\ \A d \in Cells : d # c => report'[d] = report[d]
        BY <4>1 DEF TypeOK
      <4>5. report'[c].passed = (s \in validated) /\ report'[c].of = s
        BY <4>2
      <4>3. report'[c].passed => report'[c].of \in validated
        BY <4>5, Zenon
      <4>4. validated' = validated
        BY <1>5 DEF AnotherJobUploads
      <4> QED
        BY <4>2, <4>3, <4>4 DEF EvidenceInv
    <3> QED
      BY <1>5, <3>1, <3>2, <3>3 DEF AnotherJobUploads
  <2> QED
    BY <1>5, <2>1 DEF AnotherJobUploads, EvidenceInv, ReleasedWasValidated, jobs, publishing
<1>6. ASSUME DownloadSigned \/ CreateDraft \/ PublishDraft \/ ReleaseLost \/ RerunAll \/ RerunFailed PROVE EvidenceInv'
  BY <1>6 DEF DownloadSigned, CreateDraft, PublishDraft, ReleaseLost, ReleaseFails, RerunAll, RerunFailed, RerunFrom,
              AttemptOver, EvidenceInv, ReleasedWasValidated, jobs, artifacts
<1>7. ASSUME CheckEvidence PROVE EvidenceInv'
  <2>1. Evidenced => \A c \in DOMAIN got : c \in Cells /\ got[c] \in validated
    BY DEF Evidenced, ReportsOn, EvidenceInv
  <2> QED
    BY <1>7, <2>1 DEF CheckEvidence, ReleaseFails, EvidenceInv, ReleasedWasValidated, artifacts
<1>8. ASSUME Verify PROVE EvidenceInv'
  BY <1>8 DEF Verify, ReleaseFails, EvidenceInv, ReleasedWasValidated, artifacts
<1>9. ASSUME UNCHANGED vars PROVE EvidenceInv'
  BY <1>1, <1>9 DEF vars
<1>10. ASSUME DeleteRelease PROVE EvidenceInv'
  BY <1>1, <1>10 DEF DeleteRelease, artifacts
<1> QED
  BY <1>2, <1>3, <1>4, <1>5, <1>6, <1>7, <1>8, <1>9, <1>10 DEF Next, Pipeline, Interference
(* What is listed, signed and handed on is the cell's own build.           *)
LEMMA ProvenanceStep ==
  TypeOK /\ OrderInv /\ ProvenanceInv /\ [Next]_vars => ProvenanceInv'
<1> USE ReleaseAssumption
<1> SUFFICES ASSUME TypeOK, OrderInv, ProvenanceInv, [Next]_vars PROVE ProvenanceInv'
  OBVIOUS
<1>1. ASSUME UNCHANGED <<build, builtIn, unsigned, cells, attested, signing, handed>>, nextId' \in Nat, nextId <= nextId'
      PROVE ProvenanceInv'
  BY <1>1 DEF ProvenanceInv, SignedWasBuilt, Downloadable, TypeOK, UnsignedArtifacts
<1>2. ASSUME NEW c \in Cells, Build(c) PROVE ProvenanceInv'
  <2>1. UNCHANGED <<cells, attested, signing, handed>> /\ nextId \in Nat /\ nextId' \in Nat /\ nextId <= nextId'
        /\ builtIn' = [builtIn EXCEPT ![c] = attempt] /\ attempt \in Attempts /\ attempt # 0
    BY <1>2 DEF Build, TypeOK, Attempts
  <2>2. \A d \in Cells : build'[d] = "success" => builtIn'[d] # 0
    BY <1>2, <2>1 DEF Build, ProvenanceInv, TypeOK
  <2>3. CASE UNCHANGED <<unsigned, nextId>>
    BY <2>1, <2>2, <2>3 DEF ProvenanceInv, SignedWasBuilt, Downloadable
  <2>4. CASE /\ unsigned' = [unsigned EXCEPT ![c] =
                  [id |-> nextId, during |-> attempt, content |-> <<c, attempt>>]]
             /\ nextId' = nextId + 1
    <3>1. <<c, attempt>> \in OwnBuild(c)
      BY <2>1 DEF OwnBuild
    <3>2. unsigned'[c].id = nextId /\ unsigned'[c].content \in OwnBuild(c)
          /\ \A d \in Cells : d # c => unsigned'[d] = unsigned[d]
      BY <2>4, <3>1 DEF TypeOK
    <3>3. \A d \in Cells : unsigned[d] # None => unsigned[d].id \in Nat
      BY DEF TypeOK, UnsignedArtifacts
    <3>4. \A d \in Cells : unsigned'[d] # None =>
             unsigned'[d].id < nextId' /\ (unsigned'[d].content \in OwnBuild(d) \/ unsigned'[d].during = 0)
      BY <2>1, <2>4, <3>2, <3>3 DEF ProvenanceInv
    <3>5. \A d \in DOMAIN cells' : cells'[d].id < nextId' /\
             (Downloadable(unsigned, d, cells[d].id)' => unsigned'[d].content \in OwnBuild(d))
      BY <2>1, <2>4, <3>2 DEF ProvenanceInv, Downloadable, TypeOK
    <3> QED
      BY <2>1, <2>2, <3>4, <3>5 DEF ProvenanceInv, SignedWasBuilt, Downloadable
  <2> QED
    BY <1>2, <2>3, <2>4 DEF Build
<1>3. ASSUME NEW c \in Cells, HashUpload(c) PROVE ProvenanceInv'
  <2>1. UNCHANGED <<build, builtIn, unsigned, nextId, attested, signing, handed>>
    BY <1>3 DEF HashUpload, artifacts
  <2>2. DOMAIN cells' \subseteq DOMAIN cells /\ \A d \in DOMAIN cells' : cells'[d].id = cells[d].id
    <3>1. CASE Fail
      BY <3>1 DEF Fail, NoCells
    <3>2. CASE cells' = [cells EXCEPT ![c].files = unsigned[c].content]
      <4>1. DOMAIN cells' = DOMAIN cells
        BY <3>2
      <4>2. \A d \in DOMAIN cells : cells'[d] = IF d = c THEN [cells[d] EXCEPT !.files = unsigned[c].content]
                                                         ELSE cells[d]
        BY <3>2
      <4>3. \A d \in DOMAIN cells : cells[d] \in [id : Nat, files : Built \union {Foreign, None}]
        BY DEF TypeOK
      <4> QED
        BY <4>1, <4>2, <4>3
    <3> QED
      BY <1>3, <3>1, <3>2 DEF HashUpload
  <2> QED
    BY <2>1, <2>2 DEF ProvenanceInv, SignedWasBuilt, Downloadable
<1>4. ASSUME NEW c \in Cells, SignFiles(c) PROVE ProvenanceInv'
  <2> DEFINE s == [cell |-> c, of |-> unsigned[c].content, in |-> attempt]
  <2>1. UNCHANGED <<build, builtIn, unsigned, nextId, cells, handed>>
        /\ signing' = [signing EXCEPT ![c] = s] /\ attested' = attested \union {s}
    BY <1>4 DEF SignFiles, artifacts
  <2>2. s.of \in {s.cell} \X Attempts
    BY <1>4 DEF SignFiles, Listed, Unaltered, ProvenanceInv, OwnBuild
  <2> HIDE DEF s
  <2>3. SignedWasBuilt'
    BY <2>1, <2>2 DEF ProvenanceInv, SignedWasBuilt
  <2>4. \A d \in Cells : signing'[d] # None => signing'[d] \in attested'
    BY <2>1 DEF ProvenanceInv, TypeOK
  <2> QED
    BY <2>1, <2>3, <2>4 DEF ProvenanceInv, Downloadable
<1>5. ASSUME NEW c \in Cells, UploadSigned(c) PROVE ProvenanceInv'
  <2>1. UNCHANGED <<build, builtIn, unsigned, cells, attested>> /\ nextId \in Nat /\ nextId' = nextId + 1
        /\ signing' = [signing EXCEPT ![c] = None] /\ signing[c] # None
        /\ handed' = [handed EXCEPT ![c] = [id |-> nextId, files |-> signing[c]]]
    BY <1>5 DEF UploadSigned, TypeOK
  <2>2. \A d \in Cells : signing'[d] # None => signing'[d] \in attested
    BY <2>1 DEF ProvenanceInv, TypeOK
  <2>3. \A d \in Cells : handed'[d] # None => handed'[d].files \in attested
    BY <2>1 DEF ProvenanceInv, TypeOK
  <2>4. \A d \in Cells : unsigned[d] # None => unsigned[d].id < nextId'
    BY <2>1 DEF ProvenanceInv, TypeOK, UnsignedArtifacts
  <2>5. \A d \in DOMAIN cells : cells[d].id < nextId'
    BY <2>1 DEF ProvenanceInv, TypeOK
  <2> QED
    BY <2>1, <2>2, <2>3, <2>4, <2>5 DEF ProvenanceInv, SignedWasBuilt, Downloadable
<1>6. ASSUME NEW c \in Cells, SignFails(c) PROVE ProvenanceInv'
  BY <1>6 DEF SignFails, ProvenanceInv, SignedWasBuilt, Downloadable, TypeOK, artifacts
<1>7. ASSUME NEW c \in Cells, Validate(c) PROVE ProvenanceInv'
  BY <1>1, <1>7 DEF Validate, TypeOK, publishing
<1>8. ASSUME NEW c \in Cells, ValidateFails(c) \/ UploadAsset(c) \/ EditRelease(c) PROVE ProvenanceInv'
  BY <1>1, <1>8 DEF ValidateFails, UploadAsset, EditRelease, TypeOK, jobs, publishing, artifacts
<1>9. ASSUME NEW c \in Cells, AnotherJobUploads(c) PROVE ProvenanceInv'
  <2>1. UNCHANGED <<build, builtIn, cells, attested, signing, handed>> /\ nextId \in Nat /\ nextId' = nextId + 1
    BY <1>9 DEF AnotherJobUploads, Replaces, TypeOK, jobs
  <2>2. CASE UNCHANGED unsigned
    BY <1>1, <2>1, <2>2
  <2>3. CASE Replaces(unsigned, c, [id |-> nextId, during |-> 0, content |-> Foreign])
    <3>1. unsigned'[c].id = nextId /\ unsigned'[c].during = 0
          /\ \A d \in Cells : d # c => unsigned'[d] = unsigned[d]
      BY <2>3 DEF Replaces, TypeOK
    <3>2. \A d \in Cells : unsigned[d] # None => unsigned[d].id \in Nat
      BY DEF TypeOK, UnsignedArtifacts
    <3>3. \A d \in Cells : unsigned'[d] # None =>
             unsigned'[d].id < nextId' /\ (unsigned'[d].content \in OwnBuild(d) \/ unsigned'[d].during = 0)
      BY <2>1, <3>1, <3>2 DEF ProvenanceInv
    <3>4. \A d \in DOMAIN cells' : cells'[d].id < nextId' /\
             (Downloadable(unsigned, d, cells[d].id)' => unsigned'[d].content \in OwnBuild(d))
      BY <2>1, <3>1 DEF ProvenanceInv, Downloadable, TypeOK
    <3> QED
      BY <2>1, <3>3, <3>4 DEF ProvenanceInv, SignedWasBuilt, Downloadable
  <2> QED
    BY <1>9, <2>2, <2>3 DEF AnotherJobUploads
<1>10. ASSUME Resolve PROVE ProvenanceInv'
  <2>1. UNCHANGED <<build, builtIn, unsigned, nextId, attested, signing, handed>>
    BY <1>10 DEF Resolve, artifacts
  <2>2. CASE Fail
    BY <2>1, <2>2 DEF Fail, NoCells, ProvenanceInv, SignedWasBuilt, Downloadable
  <2>3. CASE (\A c \in Eligible : OwnUpload(c)) /\ cells' = [c \in Eligible |-> Unhashed(unsigned[c])]
    <3>1. \A c \in Eligible : c \in Cells /\ unsigned[c] # None /\ unsigned[c].content \in OwnBuild(c)
      BY <2>3 DEF Eligible, OwnUpload, ProvenanceInv
    <3>2. \A c \in DOMAIN cells' : cells'[c].id = unsigned[c].id /\ c \in Eligible
      BY <2>3 DEF Unhashed
    <3> QED
      BY <2>1, <3>1, <3>2 DEF ProvenanceInv, SignedWasBuilt, Downloadable
  <2> QED
    BY <1>10, <2>2, <2>3 DEF Resolve
<1>11. ASSUME Resolved \/ SkipRelease \/ DownloadSigned \/ CheckEvidence \/ CreateDraft \/ PublishDraft \/ Verify
              \/ ReleaseLost
       PROVE ProvenanceInv'
  <2>1. nextId \in Nat
    BY DEF TypeOK
  <2>2. UNCHANGED <<build, builtIn, unsigned, cells, attested, signing, handed, nextId>>
    BY <1>11 DEF Resolved, SkipRelease, DownloadSigned, CheckEvidence, CreateDraft, PublishDraft, Verify,
                 ReleaseLost, jobs, artifacts
  <2> QED
    BY <1>1, <2>1, <2>2
<1>12. ASSUME ResolveLost PROVE ProvenanceInv'
  BY <1>12 DEF ResolveLost, Fail, NoCells, ProvenanceInv, SignedWasBuilt, Downloadable, artifacts
<1>13. ASSUME NEW builds, NEW fromResolve \in BOOLEAN, NEW signs, NEW validates, NEW fromRelease \in BOOLEAN,
              RerunFrom(builds, fromResolve, signs, validates, fromRelease)
       PROVE ProvenanceInv'
  BY <1>13 DEF RerunFrom, Reset, NoCells, ProvenanceInv, SignedWasBuilt, Downloadable, artifacts
<1>14. ASSUME RerunAll \/ RerunFailed PROVE ProvenanceInv'
  BY <1>13, <1>14 DEF RerunAll, RerunFailed
<1>15. ASSUME UNCHANGED vars PROVE ProvenanceInv'
  BY <1>1, <1>15 DEF vars, TypeOK
<1>16. ASSUME DeleteRelease PROVE ProvenanceInv'
  BY <1>1, <1>16 DEF DeleteRelease, TypeOK, jobs, artifacts
<1> QED
  BY <1>2, <1>3, <1>4, <1>5, <1>6, <1>7, <1>8, <1>9, <1>10, <1>11, <1>12, <1>14, <1>15, <1>16 DEF Next, Pipeline, Interference
--------------------------------------------------------------------------------
(* Nothing is built, signed, reported or published in the initial state.   *)
LEMMA InvariantInit == Init => IInv
<1> USE ReleaseAssumption
<1> SUFFICES ASSUME Init PROVE IInv
  OBVIOUS
<1>1. TypeOK
  BY TypeInit
<1>2. ProvenanceInv /\ EvidenceInv
  BY DEF Init, ProvenanceInv, SignedWasBuilt, EvidenceInv, ReleasedWasValidated, NotRun, Nothing, NoCells
<1>3. PageInv /\ OrderInv
  BY DEF Init, PageInv, Present, OrderInv, WholeSetOrNothing, NotRun, Nothing, NoCells
<1> QED
  BY <1>1, <1>2, <1>3 DEF IInv

(* The inductive invariant holds in every reachable state.                 *)
THEOREM Invariance == Spec => []IInv
<1>1. Init => IInv
  BY InvariantInit
<1>2. IInv /\ [Next]_vars => IInv'
  BY TypeStep, OrderStep, ProvenanceStep, PageStep, EvidenceStep DEF IInv
<1> QED
  BY <1>1, <1>2, PTL DEF Spec

(* Every variable keeps its type: type correctness of SignedRelease.       *)
THEOREM TypeCorrect == Spec => []TypeOK
<1>1. IInv => TypeOK
  BY DEF IInv
<1> QED
  BY <1>1, Invariance, PTL

(* Only what a cell's own build job uploaded is ever signed.               *)
THEOREM SignsBuilt == Spec => []SignedWasBuilt
<1>1. IInv => SignedWasBuilt
  BY DEF IInv, ProvenanceInv
<1> QED
  BY <1>1, Invariance, PTL

(* Only what was signed in this run and passed validation is reported.     *)
THEOREM ReleasesValidated == Spec => []ReleasedWasValidated
<1>1. IInv => ReleasedWasValidated
  BY DEF IInv, EvidenceInv
<1> QED
  BY <1>1, Invariance, PTL

(* The bytes behind a reported release are never swapped: it serves them  *)
(* or, deleted as a whole, nothing more; two reports never differ.         *)
THEOREM ServesReported == Spec => []ReportedIsServed
<1>1. IInv => ReportedIsServed
  BY DEF IInv, TypeOK, Present, PageInv, ReportedIsServed
<1> QED
  BY <1>1, Invariance, PTL

(* A release is of every listed cell, or there is none.                    *)
THEOREM ReleasesWholeSet == Spec => []WholeSetOrNothing
<1>1. IInv => WholeSetOrNothing
  BY DEF IInv, OrderInv
<1> QED
  BY <1>1, Invariance, PTL
================================================================================
