--------------------------- MODULE GallerySyncProofs ---------------------------
(***************************************************************************)
(* The tables, the passes and their follow-ups are well-typed.  A file that *)
(* looks unchanged is: what a pass has read of a file, and may save much    *)
(* later, was true when its stamp was.  A pass that no other disturbs keeps *)
(* the images and completes the index: what it has not done yet is before   *)
(* it.  And where one use follows the other, whatever is not right of an    *)
(* image is still to be put right by someone.                               *)
(***************************************************************************)
EXTENDS MCGallerySync, WellFoundedInduction, FiniteSetTheorems, TLAPS

(* Rows are numbered, and so there is a first one. *)

\* A set of numbers has a least one (ORDER BY id LIMIT 1 finds a row if there
\* is one).
LEMMA LeastNat ==
    ASSUME NEW T, T \subseteq Nat, T # {}
    PROVE  \E x \in T : \A y \in T : x <= y
  <1>1. PICK x \in T : \A y \in T : ~ (<<y, x>> \in OpToRel(<, Nat))
    BY WFMin, NatLessThanWellFounded
  <1>2. \A y \in T : ~ (y < x)  BY <1>1 DEF OpToRel
  <1> QED  BY <1>2

LEMMA FirstChosen ==
    ASSUME NEW S, S \subseteq Row, S # {}
    PROVE  FirstOf(S) \in S /\ \A q \in S : FirstOf(S).id <= q.id
  <1> DEFINE T == {r.id : r \in S}
  <1>1. T \subseteq Nat /\ T # {}
    BY ConstantsOK DEF Row, Ids
  <1>2. PICK x \in T : \A y \in T : x <= y
    BY <1>1, LeastNat
  <1>3. PICK r \in S : r.id = x
    OBVIOUS
  <1>4. \A q \in S : r.id <= q.id
    BY <1>2, <1>3
  <1> QED  BY <1>4 DEF FirstOf

(* There are finitely many possible rows. *)

LEMMA RowsAreFinite == IsFiniteSet(Row)
  <1> DEFINE Columns == ((Ids \X Files) \X Contents) \X Contents
             Tuple == [r \in Row |-> <<<<<<r.id, r.file>>, r.content>>, r.stamp>>]
  <1>1. IsFiniteSet(Ids) /\ IsFiniteSet(Files) /\ IsFiniteSet(Contents)
    BY ConstantsOK, FS_Interval DEF Ids, Contents
  <1>2. IsFiniteSet(Ids \X Files)
    BY <1>1, FS_Product
  <1>3. IsFiniteSet((Ids \X Files) \X Contents)
    BY <1>1, <1>2, FS_Product
  <1>4. IsFiniteSet(Columns)
    BY <1>1, <1>3, FS_Product
  <1>5. Tuple \in [Row -> Columns]
    BY DEF Row
  <1>6. \A r, q \in Row : Tuple[r] = Tuple[q] => r = q
    BY DEF Row
  <1>7. Tuple \in Injection(Row, Columns)
    BY <1>5, <1>6 DEF Injection, IsInjective
  <1> QED  BY <1>4, <1>7, FS_Injection

-------------------------------------------------------------------------------
(* Statements *)

LEMMA ForgetTyped ==
    ASSUME NEW column \in [Ids -> Contents], NEW S
    PROVE  Forget(column, S) \in [Ids -> Contents]
  BY ConstantsOK DEF Forget, Contents

LEMMA CascadeTyped ==
    ASSUME DbOK, NEW S, DeleteCascade(S)
    PROVE  DbOK' /\ rows' \subseteq rows
  BY ForgetTyped DEF DbOK, DeleteCascade

LEMMA SaveTyped ==
    ASSUME DbOK, NEW S \in SUBSET Row, Save(S)
    PROVE  DbOK' /\ rows' \subseteq rows \cup S
  BY DEF DbOK, Save, Saved, children

\* The rows of one INSERT get successive ids, the last of which is in bounds.
LEMMA CreateTyped ==
    ASSUME DbOK, NEW S \in SUBSET Row, Create(S)
    PROVE  /\ DbOK'
           /\ Inserted(S) \subseteq Row
           /\ rows' \subseteq rows \cup Inserted(S)
  <1>1. IsFiniteSet(S) /\ Cardinality(S) \in Nat
    BY RowsAreFinite, FS_Subset, FS_CardinalityType
  <1>2. ASSUME NEW s \in S
        PROVE  nextId + Cardinality({t \in S : t.file < s.file}) \in Ids
    <2> DEFINE before == {t \in S : t.file < s.file}
    <2>1. before \subseteq S \ {s}
      <3>1. s.file \in Files
        BY DEF Row
      <3>2. s.file \in Nat
        BY <3>1, ConstantsOK
      <3>3. \A n \in Nat : ~(n < n)
        OBVIOUS
      <3> QED  BY <3>2, <3>3
    <2>2. IsFiniteSet(S \ {s}) /\ Cardinality(S \ {s}) = Cardinality(S) - 1
      BY <1>1, FS_RemoveElement
    <2>3. Cardinality(before) \in Nat /\ Cardinality(before) <= Cardinality(S) - 1
      BY <2>1, <2>2, FS_Subset, FS_CardinalityType
    <2> HIDE DEF before
    <2> QED  BY <1>1, <2>3, ConstantsOK DEF DbOK, Create, Ids, before
  <1>3. Inserted(S) \subseteq Row
    BY <1>2 DEF Inserted, Row
  <1>4. rows' \subseteq rows \cup Inserted(S)
    BY DEF Create
  <1>5. nextId' \in 1 .. MaxId + 1
    BY <1>1, ConstantsOK DEF Create, DbOK
  <1> QED  BY <1>3, <1>4, <1>5 DEF DbOK, Create, children

LEMMA WalkedTyped == FolderOK => Walked \subseteq Stat
  BY DEF FolderOK, Walked, Stat

LEMMA HashedTyped ==
    ASSUME FolderOK, NEW n \in Stat, NEW id \in Ids
    PROVE  Hashed(n, id) \in Row
  BY DEF FolderOK, Hashed, Stat, Row

-------------------------------------------------------------------------------
(* Types.  A verification has a row to look at, and a goroutine that       *)
(* follows up on an image has its file.                                    *)

Verifies == Scans("verify") => scan.page # {}
JobsHaveFiles == \A s \in Slots : jobs[s].pc # "none" => jobs[s].file \in Files
DeriverHasFile == deriver.pc # "none" => deriver.file \in Files

Typed == TypeOK /\ Verifies /\ JobsHaveFiles /\ DeriverHasFile

LEMMA InitTyped == Init => Typed
  BY ConstantsOK
  DEF Init, Typed, TypeOK, FolderOK, DbOK, ScanOK, SyncOK, JobsOK, DeriverOK, Verifies,
      JobsHaveFiles, DeriverHasFile, Follower, NotScanning, NotSyncing, NoJob, Contents, Ids,
      Scans

\* What a step of one goroutine leaves alone stays typed.

LEMMA ScanFrame ==
    ASSUME Typed, NEW record, Scanning(record), ScanOK', DbOK', Verifies'
    PROVE  Typed'
  BY DEF Typed, TypeOK, Scanning, folder, FolderOK, SyncOK, JobsOK, DeriverOK, JobsHaveFiles,
         DeriverHasFile

LEMMA SyncFrame ==
    ASSUME Typed, NEW record, Syncing(record), SyncOK', DbOK'
    PROVE  Typed'
  BY DEF Typed, TypeOK, Syncing, folder, FolderOK, ScanOK, JobsOK, DeriverOK, JobsHaveFiles,
         DeriverHasFile, Verifies, Scans

LEMMA JobTyped ==
    ASSUME NEW pc, NEW e, e.id \in Ids, e.file \in Files
    PROVE  Job(pc, e) \in Follower({pc}) /\ Job(pc, e).file \in Files
  <1>1. 0 \in Contents
    BY ConstantsOK DEF Contents
  <1> QED  BY <1>1 DEF Job, Follower

LEMMA ScanStepTyped ==
    ASSUME Typed, ScanStep
    PROVE  Typed'
  <1> USE DEF Typed, TypeOK
  <1>1. ASSUME UNCHANGED db  PROVE DbOK'
    BY <1>1 DEF db, children, DbOK
  <1>2. CASE GetGalleryDirs
    <2>1. ScanOK' /\ Verifies'
      BY <1>2 DEF GetGalleryDirs, Scanning, ScanOK, Verifies, Scans, FolderOK
    <2> QED  BY <1>1, <1>2, <2>1, ScanFrame DEF GetGalleryDirs
  <1>3. CASE CleanupPage
    <2>1. Page \subseteq Row
      BY DEF Page, DbOK
    <2>2. Index \in {"walk", "finish"}
      BY DEF Index
    <2> DEFINE more == Cardinality(Page) >= PageSize
    <2>3. more \in BOOLEAN
      OBVIOUS
    <2> HIDE DEF more
    <2>4. ScanOK' /\ Verifies'
      BY <1>3, <2>1, <2>2, <2>3 DEF CleanupPage, Scanning, ScanOK, Verifies, Scans, more
    <2> QED  BY <1>1, <1>3, <2>4, ScanFrame DEF CleanupPage
  <1>4. CASE CleanupRow
    <2> DEFINE r == FirstOf(scan.page)
    <2>1. r \in Row /\ r.id \in Ids
      BY <1>4, FirstChosen DEF CleanupRow, Verifies, ScanOK, Row
    <2> HIDE DEF r
    <2>2. ScanOK' /\ Verifies'
      BY <1>4, <2>1 DEF CleanupRow, Scanning, ScanOK, Verifies, Scans, Index, r
    <2>3. DbOK'
      BY <1>1, <1>4, CascadeTyped DEF CleanupRow
    <2> QED  BY <1>4, <2>2, <2>3, ScanFrame DEF CleanupRow
  <1>5. CASE WalkFolder
    <2>1. ScanOK' /\ Verifies'
      BY <1>5, WalkedTyped DEF WalkFolder, Scanning, ScanOK, Verifies, Scans
    <2> QED  BY <1>1, <1>5, <2>1, ScanFrame DEF WalkFolder
  <1>6. CASE LoadExisting
    <2> DEFINE existing == {r \in rows : r.file \in Known(scan.found)}
    <2>1. existing \subseteq Row /\ Differing(scan.found, existing) \subseteq Stat
      BY DEF DbOK, ScanOK, Differing
    <2> HIDE DEF existing
    <2>2. ScanOK' /\ Verifies'
      BY <1>6, <2>1 DEF LoadExisting, Scanning, ScanOK, Verifies, Scans, Hash, existing
    <2> QED  BY <1>1, <1>6, <2>2, ScanFrame DEF LoadExisting
  <1>7. CASE PurgeMissing
    <2>1. ScanOK' /\ Verifies'
      BY <1>7 DEF PurgeMissing, Scanning, ScanOK, Verifies, Scans, Hash
    <2> QED  BY <1>7, <2>1, CascadeTyped, ScanFrame DEF PurgeMissing
  <1>8. ASSUME NEW n \in scan.found, HashFile(n)  PROVE Typed'
    <2> DEFINE mine == {r \in scan.existing : r.file = n.file}
               images == {Hashed(n, r.id) : r \in mine}
    <2>1. n \in Stat /\ Hashed(n, 0) \in Row
      BY HashedTyped, ConstantsOK DEF ScanOK, Ids
    <2>2. images \subseteq Row
      BY <2>1, HashedTyped DEF ScanOK, Row
    <2> HIDE DEF images
    <2>3. ScanOK' /\ Verifies'
      BY <1>8, <2>1, <2>2 DEF HashFile, Scanning, ScanOK, Verifies, Scans, images
    <2> QED  BY <1>1, <1>8, <2>3, ScanFrame DEF HashFile
  <1>9. CASE CreateBatch
    <2>1. scan.creates \subseteq Row /\ DbOK' /\ Inserted(scan.creates) \subseteq Row
      BY <1>9, CreateTyped DEF CreateBatch, ScanOK
    <2> DEFINE events == {[id |-> r.id, file |-> r.file, created |-> TRUE, changed |-> FALSE]
                          : r \in Inserted(scan.creates)}
    <2>2. events \subseteq Event
      <3>1. ASSUME NEW r \in Row
            PROVE  [id |-> r.id, file |-> r.file, created |-> TRUE, changed |-> FALSE] \in Event
        BY DEF Event, Row
      <3> QED  BY <2>1, <3>1
    <2> HIDE DEF events
    <2>3. ScanOK' /\ Verifies'
      BY <1>9, <2>2 DEF CreateBatch, Scanning, ScanOK, Verifies, Scans, events
    <2> QED  BY <1>9, <2>1, <2>3, ScanFrame DEF CreateBatch
  <1>10. CASE ReadOldHashes
    <2>1. ScanOK' /\ Verifies'
      BY <1>10 DEF ReadOldHashes, Scanning, ScanOK, Verifies, Scans, DbOK
    <2> QED  BY <1>1, <1>10, <2>1, ScanFrame DEF ReadOldHashes
  <1>11. CASE SaveBatch
    <2> DEFINE events == {[id |-> u.id, file |-> u.file, created |-> FALSE,
                           changed |-> ~Unchanged(u)] : u \in scan.updates}
    <2>1. events \subseteq Event
      <3>1. ASSUME NEW u \in Row
            PROVE  [id |-> u.id, file |-> u.file, created |-> FALSE,
                    changed |-> ~Unchanged(u)] \in Event
        BY DEF Event, Row
      <3> QED  BY <3>1 DEF ScanOK
    <2> HIDE DEF events
    <2>2. ScanOK' /\ Verifies'
      BY <1>11, <2>1 DEF SaveBatch, Scanning, ScanOK, Verifies, Scans, events
    <2>3. DbOK'
      BY <1>11, SaveTyped DEF SaveBatch, ScanOK
    <2> QED  BY <1>11, <2>2, <2>3, ScanFrame DEF SaveBatch
  <1>12. ASSUME NEW e \in scan.events, EmitEvent(e)  PROVE Typed'
    <2>1. e \in Event /\ e.id \in Ids /\ e.file \in Files
      BY DEF ScanOK, Event
    <2>2. ScanOK' /\ Verifies'
      BY <1>12 DEF EmitEvent, ScanOK, Verifies, Scans
    <2>3. Job("extract", e) \in Follower({"extract"}) /\ Job("extract", e).file \in Files
      BY <2>1, JobTyped
    <2>4. Job("invalidate", e) \in Follower({"invalidate"}) /\ Job("invalidate", e).file \in Files
      BY <2>1, JobTyped
    <2>5. JobsOK' /\ JobsHaveFiles'
      <3> DEFINE x == Job("extract", e)
                 i == Job("invalidate", e)
      <3> HIDE DEF x, i
      <3>1. CASE \E s \in Slots : jobs' = [jobs EXCEPT ![s] = x]
        BY <2>3, <3>1 DEF JobsOK, JobsHaveFiles, Follower, x
      <3>2. CASE \E s, t \in Slots : s # t /\ jobs' = [jobs EXCEPT ![s] = x, ![t] = i]
        BY <2>3, <2>4, <3>2 DEF JobsOK, JobsHaveFiles, Follower, x, i
      <3>3. CASE UNCHANGED jobs
        BY <3>3 DEF JobsOK, JobsHaveFiles
      <3> QED  BY <1>12, <3>1, <3>2, <3>3 DEF EmitEvent, x, i
    <2> QED
      BY <1>1, <1>12, <2>2, <2>5
      DEF EmitEvent, folder, FolderOK, SyncOK, DeriverOK, DeriverHasFile
  <1>13. CASE AllEmitted
    <2>1. ScanOK' /\ Verifies'
      BY <1>13 DEF AllEmitted, Scanning, ScanOK, Verifies, Scans
    <2> QED  BY <1>1, <1>13, <2>1, ScanFrame DEF AllEmitted
  <1>14. CASE FinishScan
    <2>1. ScanOK' /\ Verifies'
      BY <1>14, ConstantsOK DEF FinishScan, Scanning, ScanOK, Verifies, Scans, NotScanning, Ids
    <2> QED  BY <1>1, <1>14, <2>1, ScanFrame DEF FinishScan
  <1> QED
    BY <1>2, <1>3, <1>4, <1>5, <1>6, <1>7, <1>8, <1>9, <1>10, <1>11, <1>12, <1>13, <1>14
    DEF ScanStep

LEMMA SyncStepTyped ==
    ASSUME Typed, SyncStep \/ SyncFails \/ StartSync \/ StopSync
    PROVE  Typed'
  <1> USE DEF Typed, TypeOK
  <1>1. ASSUME UNCHANGED db  PROVE DbOK'
    BY <1>1 DEF db, children, DbOK
  <1>2. 0 \in Contents
    BY ConstantsOK DEF Contents
  <1>3. [sync EXCEPT !.pc = "files", !.row = {}, !.changed = FALSE, !.content = 0]
          \in [pc : {"files"}, running : BOOLEAN, page : SUBSET Row, found : SUBSET Stat,
              existing : SUBSET Row, row : SUBSET Row, changed : BOOLEAN, content : Contents]
    BY <1>2 DEF SyncOK
  <1>4. CASE StartSync \/ StopSync
    <2>1. SyncOK'
      BY <1>4 DEF StartSync, StopSync, Syncing, SyncOK
    <2> QED  BY <1>1, <1>4, <2>1, SyncFrame DEF StartSync, StopSync
  <1>5. CASE SyncWalk
    <2>1. SyncOK'
      BY <1>5, WalkedTyped DEF SyncWalk, Syncing, SyncOK
    <2> QED  BY <1>1, <1>5, <2>1, SyncFrame DEF SyncWalk
  <1>6. CASE SyncLoad
    <2>1. SyncOK'
      BY <1>6 DEF SyncLoad, Syncing, SyncOK, DbOK
    <2> QED  BY <1>1, <1>6, <2>1, SyncFrame DEF SyncLoad
  <1>7. CASE SyncFile
    <2>1. PICK n \in sync.found : SyncSkips(n) \/ SyncHashesNew(n) \/ SyncHashesChanged(n)
      BY <1>7 DEF SyncFile
    <2>2. n \in Stat /\ Hashed(n, 0) \in Row
      BY HashedTyped, ConstantsOK DEF SyncOK, Ids
    <2>3. CASE SyncSkips(n)
      <3>1. SyncOK'
        BY <2>3 DEF SyncSkips, Syncing, Without, SyncOK
      <3> QED  BY <1>1, <1>7, <2>3, <3>1, SyncFrame DEF SyncSkips, SyncFile
    <2>4. CASE SyncHashesNew(n)
      <3>1. SyncOK'
        BY <2>2, <2>4 DEF SyncHashesNew, Syncing, Without, SyncOK
      <3> QED  BY <1>1, <1>7, <2>4, <3>1, SyncFrame DEF SyncHashesNew, SyncFile
    <2>5. CASE SyncHashesChanged(n)
      <3>1. PICK r \in sync.existing :
              Syncing([Without(n) EXCEPT !.pc = "save", !.row = {Hashed(n, r.id)},
                                         !.changed = r.content # disk[n.file].content])
        BY <2>5 DEF SyncHashesChanged
      <3>2. Hashed(n, r.id) \in Row
        BY <2>2, HashedTyped DEF SyncOK, Row
      <3>3. SyncOK'
        BY <3>1, <3>2 DEF Syncing, Without, SyncOK
      <3> QED  BY <1>1, <1>7, <3>1, <3>3, SyncFrame DEF SyncFile
    <2> QED  BY <2>1, <2>3, <2>4, <2>5
  <1>8. CASE SyncCreates
    <2>1. sync.row \subseteq Row /\ DbOK' /\ Inserted(sync.row) \subseteq Row
      BY <1>8, CreateTyped DEF SyncCreates, SyncOK
    <2>2. SyncOK'
      BY <1>3, <1>8, <2>1 DEF SyncCreates, Syncing, NextFile, SyncOK
    <2> QED  BY <1>8, <2>1, <2>2, SyncFrame DEF SyncCreates
  <1>9. CASE SyncSaves
    <2>1. DbOK'
      BY <1>9, SaveTyped DEF SyncSaves, SyncOK
    <2>2. SyncOK'
      BY <1>3, <1>9 DEF SyncSaves, Syncing, NextFile, SyncOK
    <2> QED  BY <1>9, <2>1, <2>2, SyncFrame DEF SyncSaves
  <1>10. CASE SyncExtracts
    <2>1. PICK r \in sync.row :
            Syncing(IF Exists(r.file)
                    THEN [sync EXCEPT !.pc = "store", !.content = disk[r.file].content]
                    ELSE Extracted)
      BY <1>10 DEF SyncExtracts
    <2>2. disk[r.file].content \in Contents
      BY DEF FolderOK, SyncOK, Row
    <2>3. SyncOK'
      BY <1>3, <2>1, <2>2 DEF Syncing, Extracted, NextFile, SyncOK
    <2> QED  BY <1>1, <1>10, <2>1, <2>3, SyncFrame DEF SyncExtracts
  <1>11. CASE SyncFails
    <2>1. SyncOK'
      BY <1>3, <1>11 DEF SyncFails, Syncing, Extracted, NextFile, SyncOK
    <2> QED  BY <1>1, <1>11, <2>1, SyncFrame DEF SyncFails
  <1>12. CASE SyncStores
    <2>1. SyncOK'
      BY <1>3, <1>12 DEF SyncStores, Syncing, Extracted, NextFile, SyncOK
    <2>2. DbOK'
      BY <1>12 DEF SyncStores, SetMetadata, DbOK, SyncOK, Row
    <2> QED  BY <1>12, <2>1, <2>2, SyncFrame DEF SyncStores
  <1>13. CASE SyncInvalidates
    <2>1. SyncOK'
      BY <1>3, <1>13 DEF SyncInvalidates, Syncing, NextFile, SyncOK
    <2>2. DbOK'
      BY <1>2, <1>13 DEF SyncInvalidates, Invalidate, DbOK, SyncOK, Row
    <2> QED  BY <1>13, <2>1, <2>2, SyncFrame DEF SyncInvalidates
  <1>14. CASE SyncSweeps
    <2>1. SyncOK'
      BY <1>14 DEF SyncSweeps, Syncing, SyncOK, DbOK
    <2> QED  BY <1>1, <1>14, <2>1, SyncFrame DEF SyncSweeps
  <1>15. CASE SyncSweepsRow
    <2>1. SyncOK'
      BY <1>15 DEF SyncSweepsRow, Syncing, SyncOK
    <2>2. DbOK'
      BY <1>1, <1>15, CascadeTyped DEF SyncSweepsRow
    <2> QED  BY <1>15, <2>1, <2>2, SyncFrame DEF SyncSweepsRow
  <1>16. CASE SyncEnds
    <2>1. SyncOK'
      BY <1>16 DEF SyncEnds, Syncing, SyncOK
    <2> QED  BY <1>1, <1>16, <2>1, SyncFrame DEF SyncEnds
  <1> QED
    BY <1>4, <1>5, <1>6, <1>7, <1>8, <1>9, <1>10, <1>11, <1>12, <1>13, <1>14, <1>15, <1>16
    DEF SyncStep

LEMMA JobFrame ==
    ASSUME Typed, NEW s \in Slots, NEW job, Working(s, job), DbOK',
           job \in Follower({"none", "extract", "store", "invalidate"}),
           job.pc # "none" => job.file \in Files
    PROVE  Typed'
  <1>1. JobsOK' /\ JobsHaveFiles'
    BY DEF Typed, TypeOK, Working, JobsOK, JobsHaveFiles, Follower
  <1> QED
    BY <1>1 DEF Typed, TypeOK, Working, folder, FolderOK, ScanOK, SyncOK, DeriverOK,
                DeriverHasFile, Verifies, Scans

LEMMA JobStepTyped ==
    ASSUME Typed, NEW s \in Slots, JobStep(s) \/ JobFails(s)
    PROVE  Typed'
  <1> USE DEF Typed, TypeOK
  <1>1. ASSUME UNCHANGED db  PROVE DbOK'
    BY <1>1 DEF db, children, DbOK
  <1>2. NoJob \in Follower({"none", "extract", "store", "invalidate"})
    BY ConstantsOK DEF NoJob, Follower, Ids, Contents
  <1>3. jobs[s].id \in Ids /\ jobs[s].content \in Contents
    BY DEF JobsOK, Follower
  <1>4. CASE JobExtracts(s)
    <2>1. jobs[s].file \in Files /\ disk[jobs[s].file].content \in Contents
      BY <1>4 DEF JobExtracts, JobsHaveFiles, FolderOK
    <2> DEFINE job == [jobs[s] EXCEPT !.pc = "store", !.content = disk[jobs[s].file].content]
    <2>2. /\ job \in Follower({"none", "extract", "store", "invalidate"})
          /\ job.file \in Files
      BY <2>1 DEF JobsOK, Follower
    <2> HIDE DEF job
    <2>3. Working(s, job) \/ Working(s, NoJob)
      BY <1>4 DEF JobExtracts, job
    <2> QED  BY <1>1, <1>2, <1>4, <2>2, <2>3, JobFrame DEF JobExtracts, NoJob
  <1>5. CASE JobFails(s)
    BY <1>1, <1>2, <1>5, JobFrame DEF JobFails, NoJob
  <1>6. CASE JobStores(s)
    <2>1. DbOK'
      BY <1>3, <1>6 DEF JobStores, SetMetadata, DbOK
    <2> QED  BY <1>2, <1>6, <2>1, JobFrame DEF JobStores, NoJob
  <1>7. CASE JobInvalidates(s)
    <2>1. DbOK'
      BY <1>3, <1>7, ConstantsOK DEF JobInvalidates, Invalidate, DbOK, Contents
    <2> QED  BY <1>2, <1>7, <2>1, JobFrame DEF JobInvalidates, NoJob
  <1> QED  BY <1>4, <1>5, <1>6, <1>7 DEF JobStep

LEMMA DeriverStepTyped ==
    ASSUME Typed, DeriverStep
    PROVE  Typed'
  <1> USE DEF Typed, TypeOK
  <1>1. ASSUME UNCHANGED db  PROVE DbOK'
    BY <1>1 DEF db, children, DbOK
  <1>2. ASSUME NEW record, Deriving(record), DbOK', DeriverOK', DeriverHasFile'
        PROVE  Typed'
    BY <1>2 DEF Deriving, folder, FolderOK, ScanOK, SyncOK, JobsOK, JobsHaveFiles, Verifies, Scans
  <1>3. NoJob \in Follower({"none", "read", "save"})
    BY ConstantsOK DEF NoJob, Follower, Ids, Contents
  <1>4. ASSUME NEW r \in rows, Take(r)  PROVE Typed'
    <2>1. r.id \in Ids /\ r.file \in Files
      BY DEF DbOK, Row
    <2>2. Job("read", r) \in Follower({"read"}) /\ Job("read", r).file \in Files
      BY <2>1, JobTyped
    <2>3. DeriverOK' /\ DeriverHasFile'
      BY <1>4, <2>2 DEF Take, Deriving, DeriverOK, DeriverHasFile, Follower
    <2> QED  BY <1>1, <1>2, <1>4, <2>3 DEF Take
  <1>5. CASE Read
    <2>1. deriver.file \in Files /\ disk[deriver.file].content \in Contents
      BY <1>5 DEF Read, DeriverHasFile, FolderOK
    <2>2. DeriverOK' /\ DeriverHasFile'
      BY <1>3, <1>5, <2>1 DEF Read, Deriving, DeriverOK, DeriverHasFile, Follower, NoJob
    <2> QED  BY <1>1, <1>2, <1>5, <2>2 DEF Read
  <1>6. CASE SaveDerived
    <2>1. DbOK'
      BY <1>6 DEF SaveDerived, DbOK, DeriverOK, Follower
    <2>2. DeriverOK' /\ DeriverHasFile'
      BY <1>3, <1>6 DEF SaveDerived, Deriving, DeriverOK, DeriverHasFile, NoJob
    <2> QED  BY <1>2, <1>6, <2>1, <2>2 DEF SaveDerived
  <1> QED  BY <1>4, <1>5, <1>6 DEF DeriverStep

LEMMA UserStepTyped ==
    ASSUME Typed, UserStep
    PROVE  Typed'
  <1> USE DEF Typed, TypeOK
  <1>1. UNCHANGED <<gallery, db, workers>>
    BY DEF UserStep, Write, Touch, Change, Vanish
  <1>2. ASSUME NEW f \in Files, NEW content \in Contents, Change(f, content)
        PROVE  FolderOK'
    <2>1. last + 1 \in Contents /\ last' = last + 1
      BY <1>2, ConstantsOK DEF Change, FolderOK, Contents
    <2> QED  BY <1>2, <2>1, ConstantsOK DEF Change, FolderOK, Contents
  <1>3. ASSUME NEW f \in Files, Vanish(f)  PROVE FolderOK'
    BY <1>3, ConstantsOK DEF Vanish, FolderOK, Contents
  <1>4. FolderOK'
    <2>1. \A f \in Files : disk[f].content \in Contents
      BY DEF FolderOK
    <2>2. last + 1 \in Contents \/ ~ (last < MaxContent)
      BY ConstantsOK DEF FolderOK, Contents
    <2> QED  BY <1>2, <1>3, <2>1, <2>2 DEF UserStep, Write, Touch, Change
  <1> QED
    BY <1>1, <1>4
    DEF db, children, workers, DbOK, ScanOK, SyncOK, JobsOK, DeriverOK, JobsHaveFiles,
        DeriverHasFile, Verifies, Scans

LEMMA PassesBeginTyped ==
    ASSUME Typed,
           (\E fast \in BOOLEAN : StartScan(fast)) \/ RemoveFolder \/ AddFolder \/ Restart
    PROVE  Typed'
  <1> USE DEF Typed, TypeOK
  <1>1. 0 \in Contents /\ 0 \in Ids
    BY ConstantsOK DEF Contents, Ids
  <1>2. ASSUME UNCHANGED db  PROVE DbOK'
    BY <1>2 DEF db, children, DbOK
  <1>3. ASSUME NEW fast \in BOOLEAN, StartScan(fast)  PROVE Typed'
    <2>1. ScanOK' /\ Verifies'
      BY <1>1, <1>3 DEF StartScan, Scanning, NotScanning, ScanOK, Verifies, Scans
    <2> QED  BY <1>2, <1>3, <2>1, ScanFrame DEF StartScan
  <1>4. CASE RemoveFolder
    <2>1. DbOK'
      BY <1>4 DEF RemoveFolder, children, DbOK
    <2>2. FolderOK'
      BY <1>4 DEF RemoveFolder, folder, FolderOK
    <2> QED
      BY <1>4, <2>1, <2>2
      DEF RemoveFolder, workers, ScanOK, SyncOK, JobsOK, DeriverOK, JobsHaveFiles,
          DeriverHasFile, Verifies, Scans
  <1>5. CASE AddFolder
    <2>1. ScanOK' /\ Verifies'
      BY <1>1, <1>5 DEF AddFolder, ScanSingleDir, NotScanning, ScanOK, Verifies, Scans
    <2> QED
      BY <1>2, <1>5, <2>1
      DEF AddFolder, ScanSingleDir, folder, FolderOK, SyncOK, JobsOK, DeriverOK, JobsHaveFiles, DeriverHasFile
  <1>6. CASE Restart
    <2>1. ScanOK' /\ Verifies'
      BY <1>1, <1>6 DEF Restart, NotScanning, ScanOK, Verifies, Scans
    <2>2. SyncOK'
      BY <1>1, <1>6 DEF Restart, NotSyncing, SyncOK
    <2>3. JobsOK' /\ JobsHaveFiles' /\ DeriverOK' /\ DeriverHasFile'
      BY <1>1, <1>6 DEF Restart, NoJob, JobsOK, JobsHaveFiles, DeriverOK, DeriverHasFile, Follower
    <2> QED  BY <1>2, <1>6, <2>1, <2>2, <2>3 DEF Restart, folder, FolderOK
  <1> QED  BY <1>3, <1>4, <1>5, <1>6

LEMMA StepTyped == Typed /\ [Next]_vars => Typed'
  <1> SUFFICES ASSUME Typed, [Next]_vars  PROVE Typed'
    OBVIOUS
  <1>1. CASE UNCHANGED vars
    BY <1>1
    DEF vars, Typed, TypeOK, FolderOK, DbOK, ScanOK, SyncOK, JobsOK, DeriverOK, JobsHaveFiles,
        DeriverHasFile, Verifies, Scans
  <1> QED
    BY <1>1, ScanStepTyped, SyncStepTyped, JobStepTyped, DeriverStepTyped, UserStepTyped,
       PassesBeginTyped
    DEF Next

\* TypeOK holds in every state of every instance.
THEOREM TypeCorrect == Spec => []TypeOK
  <1>1. Typed => TypeOK
    BY DEF Typed
  <1> QED  BY InitTyped, StepTyped, <1>1, PTL DEF Spec

-------------------------------------------------------------------------------
(* What a pass knows of a file: its stamp was given out before, and as     *)
(* long as the file has that stamp it has the content that was hashed.     *)

Current(r) == r.stamp <= last /\ (LooksUnchanged(r) => disk[r.file].content = r.content)
AllCurrent(S) == \A r \in S : Current(r)
WasGiven(S) == \A n \in S : n.stamp <= last

StampsGiven == \A f \in Files : disk[f].stamp <= last
ScanKnows == WasGiven(scan.found) /\ AllCurrent(scan.creates) /\ AllCurrent(scan.updates)
SyncKnows == WasGiven(sync.found) /\ AllCurrent(sync.row)

KnownAndCurrent == StampsGiven /\ AllCurrent(rows) /\ ScanKnows /\ SyncKnows

LEMMA InitCurrent == Init => KnownAndCurrent
  BY DEF Init, KnownAndCurrent, StampsGiven, ScanKnows, SyncKnows, AllCurrent, WasGiven,
         NotScanning, NotSyncing

\* A stamp that was read before the content goes with it, or is gone for good.
LEMMA HashedCurrent ==
    ASSUME NEW n \in Stat, n.stamp <= last, NEW id
    PROVE  Current(Hashed(n, id))
  BY DEF Current, Hashed, LooksUnchanged

LEMMA WalkedGiven == Typed /\ StampsGiven => WasGiven(Walked)
  BY DEF StampsGiven, WasGiven, Walked

LEMMA InsertedCurrent ==
    ASSUME NEW S \in SUBSET Row, AllCurrent(S)
    PROVE  AllCurrent(Inserted(S))
  BY DEF AllCurrent, Inserted, Current, LooksUnchanged, Exists, Row

\* Nothing gets out of date as long as the files stay as they are.
LEMMA SameFiles ==
    ASSUME UNCHANGED <<disk, last>>
    PROVE  (\A r : Current(r)' <=> Current(r)) /\ (StampsGiven' <=> StampsGiven)
  BY DEF StampsGiven, Current, LooksUnchanged, Exists

\* The records a pass makes are those of files it has just hashed.
HashedFrom(S) == {r \in Row : \E n \in S : \E id \in Ids : r = Hashed(n, id)}

LEMMA ScanOnlyHashes ==
    ASSUME Typed, ScanStep
    PROVE  /\ UNCHANGED <<disk, last, sync>>
           /\ rows' \subseteq rows \cup scan.updates \cup Inserted(scan.creates)
           /\ scan'.found \subseteq scan.found \cup Walked
           /\ scan'.creates \subseteq scan.creates \cup HashedFrom(scan.found)
           /\ scan'.updates \subseteq scan.updates \cup HashedFrom(scan.found)
  <1> DEFINE Goal ==
        /\ UNCHANGED <<disk, last, sync>>
        /\ rows' \subseteq rows \cup scan.updates \cup Inserted(scan.creates)
        /\ scan'.found \subseteq scan.found \cup Walked
        /\ scan'.creates \subseteq scan.creates \cup HashedFrom(scan.found)
        /\ scan'.updates \subseteq scan.updates \cup HashedFrom(scan.found)
  <1> SUFFICES Goal
    OBVIOUS
  <1> USE DEF Typed, TypeOK, ScanOK
  <1>1. CASE GetGalleryDirs
    BY <1>1 DEF GetGalleryDirs, Scanning, folder, db
  <1>2. CASE CleanupPage
    BY <1>2 DEF CleanupPage, Scanning, folder, db
  <1>3. CASE CleanupRow
    <2>1. rows' \subseteq rows
      BY <1>3, CascadeTyped DEF CleanupRow, db
    <2> QED  BY <1>3, <2>1 DEF CleanupRow, Scanning, folder
  <1>4. CASE WalkFolder
    BY <1>4 DEF WalkFolder, Scanning, folder, db
  <1>5. CASE LoadExisting
    BY <1>5 DEF LoadExisting, Scanning, folder, db, Differing
  <1>6. CASE PurgeMissing
    <2>1. rows' \subseteq rows
      BY <1>6, CascadeTyped DEF PurgeMissing
    <2> QED  BY <1>6, <2>1 DEF PurgeMissing, Scanning, folder
  <1>7. ASSUME NEW n \in scan.found, HashFile(n)  PROVE Goal
    <2> DEFINE images == {Hashed(n, r.id) : r \in {r \in scan.existing : r.file = n.file}}
    <2>1. n \in Stat /\ 0 \in Ids
      BY ConstantsOK DEF Ids
    <2>2. {Hashed(n, 0)} \subseteq HashedFrom(scan.found)
      BY <2>1, HashedTyped DEF HashedFrom
    <2>3. images \subseteq HashedFrom(scan.found)
      BY <2>1, HashedTyped DEF HashedFrom, Row
    <2> HIDE DEF images
    <2> QED  BY <1>7, <2>2, <2>3 DEF HashFile, Scanning, folder, db, images
  <1>8. CASE CreateBatch
    <2>1. rows' \subseteq rows \cup Inserted(scan.creates)
      BY <1>8, CreateTyped DEF CreateBatch
    <2> QED  BY <1>8, <2>1 DEF CreateBatch, Scanning, folder
  <1>9. CASE ReadOldHashes
    BY <1>9 DEF ReadOldHashes, Scanning, folder, db
  <1>10. CASE SaveBatch
    <2>1. rows' \subseteq rows \cup scan.updates
      BY <1>10, SaveTyped DEF SaveBatch
    <2> QED  BY <1>10, <2>1 DEF SaveBatch, Scanning, folder
  <1>11. ASSUME NEW e \in scan.events, EmitEvent(e)  PROVE Goal
    BY <1>11 DEF EmitEvent, folder, db
  <1>12. CASE AllEmitted
    BY <1>12 DEF AllEmitted, Scanning, folder, db
  <1>13. CASE FinishScan
    BY <1>13 DEF FinishScan, Scanning, NotScanning, folder, db
  <1> HIDE DEF Goal
  <1> QED
    BY <1>1, <1>2, <1>3, <1>4, <1>5, <1>6, <1>7, <1>8, <1>9, <1>10, <1>11, <1>12, <1>13
    DEF ScanStep

LEMMA SyncOnlyHashes ==
    ASSUME Typed, SyncStep \/ SyncFails \/ StartSync \/ StopSync
    PROVE  /\ UNCHANGED <<disk, last, scan>>
           /\ rows' \subseteq rows \cup sync.row \cup Inserted(sync.row)
           /\ sync'.found \subseteq sync.found \cup Walked
           /\ sync'.row \subseteq sync.row \cup Inserted(sync.row) \cup HashedFrom(sync.found)
  <1> DEFINE Goal ==
        /\ UNCHANGED <<disk, last, scan>>
        /\ rows' \subseteq rows \cup sync.row \cup Inserted(sync.row)
        /\ sync'.found \subseteq sync.found \cup Walked
        /\ sync'.row \subseteq sync.row \cup Inserted(sync.row) \cup HashedFrom(sync.found)
  <1> SUFFICES Goal
    OBVIOUS
  <1> USE DEF Typed, TypeOK, SyncOK
  <1>1. CASE StartSync \/ StopSync
    BY <1>1 DEF StartSync, StopSync, Syncing, folder, db
  <1>2. CASE SyncWalk
    BY <1>2 DEF SyncWalk, Syncing, folder, db
  <1>3. CASE SyncLoad
    BY <1>3 DEF SyncLoad, Syncing, folder, db
  <1>4. CASE SyncFile
    <2>1. PICK n \in sync.found : SyncSkips(n) \/ SyncHashesNew(n) \/ SyncHashesChanged(n)
      BY <1>4 DEF SyncFile
    <2>2. n \in Stat /\ 0 \in Ids
      BY ConstantsOK DEF Ids
    <2>3. CASE SyncSkips(n)
      BY <1>4, <2>3 DEF SyncFile, SyncSkips, Syncing, Without, folder, db
    <2>4. CASE SyncHashesNew(n)
      <3>1. {Hashed(n, 0)} \subseteq HashedFrom(sync.found)
        BY <2>2, HashedTyped DEF HashedFrom
      <3> QED  BY <1>4, <2>4, <3>1 DEF SyncFile, SyncHashesNew, Syncing, Without, folder, db
    <2>5. CASE SyncHashesChanged(n)
      <3>1. PICK r \in sync.existing :
              Syncing([Without(n) EXCEPT !.pc = "save", !.row = {Hashed(n, r.id)},
                                         !.changed = r.content # disk[n.file].content])
        BY <2>5 DEF SyncHashesChanged
      <3>2. {Hashed(n, r.id)} \subseteq HashedFrom(sync.found)
        BY <2>2, HashedTyped DEF HashedFrom, Row
      <3> QED  BY <1>4, <3>1, <3>2 DEF SyncFile, Syncing, Without, folder, db
    <2> HIDE DEF Goal
    <2> QED  BY <2>1, <2>3, <2>4, <2>5
  <1>5. CASE SyncCreates
    <2>1. rows' \subseteq rows \cup Inserted(sync.row)
      BY <1>5, CreateTyped DEF SyncCreates
    <2> QED  BY <1>5, <2>1 DEF SyncCreates, Syncing, NextFile, folder
  <1>6. CASE SyncSaves
    <2>1. rows' \subseteq rows \cup sync.row
      BY <1>6, SaveTyped DEF SyncSaves
    <2> QED  BY <1>6, <2>1 DEF SyncSaves, Syncing, NextFile, folder
  <1>7. CASE SyncExtracts \/ SyncFails
    BY <1>7 DEF SyncExtracts, SyncFails, Syncing, Extracted, NextFile, folder, db
  <1>8. CASE SyncStores \/ SyncInvalidates
    BY <1>8 DEF SyncStores, SyncInvalidates, SetMetadata, Invalidate, Syncing, Extracted, NextFile,
                folder
  <1>9. CASE SyncSweeps \/ SyncEnds
    BY <1>9 DEF SyncSweeps, SyncEnds, Syncing, folder, db
  <1>10. CASE SyncSweepsRow
    <2>1. rows' \subseteq rows
      BY <1>10, CascadeTyped DEF SyncSweepsRow, db
    <2> QED  BY <1>10, <2>1 DEF SyncSweepsRow, Syncing, folder
  <1> HIDE DEF Goal
  <1> QED
    BY <1>1, <1>2, <1>3, <1>4, <1>5, <1>6, <1>7, <1>8, <1>9, <1>10
    DEF SyncStep

LEMMA HashedFromCurrent ==
    ASSUME NEW S \in SUBSET Stat, WasGiven(S)
    PROVE  AllCurrent(HashedFrom(S))
  BY HashedCurrent DEF AllCurrent, HashedFrom, WasGiven

LEMMA PassesKeepCurrent ==
    ASSUME Typed, KnownAndCurrent, ScanStep \/ SyncStep \/ SyncFails \/ StartSync \/ StopSync
    PROVE  KnownAndCurrent'
  <1>1. WasGiven(Walked)
    BY WalkedGiven DEF KnownAndCurrent
  <1>2. CASE ScanStep
    <2>1. AllCurrent(HashedFrom(scan.found)) /\ AllCurrent(Inserted(scan.creates))
      BY HashedFromCurrent, InsertedCurrent DEF KnownAndCurrent, ScanKnows, Typed, TypeOK, ScanOK
    <2> QED
      BY <1>1, <1>2, <2>1, ScanOnlyHashes, SameFiles
      DEF KnownAndCurrent, ScanKnows, SyncKnows, AllCurrent, WasGiven
  <1>3. CASE SyncStep \/ SyncFails \/ StartSync \/ StopSync
    <2>1. AllCurrent(HashedFrom(sync.found)) /\ AllCurrent(Inserted(sync.row))
      BY HashedFromCurrent, InsertedCurrent DEF KnownAndCurrent, SyncKnows, Typed, TypeOK, SyncOK
    <2> QED
      BY <1>1, <1>3, <2>1, SyncOnlyHashes, SameFiles
      DEF KnownAndCurrent, ScanKnows, SyncKnows, AllCurrent, WasGiven
  <1> QED  BY <1>2, <1>3

\* A changed file has a stamp that no record has; a file that is gone, none.
LEMMA FilesKeepCurrent ==
    ASSUME Typed, KnownAndCurrent, UserStep
    PROVE  KnownAndCurrent'
  <1>1. UNCHANGED <<rows, scan, sync>> /\ last' \in Nat /\ last \in Nat /\ last <= last'
    BY DEF UserStep, Write, Touch, Change, Vanish, db, workers, Typed, TypeOK, FolderOK
  <1>2. PICK f \in Files :
          /\ \A g \in Files \ {f} : disk'[g] = disk[g]
          /\ \/ disk'[f].stamp = last + 1 /\ last' = last + 1
             \/ disk'[f].content = 0 /\ disk'[f].stamp = 0
    BY DEF UserStep, Write, Touch, Change, Vanish, Typed, TypeOK, FolderOK
  <1>3. ASSUME NEW r \in Row, Current(r)  PROVE Current(r)'
    <2>1. r.file \in Files /\ r.stamp \in Nat
      BY DEF Row, Contents
    <2> QED  BY <1>1, <1>2, <1>3, <2>1 DEF Current, LooksUnchanged, Exists
  <1>4. ASSUME NEW S \in SUBSET Row, AllCurrent(S)  PROVE \A r \in S : Current(r)'
    BY <1>3, <1>4 DEF AllCurrent
  <1>5. ASSUME NEW n \in Stat, n.stamp <= last  PROVE n.stamp <= last'
    BY <1>1, <1>5 DEF Stat, Contents
  <1>6. StampsGiven'
    <2>1. \A g \in Files : disk[g].stamp \in Nat /\ disk[g].stamp <= last
      BY DEF KnownAndCurrent, StampsGiven, Typed, TypeOK, FolderOK, Contents
    <2> QED  BY <1>1, <1>2, <2>1 DEF StampsGiven
  <1>7. AllCurrent(rows)'
    BY <1>1, <1>4 DEF KnownAndCurrent, AllCurrent, Typed, TypeOK, DbOK
  <1>8. ScanKnows'
    BY <1>1, <1>4, <1>5 DEF KnownAndCurrent, ScanKnows, AllCurrent, WasGiven, Typed, TypeOK, ScanOK
  <1>9. SyncKnows'
    BY <1>1, <1>4, <1>5 DEF KnownAndCurrent, SyncKnows, AllCurrent, WasGiven, Typed, TypeOK, SyncOK
  <1> QED  BY <1>6, <1>7, <1>8, <1>9 DEF KnownAndCurrent

LEMMA StepKeepsCurrent ==
    ASSUME Typed, KnownAndCurrent, [Next]_vars
    PROVE  KnownAndCurrent'
  <1>1. CASE UNCHANGED <<disk, last, rows, scan, sync>>
    BY <1>1, SameFiles DEF KnownAndCurrent, ScanKnows, SyncKnows, AllCurrent, WasGiven
  <1>2. ASSUME NEW fast \in BOOLEAN, StartScan(fast)  PROVE KnownAndCurrent'
    BY <1>2, SameFiles
    DEF StartScan, Scanning, NotScanning, folder, db, KnownAndCurrent, ScanKnows, SyncKnows,
        AllCurrent, WasGiven
  <1>3. CASE RemoveFolder
    BY <1>3, SameFiles
    DEF RemoveFolder, folder, workers, KnownAndCurrent, ScanKnows, SyncKnows, AllCurrent, WasGiven
  <1>4. CASE AddFolder
    BY <1>4, SameFiles
    DEF AddFolder, ScanSingleDir, NotScanning, folder, db, KnownAndCurrent, ScanKnows, SyncKnows, AllCurrent,
        WasGiven
  <1>5. CASE Restart
    BY <1>5, SameFiles
    DEF Restart, NotScanning, NotSyncing, folder, db, KnownAndCurrent, ScanKnows, SyncKnows,
        AllCurrent, WasGiven
  <1>6. ASSUME NEW s \in Slots, JobStep(s) \/ JobFails(s)
        PROVE  UNCHANGED <<disk, last, rows, scan, sync>>
    BY <1>6 DEF JobStep, JobFails, JobExtracts, JobStores, JobInvalidates, Working, SetMetadata,
                Invalidate, folder, db
  <1>7. ASSUME DeriverStep  PROVE UNCHANGED <<disk, last, rows, scan, sync>>
    BY <1>7 DEF DeriverStep, Take, Read, SaveDerived, Deriving, folder, db
  <1>8. ASSUME UNCHANGED vars  PROVE UNCHANGED <<disk, last, rows, scan, sync>>
    BY <1>8 DEF vars
  <1> QED
    BY <1>1, <1>2, <1>3, <1>4, <1>5, <1>6, <1>7, <1>8, PassesKeepCurrent, FilesKeepCurrent DEF Next

\* However scans, synchronisations, follow-ups, restarts and changes of files
\* interleave, and however many files there are: a file that both kinds of
\* passes will skip as unchanged has the content whose hash its row has.
THEOREM UnchangedIsCurrent == Spec => []UnchangedFilesAreCurrent
  <1>1. Typed /\ KnownAndCurrent /\ [Next]_vars => KnownAndCurrent'
    BY StepKeepsCurrent
  <1>2. Typed /\ KnownAndCurrent => UnchangedFilesAreCurrent
    BY DEF KnownAndCurrent, AllCurrent, Current, UnchangedFilesAreCurrent
  <1> QED  BY InitTyped, StepTyped, InitCurrent, <1>1, <1>2, PTL DEF Spec

-------------------------------------------------------------------------------
(* What tables and passes hold, whatever interferes: of every file at most  *)
(* one row, of which the id is in use and the content was given out.        *)

OncePerFile(S) == \A n, m \in S : n.file = m.file => n = m
NoTwoIds(S) == \A r, q \in S : r.id = q.id => r = q
Numbered(S, next) == \A r \in S : 1 <= r.id /\ r.id < next
Given(S, top) == \A r \in S : 1 <= r.content /\ r.content <= top
AreNew(S, top) == OncePerFile(S) /\ Given(S, top)
AreRows(S, next, top) == OncePerFile(S) /\ NoTwoIds(S) /\ Numbered(S, next) /\ Given(S, top)

SameImage(r, q) == r.id = q.id /\ r.file = q.file
ImageAmong(r, S) == \E q \in S : SameImage(q, r)
FilesApart(S, found) == \A r \in S : \A n \in found : r.file # n.file

\* A scan c that has files before it, new and changed ones, and events
ScanHolds(c, next, top) ==
    /\ OncePerFile(c.found) /\ AreRows(c.existing, next, top)
    /\ c.pc \notin {"load", "purge", "hash"} => c.found = {}
    /\ AreNew(c.creates, top) /\ FilesApart(c.creates, c.found)
    /\ c.pc \notin {"hash", "create"} => c.creates = {}
    /\ AreRows(c.updates, next, top) /\ FilesApart(c.updates, c.found)
    /\ c.pc \notin {"hash", "create", "old", "save"} => c.updates = {}
    /\ \A u \in c.updates : ImageAmong(u, c.existing)
    /\ c.pc \notin {"old", "save", "emit"} => c.events = {}
    /\ \A e \in c.events : ~(e.created /\ e.changed)

\* A synchronisation y with the row it works on
Following == {"extract", "store", "invalidate"}
SyncHolds(y, next, top) ==
    /\ OncePerFile(y.found) /\ AreRows(y.existing, next, top)
    /\ y.pc \notin {"load", "files"} \cup {"create", "save"} \cup Following => y.found = {}
    /\ \A r, q \in y.row : r = q
    /\ Given(y.row, top) /\ FilesApart(y.row, y.found)
    /\ y.pc \notin {"create", "save"} \cup Following => y.row = {}
    /\ y.pc \notin {"save"} \cup Following => ~y.changed
    /\ y.pc \in {"save"} \cup Following => Numbered(y.row, next)
    /\ y.pc = "save" => \A u \in y.row : ImageAmong(u, y.existing)

ContentsGiven == \A f \in Files : disk[f].content <= last

Numbering ==
    /\ AreRows(rows, nextId, last) /\ ContentsGiven
    /\ ScanHolds(scan, nextId, last) /\ SyncHolds(sync, nextId, last)

LEMMA RowsGrow ==
    ASSUME NEW S \in SUBSET Row, NEW a \in Nat, NEW b \in Nat, a <= b,
           NEW c \in Nat, NEW d \in Nat, c <= d
    PROVE  /\ Numbered(S, a) => Numbered(S, b)
           /\ Given(S, c) => Given(S, d)
           /\ AreRows(S, a, c) => AreRows(S, b, d)
           /\ AreNew(S, c) => AreNew(S, d)
  <1>1. \A r \in S : r.id \in Nat /\ r.content \in Nat
    BY DEF Row, Ids, Contents
  <1>2. (Numbered(S, a) => Numbered(S, b)) /\ (Given(S, c) => Given(S, d))
    BY <1>1 DEF Numbered, Given
  <1> QED  BY <1>2 DEF AreRows, AreNew

LEMMA RowsShrink ==
    ASSUME NEW S, NEW T \in SUBSET S, NEW next, NEW top, AreRows(S, next, top)
    PROVE  AreRows(T, next, top)
  BY DEF AreRows, OncePerFile, NoTwoIds, Numbered, Given

\* A pass knows as much of the tables when they grow.
LEMMA HoldsOn ==
    ASSUME Typed, NEW next \in Nat, nextId <= next, NEW top \in Nat, last <= top
    PROVE  /\ ScanHolds(scan, nextId, last) => ScanHolds(scan, next, top)
           /\ SyncHolds(sync, nextId, last) => SyncHolds(sync, next, top)
           /\ AreRows(rows, nextId, last) => AreRows(rows, next, top)
  <1>1. nextId \in Nat /\ last \in Nat
    BY DEF Typed, TypeOK, DbOK, FolderOK
  <1>2. /\ rows \subseteq Row /\ scan.existing \subseteq Row /\ scan.creates \subseteq Row
        /\ scan.updates \subseteq Row /\ sync.existing \subseteq Row /\ sync.row \subseteq Row
    BY DEF Typed, TypeOK, DbOK, ScanOK, SyncOK
  <1> QED  BY <1>1, <1>2, RowsGrow DEF ScanHolds, SyncHolds

LEMMA SavedAreRows ==
    ASSUME NEW S, AreRows(rows, nextId, last), AreRows(S, nextId, last), Save(S)
    PROVE  AreRows(rows', nextId, last)
  <1>1. CASE rows' = rows
    BY <1>1
  <1>2. CASE rows' = Saved(S) /\ PathsUnique(Saved(S))
    <2>1. OncePerFile(Saved(S))
      BY <1>2 DEF PathsUnique, OncePerFile
    <2>2. NoTwoIds(Saved(S))
      BY DEF AreRows, NoTwoIds, Saved
    <2>3. Numbered(Saved(S), nextId) /\ Given(Saved(S), last)
      BY DEF AreRows, Numbered, Given, Saved
    <2> QED  BY <1>2, <2>1, <2>2, <2>3 DEF AreRows
  <1> QED  BY <1>1, <1>2 DEF Save

\* One INSERT numbers its rows by their files.
LEMMA InsertedAreRows ==
    ASSUME DbOK, NEW S \in SUBSET Row, AreNew(S, last), Create(S), ~Refused(S)
    PROVE  /\ AreRows(Inserted(S), nextId', last)
           /\ \A r \in Inserted(S) : nextId <= r.id
           /\ \A r \in Inserted(S) : \E s \in S : r = [s EXCEPT !.id = r.id]
           /\ \A s \in S : \E r \in Inserted(S) : r = [s EXCEPT !.id = r.id]
  <1> DEFINE before(s) == {t \in S : t.file < s.file}
             number(s) == nextId + Cardinality(before(s))
  <1>1. IsFiniteSet(S) /\ Cardinality(S) \in Nat /\ nextId \in Nat /\ 1 <= nextId
    BY RowsAreFinite, FS_Subset, FS_CardinalityType DEF DbOK
  <1>2. \A s \in S : s.file \in Nat
    BY ConstantsOK DEF Row
  <1>3. ASSUME NEW s \in S
        PROVE  /\ IsFiniteSet(before(s)) /\ Cardinality(before(s)) \in Nat
               /\ Cardinality(before(s)) < Cardinality(S)
    <2>1. before(s) \subseteq S \ {s}
      BY <1>2
    <2>2. IsFiniteSet(S \ {s}) /\ Cardinality(S \ {s}) = Cardinality(S) - 1
      BY <1>1, FS_RemoveElement
    <2> HIDE DEF before
    <2> QED  BY <1>1, <2>1, <2>2, FS_Subset, FS_CardinalityType
  <1>4. ASSUME NEW s \in S, NEW t \in S, t.file < s.file
        PROVE  Cardinality(before(t)) < Cardinality(before(s))
    <2>1. before(t) \subseteq before(s) \ {t} /\ t \in before(s)
      BY <1>2, <1>4
    <2>2. IsFiniteSet(before(s)) /\ Cardinality(before(s)) \in Nat
      BY <1>3
    <2> HIDE DEF before
    <2>3. IsFiniteSet(before(s) \ {t}) /\ Cardinality(before(s) \ {t}) = Cardinality(before(s)) - 1
      BY <2>1, <2>2, FS_RemoveElement
    <2> QED  BY <2>1, <2>2, <2>3, FS_Subset, FS_CardinalityType
  <1>5. \A s \in S : number(s) \in Nat /\ nextId <= number(s) /\ number(s) < nextId + Cardinality(S)
    <2> HIDE DEF before
    <2> QED  BY <1>1, <1>3
  <1>6. \A s, t \in S : number(s) = number(t) => s = t
    <2>1. ASSUME NEW s \in S, NEW t \in S, s # t  PROVE number(s) # number(t)
      <3>1. s.file # t.file /\ s.file \in Nat /\ t.file \in Nat
        BY <1>2, <2>1 DEF AreNew, OncePerFile
      <3>2. s.file < t.file \/ t.file < s.file
        BY <3>1
      <3> HIDE DEF before
      <3>3. Cardinality(before(s)) # Cardinality(before(t))
        BY <1>3, <1>4, <3>2
      <3> QED  BY <1>1, <1>3, <3>3
    <2> QED  BY <2>1
  <1>7. Inserted(S) = {[s EXCEPT !.id = number(s)] : s \in S}
    BY DEF Inserted
  <1>8. nextId' = nextId + Cardinality(S)
    BY DEF Create
  <1> HIDE DEF number
  <1>9. \A s \in S : /\ [s EXCEPT !.id = number(s)].id = number(s)
                     /\ [s EXCEPT !.id = number(s)].file = s.file
                     /\ [s EXCEPT !.id = number(s)].content = s.content
    BY DEF Row
  <1>10. \A r \in Inserted(S) : \E s \in S : r = [s EXCEPT !.id = number(s)] /\ r.id = number(s)
                                            /\ r.file = s.file /\ r.content = s.content
    BY <1>7, <1>9
  <1>11. OncePerFile(Inserted(S)) /\ NoTwoIds(Inserted(S))
    BY <1>6, <1>10 DEF AreNew, OncePerFile, NoTwoIds
  <1>12. Numbered(Inserted(S), nextId')
    BY <1>1, <1>5, <1>8, <1>10 DEF Numbered
  <1>13. Given(Inserted(S), last)
    BY <1>10 DEF Given, AreNew
  <1>14. \A s \in S : \E r \in Inserted(S) : r = [s EXCEPT !.id = r.id]
    BY <1>7, <1>9
  <1> QED  BY <1>5, <1>10, <1>11, <1>12, <1>13, <1>14 DEF AreRows

LEMMA CreatedAreRows ==
    ASSUME DbOK, NEW S \in SUBSET Row, AreRows(rows, nextId, last), AreNew(S, last), Create(S)
    PROVE  AreRows(rows', nextId', last) /\ nextId' \in Nat /\ nextId <= nextId'
  <1>1. Cardinality(S) \in Nat /\ nextId \in Nat
    BY RowsAreFinite, FS_Subset, FS_CardinalityType DEF DbOK
  <1>2. CASE Refused(S)
    BY <1>1, <1>2 DEF Create
  <1>3. CASE ~Refused(S)
    <2>1. rows' = rows \cup Inserted(S) /\ nextId' \in Nat /\ nextId <= nextId'
      BY <1>1, <1>3 DEF Create
    <2>2. AreRows(Inserted(S), nextId', last) /\ \A r \in Inserted(S) : nextId <= r.id
      BY <1>3, InsertedAreRows
    <2>3. AreRows(rows, nextId', last)
      <3>1. \A r \in rows : r.id \in Nat /\ r.id < nextId
        BY DEF AreRows, Numbered, DbOK, Row, Ids
      <3> QED  BY <1>1, <2>1, <3>1 DEF AreRows, Numbered
    <2>4. \A r \in rows, q \in Inserted(S) : r.file # q.file
      <3>1. \A q \in Inserted(S) : \E s \in S : q.file = s.file
        BY <1>3 DEF Inserted, Row
      <3> QED  BY <1>3, <3>1 DEF Refused, Known
    <2>5. \A r \in rows, q \in Inserted(S) : r.id # q.id
      <3>1. \A r \in rows : r.id \in Nat /\ r.id < nextId
        BY DEF AreRows, Numbered, DbOK, Row, Ids
      <3>2. \A q \in Inserted(S) : q.id \in Nat
        BY CreateTyped DEF Row, Ids
      <3> QED  BY <1>1, <2>2, <3>1, <3>2
    <2> QED
      BY <2>1, <2>2, <2>3, <2>4, <2>5 DEF AreRows, OncePerFile, NoTwoIds, Numbered, Given
  <1> QED  BY <1>2, <1>3

\* The record of a file that was just hashed
LEMMA HashedGiven ==
    ASSUME FolderOK, ContentsGiven, NEW n \in Stat, Exists(n.file), NEW id \in Ids
    PROVE  LET h == Hashed(n, id) IN
           /\ h \in Row /\ h.id = id /\ h.file = n.file
           /\ 1 <= h.content /\ h.content <= last
           /\ h.content = disk[n.file].content /\ h.stamp = n.stamp
  <1>1. n.file \in Files /\ disk[n.file].content \in Nat
    BY DEF FolderOK, Stat, Contents
  <1> QED  BY <1>1, HashedTyped DEF Hashed, Exists, ContentsGiven

LEMMA ScanKeepsNumbers ==
    ASSUME Typed, Numbering, ScanStep
    PROVE  Numbering'
  <1> DEFINE c == scan
  <1>1. ASSUME NEW record, Scanning(record), ScanHolds(record, nextId', last),
               AreRows(rows', nextId', last), SyncHolds(sync, nextId', last)
        PROVE  Numbering'
    BY <1>1 DEF Numbering, Scanning, folder, ContentsGiven
  <1>2. ScanHolds(scan, nextId, last) /\ SyncHolds(sync, nextId, last) /\ AreRows(rows, nextId, last)
    BY DEF Numbering
  <1>3. ASSUME UNCHANGED db  PROVE UNCHANGED <<rows, nextId>>
    BY <1>3 DEF db
  <1>4. ASSUME NEW S, DeleteCascade(S)
        PROVE  nextId' = nextId /\ AreRows(rows', nextId', last)
    <2>1. rows' \in SUBSET rows /\ nextId' = nextId
      BY <1>4 DEF DeleteCascade
    <2> QED  BY <1>2, <2>1, RowsShrink
  <1>5. c \in [pc : {"idle", "dirs", "page", "verify", "walk", "load", "purge", "hash",
                    "create", "old", "save", "emit", "finish"},
              fast : BOOLEAN, dirs : BOOLEAN, lastId : Ids, more : BOOLEAN,
              page : SUBSET Row, found : SUBSET Stat, existing : SUBSET Row,
              creates : SUBSET Row, updates : SUBSET Row, old : SUBSET Row,
              events : SUBSET Event]
    BY DEF Typed, TypeOK, ScanOK
  <1> USE DEF c
  <1>6. CASE GetGalleryDirs
    <2>1. ScanHolds([scan EXCEPT !.pc = "page", !.dirs = gallery], nextId, last)
      BY <1>2, <1>5, <1>6 DEF GetGalleryDirs, Scans, ScanHolds
    <2> QED  BY <1>1, <1>2, <1>3, <1>6, <2>1 DEF GetGalleryDirs
  <1>7. CASE CleanupPage
    <2> DEFINE record == [scan EXCEPT !.pc = IF Page = {} THEN Index ELSE "verify", !.page = Page,
                                      !.more = Cardinality(Page) >= PageSize]
    <2>1. ScanHolds(record, nextId, last)
      BY <1>2, <1>5, <1>7 DEF CleanupPage, Scans, ScanHolds, Index
    <2> QED  BY <1>1, <1>2, <1>3, <1>7, <2>1 DEF CleanupPage
  <1>8. CASE CleanupRow
    <2> DEFINE r == FirstOf(scan.page)
               rest == scan.page \ {r}
               record == [scan EXCEPT !.pc = IF rest # {} THEN "verify" ELSE IF scan.more THEN "page" ELSE Index,
                                      !.page = rest, !.lastId = r.id]
    <2>1. ScanHolds(record, nextId, last)
      BY <1>2, <1>5, <1>8 DEF CleanupRow, Scans, ScanHolds, Index
    <2>2. nextId' = nextId /\ AreRows(rows', nextId', last)
      BY <1>2, <1>3, <1>4, <1>8 DEF CleanupRow
    <2> QED  BY <1>1, <1>2, <1>8, <2>1, <2>2 DEF CleanupRow
  <1>9. CASE WalkFolder
    <2> DEFINE record == [scan EXCEPT !.pc = IF Walked = {} THEN "finish" ELSE "load", !.found = Walked]
    <2>1. OncePerFile(Walked)
      BY DEF OncePerFile, Walked
    <2>2. ScanHolds(record, nextId, last)
      BY <1>2, <1>5, <1>9, <2>1 DEF WalkFolder, Scans, ScanHolds, FilesApart
    <2> QED  BY <1>1, <1>2, <1>3, <1>9, <2>2 DEF WalkFolder
  <1>10. CASE LoadExisting
    <2> DEFINE existing == {r \in rows : r.file \in Known(scan.found)}
               todo == Differing(scan.found, existing)
               record == [scan EXCEPT !.pc = IF scan.fast THEN "purge" ELSE Hash(todo),
                                      !.existing = existing, !.found = todo]
    <2>1. AreRows(existing, nextId, last)
      BY <1>2, RowsShrink
    <2>2. todo \subseteq scan.found
      BY DEF Differing
    <2>3. OncePerFile(todo)
      BY <1>2, <2>2 DEF ScanHolds, OncePerFile
    <2> HIDE DEF existing, todo
    <2>4. ScanHolds(record, nextId, last)
      BY <1>2, <1>5, <1>10, <2>1, <2>3 DEF LoadExisting, Scans, ScanHolds, FilesApart, Hash
    <2> QED  BY <1>1, <1>2, <1>3, <1>10, <2>4 DEF LoadExisting, existing, todo
  <1>11. CASE PurgeMissing
    <2>1. ScanHolds([scan EXCEPT !.pc = Hash(scan.found)], nextId, last)
      BY <1>2, <1>5, <1>11 DEF PurgeMissing, Scans, ScanHolds, Hash
    <2> QED  BY <1>1, <1>2, <1>4, <1>11, <2>1 DEF PurgeMissing
  <1>12. ASSUME NEW n \in scan.found, HashFile(n)  PROVE Numbering'
    <2> DEFINE mine == {r \in scan.existing : r.file = n.file}
               rest == [scan EXCEPT !.found = @ \ {n}, !.pc = IF scan.found = {n} THEN "create" ELSE "hash"]
    <2>1. n \in Stat /\ 0 \in Ids /\ scan.pc = "hash"
      BY <1>5, <1>12, ConstantsOK DEF Ids, HashFile, Scans
    <2>2. FilesApart({n}, scan.found \ {n})
      BY <1>2 DEF FilesApart, ScanHolds, OncePerFile
    <2>3. ScanHolds(rest, nextId, last)
      <3>1. OncePerFile(scan.found \ {n}) /\ FilesApart(scan.creates, scan.found \ {n})
            /\ FilesApart(scan.updates, scan.found \ {n})
        BY <1>2 DEF ScanHolds, OncePerFile, FilesApart
      <3> QED  BY <1>2, <1>5, <2>1, <3>1 DEF ScanHolds
    <2>4. ASSUME Exists(n.file), mine = {}
          PROVE  ScanHolds([rest EXCEPT !.creates = @ \cup {Hashed(n, 0)}], nextId, last)
      <3> DEFINE h == Hashed(n, 0)
      <3>1. h.file = n.file /\ 1 <= h.content /\ h.content <= last
        BY <2>1, <2>4, HashedGiven DEF Typed, TypeOK, Numbering
      <3> HIDE DEF h
      <3>2. AreNew(scan.creates \cup {h}, last) /\ FilesApart(scan.creates \cup {h}, scan.found \ {n})
        BY <1>2, <2>2, <3>1 DEF ScanHolds, AreNew, FilesApart, OncePerFile, Given
      <3>3. [rest EXCEPT !.creates = @ \cup {h}] = [rest EXCEPT !.creates = scan.creates \cup {h}]
        BY <1>5
      <3> QED  BY <1>5, <2>3, <3>2, <3>3 DEF ScanHolds, h
    <2>5. ASSUME Exists(n.file), NEW r \in mine
          PROVE  ScanHolds([rest EXCEPT !.updates = @ \cup {Hashed(n, q.id) : q \in mine}], nextId, last)
      <3> DEFINE h == Hashed(n, r.id)
      <3>1. r \in Row /\ r.id \in Ids /\ r.file = n.file
        BY <1>5 DEF Row
      <3>2. h.id = r.id /\ h.file = n.file /\ 1 <= h.content /\ h.content <= last
        BY <2>1, <2>5, <3>1, HashedGiven DEF Typed, TypeOK, Numbering
      <3>3. {Hashed(n, q.id) : q \in mine} = {h}
        BY <1>2 DEF ScanHolds, AreRows, OncePerFile
      <3> HIDE DEF h
      <3>4. ImageAmong(h, scan.existing)
        BY <3>1, <3>2 DEF ImageAmong, SameImage
      <3>5. \A u \in scan.updates : u.id # h.id /\ u.file # h.file
        BY <1>2, <3>1, <3>2 DEF ScanHolds, ImageAmong, SameImage, AreRows, NoTwoIds, FilesApart
      <3>6. Numbered({h}, nextId)
        BY <1>2, <3>2 DEF ScanHolds, AreRows, Numbered
      <3>7. AreRows(scan.updates \cup {h}, nextId, last)
        BY <1>2, <3>2, <3>5, <3>6 DEF ScanHolds, AreRows, OncePerFile, NoTwoIds, Numbered, Given
      <3>8. FilesApart(scan.updates \cup {h}, scan.found \ {n})
        BY <1>2, <2>2, <3>2 DEF ScanHolds, FilesApart
      <3> QED  BY <1>5, <2>1, <2>3, <3>3, <3>4, <3>7, <3>8 DEF ScanHolds
    <2>6. PICK record : Scanning(record) /\ ScanHolds(record, nextId, last)
      <3> HIDE DEF rest
      <3> QED  BY <1>12, <2>3, <2>4, <2>5 DEF HashFile, rest
    <2> QED  BY <1>1, <1>2, <1>3, <1>12, <2>6 DEF HashFile
  <1>13. CASE CreateBatch
    <2> DEFINE events == {[id |-> r.id, file |-> r.file, created |-> TRUE, changed |-> FALSE]
                          : r \in Inserted(scan.creates)}
               record == [scan EXCEPT !.pc = IF scan.updates = {} THEN "emit" ELSE "old", !.creates = {},
                                      !.events = events]
    <2>1. AreRows(rows', nextId', last) /\ nextId' \in Nat /\ nextId <= nextId'
      BY <1>2, <1>5, <1>13, CreatedAreRows DEF CreateBatch, Typed, TypeOK, ScanHolds
    <2>2. ScanHolds(scan, nextId', last) /\ SyncHolds(sync, nextId', last)
      BY <1>2, <2>1, HoldsOn DEF Typed, TypeOK, FolderOK
    <2>3. \A e \in events : ~(e.created /\ e.changed)
      OBVIOUS
    <2> HIDE DEF events
    <2>4. ScanHolds(record, nextId', last)
      BY <1>5, <1>13, <2>2, <2>3 DEF CreateBatch, Scans, ScanHolds, AreNew, OncePerFile, Given, FilesApart
    <2> QED  BY <1>1, <1>13, <2>1, <2>2, <2>4 DEF CreateBatch, events
  <1>14. CASE ReadOldHashes
    <2> DEFINE old == {r \in rows : \E u \in scan.updates : u.id = r.id}
    <2> HIDE DEF old
    <2>1. ScanHolds([scan EXCEPT !.pc = "save", !.old = old], nextId, last)
      BY <1>2, <1>5, <1>14 DEF ReadOldHashes, Scans, ScanHolds
    <2> QED  BY <1>1, <1>2, <1>3, <1>14, <2>1 DEF ReadOldHashes, old
  <1>15. CASE SaveBatch
    <2> DEFINE events == {[id |-> u.id, file |-> u.file, created |-> FALSE,
                           changed |-> ~Unchanged(u)] : u \in scan.updates}
               record == [scan EXCEPT !.pc = "emit", !.updates = {}, !.old = {}, !.events = @ \cup events]
    <2>1. nextId' = nextId /\ AreRows(rows', nextId, last)
      BY <1>2, <1>15, SavedAreRows DEF SaveBatch, Save, ScanHolds
    <2>2. \A e \in scan.events \cup events : ~(e.created /\ e.changed)
      BY <1>2 DEF ScanHolds
    <2> HIDE DEF events
    <2>3. AreRows({}, nextId, last) /\ FilesApart({}, scan.found)
      BY DEF AreRows, OncePerFile, NoTwoIds, Numbered, Given, FilesApart
    <2>4. ScanHolds(record, nextId, last)
      BY <1>2, <1>5, <1>15, <2>2, <2>3 DEF SaveBatch, Scans, ScanHolds
    <2> QED  BY <1>1, <1>2, <1>15, <2>1, <2>4 DEF SaveBatch, events
  <1>16. ASSUME NEW e \in scan.events, EmitEvent(e)  PROVE Numbering'
    <2>1. ScanHolds([scan EXCEPT !.events = @ \ {e}], nextId, last)
      BY <1>2, <1>5, <1>16 DEF EmitEvent, Scans, ScanHolds
    <2> QED  BY <1>2, <1>3, <1>16, <2>1 DEF EmitEvent, Numbering, folder, ContentsGiven
  <1>17. CASE AllEmitted
    <2>1. ScanHolds([scan EXCEPT !.pc = "finish"], nextId, last)
      BY <1>2, <1>5, <1>17 DEF AllEmitted, Scans, ScanHolds
    <2> QED  BY <1>1, <1>2, <1>3, <1>17, <2>1 DEF AllEmitted
  <1>18. CASE FinishScan
    <2>1. ScanHolds(NotScanning, nextId, last)
      BY DEF ScanHolds, NotScanning, AreRows, AreNew, OncePerFile, NoTwoIds, Numbered, Given, FilesApart
    <2> QED  BY <1>1, <1>2, <1>3, <1>18, <2>1 DEF FinishScan
  <1> QED
    BY <1>6, <1>7, <1>8, <1>9, <1>10, <1>11, <1>12, <1>13, <1>14, <1>15, <1>16, <1>17, <1>18
    DEF ScanStep

LEMMA SyncKeepsNumbers ==
    ASSUME Typed, Numbering, SyncStep \/ SyncFails \/ StartSync \/ StopSync
    PROVE  Numbering'
  <1>1. ASSUME NEW record, Syncing(record), SyncHolds(record, nextId', last),
               AreRows(rows', nextId', last), ScanHolds(scan, nextId', last)
        PROVE  Numbering'
    BY <1>1 DEF Numbering, Syncing, folder, ContentsGiven
  <1>2. ScanHolds(scan, nextId, last) /\ SyncHolds(sync, nextId, last) /\ AreRows(rows, nextId, last)
    BY DEF Numbering
  <1>3. ASSUME UNCHANGED db  PROVE UNCHANGED <<rows, nextId>>
    BY <1>3 DEF db
  <1>4. sync \in [pc : {"idle", "walk", "load", "files", "create", "save", "extract", "store",
                    "invalidate", "sweep"},
              running : BOOLEAN, page : SUBSET Row, found : SUBSET Stat,
              existing : SUBSET Row, row : SUBSET Row, changed : BOOLEAN,
              content : Contents]
    BY DEF Typed, TypeOK, SyncOK
  <1>5. Given({}, last) /\ AreRows({}, nextId, last) /\ \A S : FilesApart({}, S)
    BY DEF AreRows, OncePerFile, NoTwoIds, Numbered, Given, FilesApart
  <1>6. SyncHolds(NextFile, nextId, last) \/ ~(sync.pc \in {"create", "save"} \cup Following)
    BY <1>2, <1>4, <1>5 DEF NextFile, SyncHolds, Following
  <1>7. CASE StartSync \/ StopSync
    <2>1. PICK record : Syncing(record) /\ SyncHolds(record, nextId, last)
      <3>1. CASE StartSync
        <4>1. SyncHolds([sync EXCEPT !.pc = "walk"], nextId, last)
          BY <1>2, <1>4, <3>1 DEF StartSync, Syncs, SyncHolds, Following
        <4> QED  BY <3>1, <4>1 DEF StartSync
      <3>2. CASE StopSync
        <4>1. SyncHolds([sync EXCEPT !.running = FALSE], nextId, last)
          BY <1>2, <1>4 DEF SyncHolds
        <4> QED  BY <3>2, <4>1 DEF StopSync
      <3> QED  BY <1>7, <3>1, <3>2
    <2> QED  BY <1>1, <1>2, <1>3, <1>7, <2>1 DEF StartSync, StopSync
  <1>8. CASE SyncWalk
    <2>1. OncePerFile(Walked)
      BY DEF OncePerFile, Walked
    <2>2. SyncHolds([sync EXCEPT !.pc = "load", !.found = Walked], nextId, last)
      BY <1>2, <1>4, <1>8, <2>1 DEF SyncWalk, Syncs, SyncHolds, Following, FilesApart
    <2> QED  BY <1>1, <1>2, <1>3, <1>8, <2>2 DEF SyncWalk
  <1>9. CASE SyncLoad
    <2>1. SyncHolds([sync EXCEPT !.pc = "files", !.existing = rows], nextId, last)
      BY <1>2, <1>4, <1>9 DEF SyncLoad, Syncs, SyncHolds, Following
    <2> QED  BY <1>1, <1>2, <1>3, <1>9, <2>1 DEF SyncLoad
  <1>10. CASE SyncFile
    <2>1. PICK n \in sync.found : SyncSkips(n) \/ SyncHashesNew(n) \/ SyncHashesChanged(n)
      BY <1>10 DEF SyncFile
    <2>2. n \in Stat /\ 0 \in Ids /\ sync.pc = "files"
      BY <1>4, <1>10, ConstantsOK DEF Ids, SyncFile, Syncs
    <2>3. FilesApart({n}, sync.found \ {n}) /\ OncePerFile(sync.found \ {n})
      BY <1>2 DEF FilesApart, SyncHolds, OncePerFile
    <2>4. Without(n) = [sync EXCEPT !.found = sync.found \ {n}]
      BY <1>4, <2>2 DEF Without
    <2>5. SyncHolds(Without(n), nextId, last)
      BY <1>2, <1>4, <1>5, <2>2, <2>3, <2>4 DEF SyncHolds, Following
    <2>6. ASSUME NEW id \in Ids, Exists(n.file), NEW S, S = {Hashed(n, id)}
          PROVE  Given(S, last) /\ FilesApart(S, sync.found \ {n}) /\ \A u \in S : u.id = id /\ u.file = n.file
      BY <2>2, <2>3, <2>6, HashedGiven DEF Given, FilesApart, Typed, TypeOK, Numbering
    <2>7. CASE SyncSkips(n)
      BY <1>1, <1>2, <1>3, <1>10, <2>5, <2>7 DEF SyncSkips, SyncFile
    <2>8. CASE SyncHashesNew(n)
      <3> DEFINE S == {Hashed(n, 0)}
      <3>1. /\ Given(S, last) /\ FilesApart(S, sync.found \ {n})
            /\ \A r, q \in S : r = q
        BY <2>2, <2>6, <2>8 DEF SyncHashesNew
      <3> HIDE DEF S
      <3>2. SyncHolds([Without(n) EXCEPT !.pc = "create", !.row = S], nextId, last)
        BY <1>2, <1>4, <2>2, <2>3, <2>4, <2>5, <3>1 DEF SyncHolds, Following
      <3> QED  BY <1>1, <1>2, <1>3, <1>10, <2>8, <3>2 DEF SyncHashesNew, SyncFile, S
    <2>9. CASE SyncHashesChanged(n)
      <3>1. PICK r \in sync.existing :
              /\ r.file = n.file
              /\ Syncing([Without(n) EXCEPT !.pc = "save", !.row = {Hashed(n, r.id)},
                                            !.changed = r.content # disk[n.file].content])
        BY <2>9 DEF SyncHashesChanged
      <3> DEFINE S == {Hashed(n, r.id)}
                 changed == r.content # disk[n.file].content
      <3>2. r.id \in Ids
        BY <1>4 DEF Row
      <3>3. /\ Given(S, last) /\ FilesApart(S, sync.found \ {n})
            /\ \A u \in S : u.id = r.id /\ u.file = n.file
            /\ \A u, q \in S : u = q
        BY <2>6, <2>9, <3>2 DEF SyncHashesChanged
      <3> HIDE DEF S, changed
      <3>4. Numbered(S, nextId) /\ \A u \in S : ImageAmong(u, sync.existing)
        BY <1>2, <3>1, <3>3 DEF Numbered, SyncHolds, AreRows, ImageAmong, SameImage
      <3>5. SyncHolds([Without(n) EXCEPT !.pc = "save", !.row = S, !.changed = changed], nextId, last)
        BY <1>2, <1>4, <2>2, <2>3, <2>4, <2>5, <3>3, <3>4 DEF SyncHolds, Following
      <3> QED  BY <1>1, <1>2, <1>3, <1>10, <3>1, <3>5 DEF SyncFile, S, changed
    <2> QED  BY <2>1, <2>7, <2>8, <2>9
  <1>11. CASE SyncCreates
    <2>1. sync.pc = "create" /\ Create(sync.row) /\ AreNew(sync.row, last)
      BY <1>2, <1>11 DEF SyncCreates, Syncs, SyncHolds, AreNew, OncePerFile
    <2>2. AreRows(rows', nextId', last) /\ nextId' \in Nat /\ nextId <= nextId'
      BY <1>2, <1>4, <2>1, CreatedAreRows DEF Typed, TypeOK
    <2>3. ScanHolds(scan, nextId', last) /\ SyncHolds(sync, nextId', last)
      BY <1>2, <2>2, HoldsOn DEF Typed, TypeOK, FolderOK
    <2>4. Given({}, last) /\ \A S : FilesApart({}, S)
      BY <1>5
    <2>5. SyncHolds(NextFile, nextId', last)
      BY <1>4, <2>1, <2>3, <2>4 DEF NextFile, SyncHolds, Following
    <2>6. ASSUME ~Refused(sync.row)
          PROVE  SyncHolds([sync EXCEPT !.pc = "extract", !.row = Inserted(@)], nextId', last)
      <3> DEFINE S == Inserted(sync.row)
      <3>1. /\ AreRows(S, nextId', last)
            /\ \A r \in S : \E s \in sync.row : r = [s EXCEPT !.id = r.id]
        BY <1>4, <2>1, <2>6, InsertedAreRows DEF Typed, TypeOK
      <3>2. \A r \in S : \E s \in sync.row : r.file = s.file
        BY <1>4, <3>1 DEF Row
      <3> HIDE DEF S
      <3>3. FilesApart(S, sync.found)
        BY <2>3, <3>2 DEF SyncHolds, FilesApart
      <3>4. \A r, q \in S : r = q
        BY <2>3, <3>1, <3>2 DEF SyncHolds, AreRows, OncePerFile
      <3>5. [sync EXCEPT !.pc = "extract", !.row = Inserted(@)] = [sync EXCEPT !.pc = "extract", !.row = S]
        BY DEF S
      <3> QED
        BY <1>4, <2>1, <2>3, <3>1, <3>3, <3>4, <3>5 DEF SyncHolds, Following, AreRows
    <2> QED  BY <1>1, <1>11, <2>2, <2>3, <2>5, <2>6 DEF SyncCreates
  <1>12. CASE SyncSaves
    <2>1. sync.pc = "save" /\ Save(sync.row) /\ AreRows(sync.row, nextId, last)
      BY <1>2, <1>12 DEF SyncSaves, Syncs, SyncHolds, AreRows, OncePerFile, NoTwoIds
    <2>2. nextId' = nextId /\ AreRows(rows', nextId, last)
      BY <1>2, <2>1, SavedAreRows DEF Save
    <2>3. SyncHolds([sync EXCEPT !.pc = "extract"], nextId, last)
      BY <1>2, <1>4, <2>1 DEF SyncHolds, Following
    <2> QED  BY <1>1, <1>2, <1>6, <1>12, <2>1, <2>2, <2>3 DEF SyncSaves
  <1>13. ASSUME sync.pc \in {"extract", "store"}  PROVE SyncHolds(Extracted, nextId, last)
    <2>1. SyncHolds([sync EXCEPT !.pc = "invalidate"], nextId, last)
      BY <1>2, <1>4, <1>13 DEF SyncHolds, Following
    <2> QED  BY <1>6, <1>13, <2>1 DEF Extracted, Following
  <1>14. CASE SyncExtracts
    <2>1. PICK r \in sync.row :
            Syncing(IF Exists(r.file)
                    THEN [sync EXCEPT !.pc = "store", !.content = disk[r.file].content]
                    ELSE Extracted)
      BY <1>14 DEF SyncExtracts
    <2>2. sync.pc = "extract"
      BY <1>14 DEF SyncExtracts, Syncs
    <2> DEFINE content == disk[r.file].content
    <2> HIDE DEF content
    <2>3. SyncHolds([sync EXCEPT !.pc = "store", !.content = content], nextId, last)
      BY <1>2, <1>4, <2>2 DEF SyncHolds, Following
    <2> QED  BY <1>1, <1>2, <1>3, <1>13, <1>14, <2>1, <2>2, <2>3 DEF SyncExtracts, content
  <1>15. CASE SyncFails
    BY <1>1, <1>2, <1>3, <1>13, <1>15 DEF SyncFails, Syncs
  <1>16. CASE SyncStores
    <2>1. nextId' = nextId /\ rows' = rows
      BY <1>16 DEF SyncStores, SetMetadata
    <2> QED  BY <1>1, <1>2, <1>13, <1>16, <2>1 DEF SyncStores, Syncs
  <1>17. CASE SyncInvalidates
    <2>1. nextId' = nextId /\ rows' = rows
      BY <1>17 DEF SyncInvalidates, Invalidate
    <2> QED  BY <1>1, <1>2, <1>6, <1>17, <2>1 DEF SyncInvalidates, Syncs, Following
  <1>18. CASE SyncSweeps
    <2>1. SyncHolds([sync EXCEPT !.pc = "sweep", !.found = {}, !.existing = {}, !.page = rows], nextId, last)
      BY <1>2, <1>4, <1>5, <1>18 DEF SyncSweeps, Syncs, SyncHolds, Following, OncePerFile
    <2> QED  BY <1>1, <1>2, <1>3, <1>18, <2>1 DEF SyncSweeps
  <1>19. CASE SyncSweepsRow
    <2> DEFINE r == FirstOf(sync.page)
    <2>1. SyncHolds([sync EXCEPT !.page = @ \ {r}], nextId, last)
      BY <1>2, <1>4 DEF SyncHolds
    <2>2. nextId' = nextId /\ rows' \in SUBSET rows
      BY <1>3, <1>19 DEF SyncSweepsRow, DeleteCascade
    <2>3. AreRows(rows', nextId', last)
      BY <1>2, <2>2, RowsShrink
    <2> QED  BY <1>1, <1>2, <1>19, <2>1, <2>2, <2>3 DEF SyncSweepsRow
  <1>20. CASE SyncEnds
    <2>1. SyncHolds([sync EXCEPT !.pc = "idle", !.page = {}], nextId, last)
      BY <1>2, <1>4, <1>20 DEF SyncEnds, Syncs, SyncHolds, Following
    <2> QED  BY <1>1, <1>2, <1>3, <1>20, <2>1 DEF SyncEnds
  <1> QED
    BY <1>7, <1>8, <1>9, <1>10, <1>11, <1>12, <1>14, <1>15, <1>16, <1>17, <1>18, <1>19, <1>20
    DEF SyncStep

\* The contents that files get are new, and so none gets back one that it had.
LEMMA FilesChange ==
    ASSUME Typed, ContentsGiven, UserStep
    PROVE  /\ UNCHANGED <<gallery, rows, nextId, derived, metadata, scan, sync, jobs, deriver>>
           /\ last' \in Nat /\ last <= last' /\ ContentsGiven'
           /\ \A f \in Files, content \in 1 .. last :
                disk'[f].content = content => disk[f].content = content
  <1>1. UNCHANGED <<gallery, rows, nextId, derived, metadata, scan, sync, jobs, deriver>>
    BY DEF UserStep, Write, Touch, Change, Vanish, db, children, workers
  <1>2. last' \in Nat /\ last \in Nat /\ last <= last'
    BY DEF UserStep, Write, Touch, Change, Vanish, Typed, TypeOK, FolderOK
  <1>3. PICK f \in Files :
          /\ \A g \in Files \ {f} : disk'[g] = disk[g]
          /\ \/ last' = last + 1 /\ disk'[f].content \in {last + 1, disk[f].content}
             \/ disk'[f].content = 0
    BY DEF UserStep, Write, Touch, Change, Vanish, Typed, TypeOK, FolderOK
  <1>4. \A g \in Files : disk[g].content \in Nat /\ disk[g].content <= last
    BY DEF Typed, TypeOK, FolderOK, ContentsGiven, Contents
  <1>5. ContentsGiven'
    BY <1>2, <1>3, <1>4 DEF ContentsGiven
  <1>6. ASSUME NEW g \in Files, NEW content \in 1 .. last, disk'[g].content = content
        PROVE  disk[g].content = content
    BY <1>2, <1>3, <1>4, <1>6
  <1> QED  BY <1>1, <1>2, <1>5, <1>6

LEMMA InitNumbers == Init => Numbering
  <1>1. \A S : FilesApart({}, S)
    BY DEF FilesApart
  <1>2. \A next, top : AreRows({}, next, top) /\ AreNew({}, top)
    BY DEF AreRows, AreNew, OncePerFile, NoTwoIds, Numbered, Given
  <1> QED
    BY <1>1, <1>2 DEF Init, Numbering, ContentsGiven, ScanHolds, SyncHolds, NotScanning, NotSyncing,
                      OncePerFile, AreNew, Following

LEMMA StepKeepsNumbers ==
    ASSUME Typed, Numbering, [Next]_vars
    PROVE  Numbering'
  <1>1. CASE UNCHANGED <<disk, last, rows, nextId, scan, sync>>
    BY <1>1 DEF Numbering, ContentsGiven
  <1>2. CASE UserStep
    <2>1. /\ UNCHANGED <<rows, nextId, scan, sync>>
          /\ last' \in Nat /\ last <= last' /\ ContentsGiven'
      BY <1>2, FilesChange DEF Numbering
    <2>2. nextId \in Nat
      BY DEF Typed, TypeOK, DbOK
    <2> QED  BY <2>1, <2>2, HoldsOn DEF Numbering
  <1>3. ScanHolds(scan, nextId, last) /\ SyncHolds(sync, nextId, last) /\ AreRows(rows, nextId, last)
    BY DEF Numbering
  <1>4. \A next, top : AreRows({}, next, top) /\ AreNew({}, top)
    BY DEF AreRows, AreNew, OncePerFile, NoTwoIds, Numbered, Given
  <1>6. ScanHolds(NotScanning, nextId, last)
    BY <1>4 DEF ScanHolds, NotScanning, FilesApart, OncePerFile
  <1>7. ASSUME NEW fast \in BOOLEAN, StartScan(fast)  PROVE Numbering'
    <2>1. ScanHolds([NotScanning EXCEPT !.pc = "dirs", !.fast = fast], nextId, last)
      BY <1>6 DEF ScanHolds, NotScanning
    <2> QED  BY <1>3, <1>7, <2>1 DEF StartScan, Scanning, folder, db, Numbering, ContentsGiven
  <1>8. CASE RemoveFolder
    BY <1>3, <1>4, <1>8 DEF RemoveFolder, folder, workers, Numbering, ContentsGiven
  <1>9. CASE AddFolder
    <2>1. ScanHolds([NotScanning EXCEPT !.pc = "walk", !.dirs = TRUE], nextId, last)
      BY <1>6 DEF ScanHolds, NotScanning
    <2> QED  BY <1>3, <1>9, <2>1 DEF AddFolder, ScanSingleDir, folder, db, Numbering, ContentsGiven
  <1>10. CASE Restart
    <2>1. SyncHolds(NotSyncing, nextId, last)
      BY <1>4 DEF SyncHolds, NotSyncing, FilesApart, OncePerFile, Following, AreRows
    <2> QED  BY <1>3, <1>6, <1>10, <2>1 DEF Restart, folder, db, Numbering, ContentsGiven
  <1>11. ASSUME NEW s \in Slots, JobStep(s) \/ JobFails(s)
         PROVE  UNCHANGED <<disk, last, rows, nextId, scan, sync>>
    BY <1>11 DEF JobStep, JobFails, JobExtracts, JobStores, JobInvalidates, Working, SetMetadata,
                 Invalidate, folder, db
  <1>12. ASSUME DeriverStep  PROVE UNCHANGED <<disk, last, rows, nextId, scan, sync>>
    BY <1>12 DEF DeriverStep, Take, Read, SaveDerived, Deriving, folder, db
  <1>13. ASSUME UNCHANGED vars  PROVE UNCHANGED <<disk, last, rows, nextId, scan, sync>>
    BY <1>13 DEF vars
  <1> QED
    BY <1>1, <1>2, <1>7, <1>8, <1>9, <1>10, <1>11, <1>12, <1>13, ScanKeepsNumbers, SyncKeepsNumbers
    DEF Next

-------------------------------------------------------------------------------
(* A scan that no other pass disturbs.  What it still has to do stands in   *)
(* the way of a complete index: rows it has not verified, files before it,  *)
(* and the records of those it has hashed.                                  *)

AsOnDiskNow(r, d) == d[r.file] = [content |-> r.content, stamp |-> r.stamp]
Stays(f, d, st) == f \in st /\ d[f].content # 0
Gone(f, d, st) == f \in st /\ d[f].content = 0
HasCurrent(f, S, d) == \E r \in S : r.file = f /\ AsOnDiskNow(r, d)
FoundAsIs(found, d, st) ==
    \A n \in found : n.file \in st => d[n.file].content # 0 /\ d[n.file].stamp = n.stamp
HashedAsIs(S, d, st) == \A r \in S : r.file \in st => d[r.file].content # 0 /\ AsOnDiskNow(r, d)

Verifying == {"dirs", "page", "verify"}
Storing == {"hash", "create", "old", "save"}

Verified(c, R, d, st) ==
    \A r \in R : (c.pc \in Verifying => r.id <= c.lastId) => ~Gone(r.file, d, st)

PageAhead(c, R) ==
    c.pc = "verify" =>
        /\ c.page \subseteq R
        /\ \A r \in c.page : r.id > c.lastId
        /\ \A q \in R : q.id > c.lastId /\ q \notin c.page => c.more /\ \A r \in c.page : r.id < q.id

Loaded(c, R) ==
    /\ c.pc \in {"purge"} \cup Storing =>
         /\ c.existing \subseteq R
         /\ \A r \in R : r.file \in Known(c.found) => r \in c.existing
    /\ FilesApart(c.creates, R)
    /\ c.pc = "save" => c.old = {r \in R : \E u \in c.updates : u.id = r.id}

Kept(c, R) == IF c.pc = "purge" THEN c.existing ELSE R
Covers(c, R, d, st) ==
    /\ FoundAsIs(c.found, d, st)
    /\ HashedAsIs(c.creates \cup c.updates, d, st)
    /\ c.pc \notin Verifying \cup {"walk"} /\ (c.pc = "finish" => c.dirs) =>
         \A f \in Files : Stays(f, d, st) =>
             \/ f \in Known(c.found)
             \/ f \in Known(c.creates \cup c.updates)
             \/ c.pc # "load" /\ HasCurrent(f, Kept(c, R), d)

ScanSees(c, R, d, st) ==
    Verified(c, R, d, st) /\ PageAhead(c, R) /\ Loaded(c, R) /\ Covers(c, R, d, st)

\* A page of the verification has the next rows, unless there are none.
LEMMA PageIsNext ==
    ASSUME Typed
    PROVE  LET after == {q \in rows : q.id > scan.lastId} IN
           /\ Page \subseteq after
           /\ Page = {} => after = {}
           /\ \A q \in after \ Page : Cardinality(Page) >= PageSize /\ \A r \in Page : r.id < q.id
  <1> DEFINE after == {q \in rows : q.id > scan.lastId}
             between(q) == {p \in rows : scan.lastId < p.id /\ p.id < q.id}
  <1>1. IsFiniteSet(rows) /\ rows \subseteq Row
    BY RowsAreFinite, FS_Subset DEF Typed, TypeOK, DbOK
  <1>2. scan.lastId \in Nat /\ \A r \in rows : r.id \in Nat
    BY <1>1 DEF Typed, TypeOK, ScanOK, Row, Ids
  <1>3. \A q \in rows : IsFiniteSet(between(q)) /\ Cardinality(between(q)) \in Nat
    BY <1>1, FS_Subset, FS_CardinalityType
  <1>4. Page = {r \in after : Cardinality(between(r)) < PageSize}
    BY <1>2 DEF Page
  <1>5. IsFiniteSet(Page) /\ Cardinality(Page) \in Nat
    BY <1>1, <1>4, FS_Subset, FS_CardinalityType
  <1>6. PageSize \in Nat /\ PageSize >= 1
    BY ConstantsOK
  <1>7. ASSUME NEW q \in after \ Page, NEW r \in Page  PROVE r.id < q.id
    <2>1. Cardinality(between(r)) < PageSize /\ ~(Cardinality(between(q)) < PageSize)
      BY <1>4, <1>7
    <2>2. ASSUME q.id <= r.id  PROVE Cardinality(between(q)) <= Cardinality(between(r))
      <3>1. between(q) \subseteq between(r)
        BY <1>2, <1>4, <2>2
      <3> QED  BY <1>3, <1>4, <3>1, FS_Subset
    <2> HIDE DEF between
    <2> QED  BY <1>2, <1>3, <1>4, <1>6, <2>1, <2>2
  <1>8. ASSUME after \ Page # {}  PROVE Cardinality(Page) >= PageSize
    <2> DEFINE q == FirstOf(after \ Page)
    <2>1. q \in after \ Page /\ \A p \in after \ Page : q.id <= p.id
      BY <1>1, <1>8, FirstChosen
    <2> HIDE DEF q
    <2>2. between(q) \subseteq Page
      BY <1>2, <2>1
    <2>3. Cardinality(between(q)) <= Cardinality(Page)
      BY <1>5, <2>2, FS_Subset
    <2>4. ~(Cardinality(between(q)) < PageSize)
      BY <1>4, <2>1
    <2> HIDE DEF between
    <2> QED  BY <1>3, <1>5, <1>6, <2>1, <2>3, <2>4
  <1>9. Page = {} => after = {}
    <2>1. Page = {} => ~(Cardinality(Page) >= PageSize)
      BY <1>6, FS_EmptySet
    <2> QED  BY <1>8, <2>1
  <1> QED  BY <1>4, <1>7, <1>8, <1>9

\* What changes on disk is not steady any more.
LEMMA FilesPass ==
    ASSUME NEW c, NEW R, NEW d, NEW e, NEW st, NEW su,
           \A f \in su : f \in st /\ e[f] = d[f], ScanSees(c, R, d, st)
    PROVE  ScanSees(c, R, e, su)
  <1>1. Verified(c, R, e, su)
    BY DEF ScanSees, Verified, Gone
  <1>2. FoundAsIs(c.found, e, su) /\ HashedAsIs(c.creates \cup c.updates, e, su)
    BY DEF ScanSees, Covers, FoundAsIs, HashedAsIs, AsOnDiskNow
  <1>3. ASSUME NEW f, NEW S, Stays(f, e, su)
        PROVE  Stays(f, d, st) /\ (HasCurrent(f, S, d) => HasCurrent(f, S, e))
    BY <1>3 DEF Stays, HasCurrent, AsOnDiskNow
  <1>4. Covers(c, R, e, su)
    BY <1>2, <1>3 DEF ScanSees, Covers
  <1> QED  BY <1>1, <1>4 DEF ScanSees

\* A row with the stamp of its file is as the file is.
LEMMA StampSays ==
    ASSUME FolderOK, NEW r \in Row, Current(r), disk[r.file].content # 0, disk[r.file].stamp = r.stamp
    PROVE  AsOnDiskNow(r, disk)
  <1>1. disk[r.file] \in [content : Contents, stamp : Contents]
    BY DEF FolderOK, Row
  <1> QED  BY <1>1 DEF Current, LooksUnchanged, Exists, AsOnDiskNow

\* The index on path accepts records of images that are there.
LEMMA SaveGoesThrough ==
    ASSUME NEW S, AreRows(rows, nextId, last), AreRows(S, nextId, last),
           \A u \in S : ImageAmong(u, rows), Save(S)
    PROVE  rows' = Saved(S)
  <1>1. ASSUME NEW r \in rows, NEW u \in S, r.file = u.file, r.id # u.id  PROVE FALSE
    <2>1. PICK q \in rows : q.id = u.id /\ q.file = u.file
      BY DEF ImageAmong, SameImage
    <2> QED  BY <1>1, <2>1 DEF AreRows, OncePerFile
  <1>2. PathsUnique(Saved(S))
    BY <1>1 DEF PathsUnique, Saved, AreRows, OncePerFile
  <1> QED  BY <1>2 DEF Save

\* A walk finds the files as they are, and all of them.
LEMMA WalkedAsIs ==
    ASSUME NEW st
    PROVE  /\ FoundAsIs(Walked, disk, st)
           /\ \A f \in Files : Stays(f, disk, st) => f \in Known(Walked)
  <1>1. ASSUME NEW f \in Files, Stays(f, disk, st)  PROVE f \in Known(Walked)
    <2>1. [file |-> f, stamp |-> disk[f].stamp] \in Walked
      BY <1>1 DEF Walked, Stays, Exists
    <2> QED  BY <2>1 DEF Known
  <1>2. FoundAsIs(Walked, disk, st)
    BY DEF FoundAsIs, Walked, Exists
  <1> QED  BY <1>1, <1>2

LEMMA ScanKeepsSight ==
    ASSUME Typed, Numbering, KnownAndCurrent, ScanStep, NEW st, ScanSees(scan, rows, disk, st)
    PROVE  scan'.pc = "idle" \/ ScanSees(scan', rows', disk, st)
  <1> DEFINE Goal == scan'.pc = "idle" \/ ScanSees(scan', rows', disk, st)
  <1> SUFFICES Goal
    OBVIOUS
  <1>1. scan \in [pc : {"idle", "dirs", "page", "verify", "walk", "load", "purge", "hash",
                    "create", "old", "save", "emit", "finish"},
              fast : BOOLEAN, dirs : BOOLEAN, lastId : Ids, more : BOOLEAN,
              page : SUBSET Row, found : SUBSET Stat, existing : SUBSET Row,
              creates : SUBSET Row, updates : SUBSET Row, old : SUBSET Row,
              events : SUBSET Event]
    BY DEF Typed, TypeOK, ScanOK
  <1>2. ScanHolds(scan, nextId, last) /\ AreRows(rows, nextId, last)
    BY DEF Numbering
  <1>3. /\ Verified(scan, rows, disk, st) /\ PageAhead(scan, rows) /\ Loaded(scan, rows)
        /\ Covers(scan, rows, disk, st)
    BY DEF ScanSees
  <1>4. ASSUME UNCHANGED db  PROVE rows' = rows
    BY <1>4 DEF db
  <1>5. rows \subseteq Row /\ FolderOK
    BY DEF Typed, TypeOK, DbOK
  <1>6. \A S : ~(\E x \in {} : x \in S) /\ FilesApart({}, S) /\ FoundAsIs({}, disk, st)
               /\ HashedAsIs({}, disk, st)
    BY DEF FilesApart, FoundAsIs, HashedAsIs
  <1>7. CASE GetGalleryDirs
    <2> DEFINE record == [scan EXCEPT !.pc = "page", !.dirs = gallery]
    <2>1. scan.pc = "dirs" /\ scan' = record /\ rows' = rows
      BY <1>4, <1>7 DEF GetGalleryDirs, Scans, Scanning
    <2>2. Verified(record, rows, disk, st)
      BY <1>1, <1>3, <2>1 DEF Verified, Verifying
    <2>3. PageAhead(record, rows) /\ Loaded(record, rows)
      BY <1>1, <1>3, <2>1 DEF PageAhead, Loaded, Storing
    <2>4. Covers(record, rows, disk, st)
      BY <1>1, <1>3, <2>1 DEF Covers, Verifying
    <2> HIDE DEF record
    <2> QED  BY <2>1, <2>2, <2>3, <2>4 DEF ScanSees
  <1>8. CASE CleanupPage
    <2> DEFINE more == Cardinality(Page) >= PageSize
               page == Page
               record == [scan EXCEPT !.pc = IF page = {} THEN Index ELSE "verify", !.page = page,
                                      !.more = more]
    <2>1. scan.pc = "page" /\ scan' = record /\ rows' = rows
      BY <1>4, <1>8 DEF CleanupPage, Scans, Scanning
    <2>2. /\ page \subseteq rows /\ \A q \in page : q.id > scan.lastId
          /\ page = {} => \A q \in rows : ~(q.id > scan.lastId)
          /\ \A q \in rows : q.id > scan.lastId /\ q \notin page => more /\ \A r \in page : r.id < q.id
      BY PageIsNext
    <2> HIDE DEF more, page
    <2>3. \A q \in rows : q.id \in Nat /\ scan.lastId \in Nat
      BY <1>1, <1>5 DEF Row, Ids
    <2>4. record.pc = IF page = {} THEN Index ELSE "verify"
      BY <1>1
    <2>5. /\ record.page = page /\ record.more = more /\ record.lastId = scan.lastId /\ record.found = scan.found
          /\ record.creates = scan.creates /\ record.updates = scan.updates /\ record.dirs = scan.dirs
      BY <1>1
    <2>6. \/ page = {} /\ record.pc = "walk" /\ scan.dirs
          \/ page = {} /\ record.pc = "finish" /\ ~scan.dirs
          \/ page # {} /\ record.pc = "verify"
      BY <2>4 DEF Index
    <2> HIDE DEF record
    <2>7. Verified(record, rows, disk, st)
      BY <1>3, <2>1, <2>2, <2>3, <2>5, <2>6 DEF Verified, Verifying
    <2>8. PageAhead(record, rows)
      BY <2>2, <2>5, <2>6 DEF PageAhead
    <2>9. Loaded(record, rows)
      BY <1>3, <2>5, <2>6 DEF Loaded, Storing
    <2>10. Covers(record, rows, disk, st)
      BY <1>3, <2>5, <2>6 DEF Covers, Verifying
    <2> QED  BY <2>1, <2>7, <2>8, <2>9, <2>10 DEF ScanSees
  <1>9. CASE CleanupRow
    <2> DEFINE r == FirstOf(scan.page)
               rest == scan.page \ {r}
               record == [scan EXCEPT !.pc = IF rest # {} THEN "verify" ELSE IF scan.more THEN "page" ELSE Index,
                                      !.page = rest, !.lastId = r.id]
    <2>1. scan.pc = "verify" /\ scan' = record
      BY <1>9 DEF CleanupRow, Scans, Scanning
    <2>2. r \in scan.page /\ \A q \in scan.page : r.id <= q.id
      BY <1>1, <2>1, FirstChosen DEF Typed, Verifies, Scans
    <2>3. \/ Exists(r.file) /\ rows' = rows
          \/ ~Exists(r.file) /\ rows' = {q \in rows : q.id # r.id}
      BY <1>4, <1>9 DEF CleanupRow, DeleteCascade
    <2> HIDE DEF r
    <2>4. r \in rows /\ r.id > scan.lastId
      BY <1>3, <2>1, <2>2 DEF PageAhead
    <2>5. \A q \in rows : q.id \in Nat /\ scan.lastId \in Nat
      BY <1>1, <1>5 DEF Row, Ids
    <2>6. /\ record.page = rest /\ record.more = scan.more /\ record.lastId = r.id /\ record.found = scan.found
          /\ record.creates = scan.creates /\ record.updates = scan.updates /\ record.dirs = scan.dirs
          /\ record.pc = IF rest # {} THEN "verify" ELSE IF scan.more THEN "page" ELSE Index
      BY <1>1
    <2> HIDE DEF record
    <2>7. rest \subseteq rows' /\ \A q \in rest : q.id > r.id
      <3>1. \A q \in rest : q.id # r.id /\ q.id >= r.id /\ q \in rows
        BY <1>2, <1>3, <2>1, <2>2, <2>4 DEF AreRows, NoTwoIds, PageAhead
      <3> QED  BY <2>3, <2>4, <2>5, <3>1
    <2>8. \A q \in rows' : q.id > r.id /\ q \notin rest => scan.more /\ \A p \in rest : p.id < q.id
      <3>1. \A q \in rows' : q \in rows
        BY <2>3
      <3> QED  BY <1>3, <2>1, <2>2, <2>4, <2>5, <3>1 DEF PageAhead
    <2>9. PageAhead(record, rows')
      BY <2>6, <2>7, <2>8 DEF PageAhead
    <2>10. \A q \in rows' : q.id <= r.id => ~Gone(q.file, disk, st)
      <3>1. ASSUME NEW q \in rows', q.id <= r.id  PROVE ~Gone(q.file, disk, st)
        <4>1. q \in rows
          BY <2>3
        <4>2. CASE q.id <= scan.lastId
          BY <1>3, <2>1, <4>1, <4>2 DEF Verified, Verifying
        <4>3. CASE q.id > scan.lastId
          <5>1. q \in scan.page
            BY <1>3, <2>1, <2>2, <2>4, <2>5, <3>1, <4>1, <4>3 DEF PageAhead
          <5>2. q.id = r.id
            BY <2>2, <2>4, <2>5, <3>1, <4>1, <5>1
          <5>3. q = r
            BY <1>2, <2>4, <4>1, <5>2 DEF AreRows, NoTwoIds
          <5> QED  BY <2>3, <5>2, <5>3 DEF Gone, Exists
        <4> QED  BY <2>5, <4>1, <4>2, <4>3
      <3> QED  BY <3>1
    <2>11. record.pc \in {"walk", "finish"} => \A q \in rows' : q.id <= r.id
      <3>1. record.pc \in {"walk", "finish"} => rest = {} /\ ~scan.more
        BY <2>6 DEF Index
      <3>2. \A q \in rows' : q \in rows
        BY <2>3
      <3> QED  BY <2>4, <2>5, <2>8, <3>1, <3>2
    <2>12. record.pc \in {"verify", "page", "walk", "finish"} /\ (record.pc = "finish" => ~record.dirs)
      BY <2>6 DEF Index
    <2>13. Verified(record, rows', disk, st)
      BY <2>6, <2>10, <2>11, <2>12 DEF Verified, Verifying
    <2>14. Loaded(record, rows')
      <3>1. \A q \in rows' : q \in rows
        BY <2>3
      <3> QED  BY <1>3, <2>6, <2>12, <3>1 DEF Loaded, Storing, FilesApart
    <2>15. Covers(record, rows', disk, st)
      BY <1>3, <2>6, <2>12 DEF Covers, Verifying
    <2> QED  BY <2>1, <2>9, <2>13, <2>14, <2>15 DEF ScanSees
  <1>10. CASE WalkFolder
    <2> DEFINE found == Walked
               record == [scan EXCEPT !.pc = IF found = {} THEN "finish" ELSE "load", !.found = found]
    <2>1. scan.pc = "walk" /\ scan' = record /\ rows' = rows
      BY <1>4, <1>10 DEF WalkFolder, Scans, Scanning
    <2>2. FoundAsIs(found, disk, st) /\ \A f \in Files : Stays(f, disk, st) => f \in Known(found)
      BY WalkedAsIs
    <2> HIDE DEF found
    <2>3. /\ record.found = found /\ record.creates = scan.creates /\ record.updates = scan.updates
          /\ record.pc = (IF found = {} THEN "finish" ELSE "load") /\ record.dirs = scan.dirs
      BY <1>1
    <2> HIDE DEF record
    <2>4. Verified(record, rows, disk, st)
      BY <1>3, <2>1, <2>3 DEF Verified, Verifying
    <2>5. PageAhead(record, rows) /\ Loaded(record, rows)
      BY <1>3, <2>1, <2>3 DEF PageAhead, Loaded, Storing
    <2>6. Covers(record, rows, disk, st)
      BY <1>3, <2>2, <2>3 DEF Covers, Verifying, Known
    <2> QED  BY <2>1, <2>4, <2>5, <2>6 DEF ScanSees
  <1>11. CASE LoadExisting
    <2> DEFINE existing == {r \in rows : r.file \in Known(scan.found)}
               todo == Differing(scan.found, existing)
               record == [scan EXCEPT !.pc = IF scan.fast THEN "purge" ELSE Hash(todo),
                                      !.existing = existing, !.found = todo]
    <2>1. scan.pc = "load" /\ scan' = record /\ rows' = rows
      BY <1>4, <1>11 DEF LoadExisting, Scans, Scanning
    <2>2. /\ existing \subseteq rows
          /\ \A r \in rows : r.file \in Known(scan.found) => r \in existing
      OBVIOUS
    <2>3. todo \subseteq scan.found
      BY DEF Differing
    <2>4. \A n \in scan.found \ todo : \E r \in existing : r.file = n.file /\ r.stamp = n.stamp
      BY DEF Differing
    <2>5. /\ record.found = todo /\ record.creates = scan.creates /\ record.updates = scan.updates
          /\ record.pc = (IF scan.fast THEN "purge" ELSE Hash(todo)) /\ record.dirs = scan.dirs
          /\ record.existing = existing
      BY <1>1
    <2>6. record.pc = "purge" \/ record.pc = "hash" \/ (record.pc = "finish" /\ todo = {})
      BY <2>5 DEF Hash
    <2>7. FoundAsIs(todo, disk, st)
      BY <1>3, <2>3 DEF Covers, FoundAsIs
    <2>8. ASSUME NEW f \in Files, Stays(f, disk, st)
          PROVE  f \in Known(todo) \/ HasCurrent(f, existing, disk)
      <3>1. scan.creates = {} /\ scan.updates = {}
        BY <1>2, <2>1 DEF ScanHolds
      <3>2. PICK n \in scan.found : n.file = f
        BY <1>3, <2>1, <2>8, <3>1 DEF Covers, Verifying, Known
      <3>3. disk[f].content # 0 /\ disk[f].stamp = n.stamp
        BY <1>3, <2>8, <3>2 DEF Covers, FoundAsIs, Stays
      <3>4. CASE n \in todo
        BY <3>2, <3>4 DEF Known
      <3>5. CASE n \notin todo
        <4>1. PICK r \in existing : r.file = f /\ r.stamp = n.stamp
          BY <2>4, <3>2, <3>5
        <4>2. r \in Row /\ Current(r)
          BY <1>5, <2>2, <4>1 DEF KnownAndCurrent, AllCurrent
        <4> QED  BY <1>5, <3>3, <4>1, <4>2, StampSays DEF HasCurrent
      <3> QED  BY <3>4, <3>5
    <2> HIDE DEF record, todo, existing
    <2>9. Verified(record, rows, disk, st)
      BY <1>3, <2>1, <2>6 DEF Verified, Verifying
    <2>10. PageAhead(record, rows)
      BY <2>6 DEF PageAhead
    <2>11. Loaded(record, rows)
      BY <1>3, <2>2, <2>3, <2>5, <2>6 DEF Loaded, Storing, Known
    <2>12. Covers(record, rows, disk, st)
      BY <1>3, <2>2, <2>5, <2>6, <2>7, <2>8 DEF Covers, Verifying, Kept, HasCurrent
    <2> QED  BY <2>1, <2>9, <2>10, <2>11, <2>12 DEF ScanSees
  <1>12. CASE PurgeMissing
    <2> DEFINE record == [scan EXCEPT !.pc = Hash(scan.found)]
    <2>1. scan.pc = "purge" /\ scan' = record
      BY <1>12 DEF PurgeMissing, Scans, Scanning
    <2>2. rows' = {r \in rows : r.id \notin ({q.id : q \in rows} \ {q.id : q \in scan.existing})}
      BY <1>12 DEF PurgeMissing, DeleteCascade
    <2>3. scan.existing \subseteq rows
      BY <1>3, <2>1 DEF Loaded
    <2>4. rows' = scan.existing
      BY <1>2, <2>2, <2>3 DEF AreRows, NoTwoIds
    <2>5. /\ record.found = scan.found /\ record.creates = scan.creates /\ record.updates = scan.updates
          /\ record.pc = Hash(scan.found) /\ record.dirs = scan.dirs /\ record.existing = scan.existing
      BY <1>1
    <2>6. record.pc = "hash" \/ (record.pc = "finish" /\ scan.found = {})
      BY <2>5 DEF Hash
    <2> HIDE DEF record
    <2>7. Verified(record, rows', disk, st)
      BY <1>3, <2>1, <2>3, <2>4, <2>6 DEF Verified, Verifying
    <2>8. PageAhead(record, rows')
      BY <2>6 DEF PageAhead
    <2>9. Loaded(record, rows')
      BY <1>3, <2>1, <2>3, <2>4, <2>5, <2>6 DEF Loaded, Storing, FilesApart
    <2>10. Covers(record, rows', disk, st)
      BY <1>3, <2>1, <2>4, <2>5, <2>6 DEF Covers, Verifying, Kept
    <2> QED  BY <2>1, <2>7, <2>8, <2>9, <2>10 DEF ScanSees
  <1>13. ASSUME NEW n \in scan.found, HashFile(n)  PROVE Goal
    <2> DEFINE mine == {r \in scan.existing : r.file = n.file}
               rest == [scan EXCEPT !.found = @ \ {n}, !.pc = IF scan.found = {n} THEN "create" ELSE "hash"]
               new == IF Exists(n.file) /\ mine = {} THEN {Hashed(n, 0)} ELSE {}
               changed == IF Exists(n.file) /\ mine # {} THEN {Hashed(n, r.id) : r \in mine} ELSE {}
               record == [rest EXCEPT !.creates = scan.creates \cup new, !.updates = scan.updates \cup changed]
    <2>1. scan.pc = "hash" /\ rows' = rows
      BY <1>4, <1>13 DEF HashFile, Scans
    <2>2. scan' = record
      <3>1. scan' = (IF ~Exists(n.file) THEN rest
                     ELSE IF mine = {} THEN [rest EXCEPT !.creates = @ \cup {Hashed(n, 0)}]
                     ELSE [rest EXCEPT !.updates = @ \cup {Hashed(n, r.id) : r \in mine}])
        BY <1>13 DEF HashFile, Scanning
      <3>2. ASSUME NEW A, NEW B
            PROVE  /\ [rest EXCEPT !.creates = @ \cup A] = [rest EXCEPT !.creates = scan.creates \cup A]
                   /\ [rest EXCEPT !.updates = @ \cup B] = [rest EXCEPT !.updates = scan.updates \cup B]
        BY <1>1
      <3>3. ASSUME NEW A, NEW B
            PROVE  /\ [rest EXCEPT !.creates = scan.creates \cup A] = [rest EXCEPT !.creates = scan.creates \cup A, !.updates = scan.updates \cup {}]
                   /\ [rest EXCEPT !.updates = scan.updates \cup B] = [rest EXCEPT !.creates = scan.creates \cup {}, !.updates = scan.updates \cup B]
                   /\ rest = [rest EXCEPT !.creates = scan.creates \cup {}, !.updates = scan.updates \cup {}]
        BY <1>1
      <3> HIDE DEF rest, mine
      <3> QED  BY <3>1, <3>2, <3>3
    <2>3. n \in Stat /\ 0 \in Ids /\ n.file \in Files
      BY <1>1, ConstantsOK DEF Ids, Stat
    <2>4. ASSUME Exists(n.file), NEW id \in Ids
          PROVE  Hashed(n, id).file = n.file /\ HashedAsIs({Hashed(n, id)}, disk, st)
      <3> DEFINE h == Hashed(n, id)
      <3>1. h \in Row /\ h.file = n.file /\ h.content = disk[n.file].content /\ h.stamp = n.stamp
        BY <2>3, <2>4, HashedGiven DEF Typed, TypeOK, Numbering
      <3> HIDE DEF h
      <3>2. n.file \in st => disk[n.file].content # 0 /\ disk[n.file].stamp = n.stamp
        BY <1>3 DEF Covers, FoundAsIs
      <3>3. disk[n.file] \in [content : Contents, stamp : Contents]
        BY <1>5, <2>3 DEF FolderOK
      <3>4. HashedAsIs({h}, disk, st)
        BY <3>1, <3>2, <3>3 DEF HashedAsIs, AsOnDiskNow
      <3> QED  BY <3>1, <3>4 DEF h
    <2>5. \A r \in mine : r.id \in Ids
      BY <1>1 DEF Row
    <2>6. HashedAsIs(new, disk, st) /\ \A r \in new : r.file = n.file
      BY <2>3, <2>4 DEF HashedAsIs
    <2>7. HashedAsIs(changed, disk, st) /\ \A r \in changed : r.file = n.file
      BY <2>4, <2>5 DEF HashedAsIs
    <2>8. new # {} => \A r \in rows : r.file # n.file
      BY <1>3, <2>1 DEF Loaded, Storing, Known
    <2>9. Stays(n.file, disk, st) => n.file \in Known(new \cup changed)
      <3>1. Exists(n.file) /\ mine = {} => n.file \in Known(new)
        BY <2>3, <2>4 DEF Known
      <3>2. ASSUME Exists(n.file), mine # {}  PROVE n.file \in Known(changed)
        <4>1. PICK r \in mine : TRUE
          BY <3>2
        <4>2. Hashed(n, r.id) \in changed /\ Hashed(n, r.id).file = n.file
          BY <2>4, <2>5, <3>2, <4>1
        <4> QED  BY <4>2 DEF Known
      <3> QED  BY <3>1, <3>2 DEF Stays, Exists, Known
    <2> HIDE DEF new, changed
    <2>10. /\ record.found = scan.found \ {n} /\ record.creates = scan.creates \cup new
           /\ record.updates = scan.updates \cup changed /\ record.existing = scan.existing
           /\ record.pc = (IF scan.found = {n} THEN "create" ELSE "hash")
      BY <1>1
    <2>11. record.pc = "hash" \/ (record.pc = "create" /\ scan.found = {n})
      BY <2>10
    <2> HIDE DEF record
    <2>12. Verified(record, rows, disk, st)
      BY <1>3, <2>1, <2>11 DEF Verified, Verifying
    <2>13. PageAhead(record, rows)
      BY <2>11 DEF PageAhead
    <2>14. Loaded(record, rows)
      <3>1. FilesApart(scan.creates \cup new, rows)
        BY <1>3, <2>6, <2>8 DEF Loaded, FilesApart
      <3> QED  BY <1>3, <2>1, <2>10, <2>11, <3>1 DEF Loaded, Storing, Known
    <2>15. Covers(record, rows, disk, st)
      <3>1. FoundAsIs(record.found, disk, st)
        BY <1>3, <2>10 DEF Covers, FoundAsIs
      <3>2. HashedAsIs(record.creates \cup record.updates, disk, st)
        BY <1>3, <2>6, <2>7, <2>10 DEF Covers, HashedAsIs
      <3>3. ASSUME NEW f \in Files, Stays(f, disk, st)
            PROVE  \/ f \in Known(record.found)
                   \/ f \in Known(record.creates \cup record.updates)
                   \/ HasCurrent(f, rows, disk)
        <4>1. \/ f \in Known(scan.found)
              \/ f \in Known(scan.creates \cup scan.updates)
              \/ HasCurrent(f, rows, disk)
          BY <1>3, <2>1, <3>3 DEF Covers, Verifying, Kept
        <4>2. CASE f = n.file
          BY <2>9, <2>10, <3>3, <4>2 DEF Known
        <4>3. CASE f # n.file
          BY <2>10, <4>1, <4>3 DEF Known
        <4> QED  BY <4>2, <4>3
      <3> QED  BY <2>11, <3>1, <3>2, <3>3 DEF Covers, Kept
    <2> QED  BY <2>1, <2>2, <2>12, <2>13, <2>14, <2>15 DEF ScanSees
  <1>14. CASE CreateBatch
    <2> DEFINE events == {[id |-> r.id, file |-> r.file, created |-> TRUE, changed |-> FALSE]
                          : r \in Inserted(scan.creates)}
               record == [scan EXCEPT !.pc = IF scan.updates = {} THEN "emit" ELSE "old", !.creates = {},
                                      !.events = events]
               S == Inserted(scan.creates)
    <2>1. scan.pc = "create" /\ scan' = record /\ Create(scan.creates)
      BY <1>14 DEF CreateBatch, Scans, Scanning
    <2>2. ~Refused(scan.creates)
      BY <1>3 DEF Loaded, FilesApart, Refused, Known
    <2>3. rows' = rows \cup S
      BY <2>1, <2>2 DEF Create
    <2>4. /\ \A r \in S : \E s \in scan.creates : r = [s EXCEPT !.id = r.id]
          /\ \A s \in scan.creates : \E r \in S : r = [s EXCEPT !.id = r.id]
      BY <1>1, <1>2, <2>1, <2>2, InsertedAreRows DEF Typed, TypeOK, ScanHolds
    <2>5. \A s \in scan.creates : \A r : r = [s EXCEPT !.id = r.id] =>
              r.file = s.file /\ (AsOnDiskNow(s, disk) => AsOnDiskNow(r, disk))
      BY <1>1 DEF Row, AsOnDiskNow
    <2> HIDE DEF events, S
    <2>6. /\ record.found = scan.found /\ record.creates = {} /\ record.dirs = scan.dirs
          /\ record.updates = scan.updates /\ record.existing = scan.existing
          /\ record.pc = (IF scan.updates = {} THEN "emit" ELSE "old")
      BY <1>1
    <2>7. scan.found = {}
      BY <1>2, <2>1 DEF ScanHolds
    <2>8. record.pc \in {"emit", "old"}
      BY <2>6
    <2> HIDE DEF record
    <2>9. Verified(record, rows', disk, st)
      <3>1. \A r \in S : ~Gone(r.file, disk, st)
        BY <1>3, <2>4, <2>5 DEF Covers, HashedAsIs, Gone
      <3> QED  BY <1>3, <2>1, <2>3, <2>8, <3>1 DEF Verified, Verifying
    <2>10. PageAhead(record, rows')
      BY <2>8 DEF PageAhead
    <2>11. Loaded(record, rows')
      BY <1>3, <1>6, <2>1, <2>3, <2>6, <2>7, <2>8 DEF Loaded, Storing, Known
    <2>12. Covers(record, rows', disk, st)
      <3>1. HashedAsIs(record.creates \cup record.updates, disk, st)
        BY <1>3, <2>6 DEF Covers, HashedAsIs
      <3>2. ASSUME NEW f \in Files, Stays(f, disk, st)
            PROVE  f \in Known(scan.updates) \/ HasCurrent(f, rows', disk)
        <4>1. f \in Known(scan.creates) \/ f \in Known(scan.updates) \/ HasCurrent(f, rows, disk)
          BY <1>3, <2>1, <2>7, <3>2 DEF Covers, Verifying, Kept, Known
        <4>2. CASE f \in Known(scan.creates)
          <5>1. PICK s \in scan.creates : s.file = f
            BY <4>2 DEF Known
          <5>2. AsOnDiskNow(s, disk)
            BY <1>3, <3>2, <5>1 DEF Covers, HashedAsIs, Stays
          <5> QED  BY <2>3, <2>4, <2>5, <5>1, <5>2 DEF HasCurrent
        <4> QED  BY <2>3, <4>1, <4>2 DEF HasCurrent
      <3>3. Known(record.creates \cup record.updates) = Known(scan.updates)
        BY <2>6 DEF Known
      <3> QED  BY <1>6, <2>6, <2>7, <2>8, <3>1, <3>2, <3>3 DEF Covers, Kept
    <2> QED  BY <2>1, <2>9, <2>10, <2>11, <2>12 DEF ScanSees
  <1>15. CASE ReadOldHashes
    <2> DEFINE old == {r \in rows : \E u \in scan.updates : u.id = r.id}
               record == [scan EXCEPT !.pc = "save", !.old = old]
    <2>1. scan.pc = "old" /\ scan' = record /\ rows' = rows
      BY <1>4, <1>15 DEF ReadOldHashes, Scans, Scanning
    <2> HIDE DEF old
    <2>2. /\ record.found = scan.found /\ record.creates = scan.creates /\ record.old = old
          /\ record.updates = scan.updates /\ record.existing = scan.existing /\ record.pc = "save"
      BY <1>1
    <2> HIDE DEF record
    <2>3. Verified(record, rows, disk, st) /\ PageAhead(record, rows)
      BY <1>3, <2>1, <2>2 DEF Verified, Verifying, PageAhead
    <2>4. Loaded(record, rows)
      BY <1>3, <2>1, <2>2 DEF Loaded, Storing, old
    <2>5. Covers(record, rows, disk, st)
      BY <1>3, <2>1, <2>2 DEF Covers, Verifying, Kept
    <2> QED  BY <2>1, <2>3, <2>4, <2>5 DEF ScanSees
  <1>16. CASE SaveBatch
    <2> DEFINE S == scan.updates
               events == {[id |-> u.id, file |-> u.file, created |-> FALSE,
                           changed |-> ~Unchanged(u)] : u \in scan.updates}
               record == [scan EXCEPT !.pc = "emit", !.updates = {}, !.old = {}, !.events = @ \cup events]
    <2>1. scan.pc = "save" /\ scan' = record /\ Save(S)
      BY <1>16 DEF SaveBatch, Scans, Scanning
    <2> HIDE DEF events
    <2>2. /\ record.found = scan.found /\ record.creates = scan.creates
          /\ record.updates = {} /\ record.pc = "emit"
      BY <1>1
    <2> HIDE DEF record
    <2>3. scan.found = {} /\ scan.creates = {}
      BY <1>2, <2>1 DEF ScanHolds
    <2>4. \A u \in S : ImageAmong(u, rows)
      BY <1>2, <1>3, <2>1 DEF ScanHolds, ImageAmong, Loaded, Storing
    <2>5. rows' = Saved(S)
      BY <1>2, <2>1, <2>4, SaveGoesThrough DEF ScanHolds
    <2>6. Verified(record, rows', disk, st)
      <3>1. \A r \in rows : ~Gone(r.file, disk, st)
        BY <1>3, <2>1 DEF Verified, Verifying
      <3>2. \A u \in S : ~Gone(u.file, disk, st)
        BY <2>4, <3>1 DEF ImageAmong, SameImage
      <3> QED  BY <2>5, <3>1, <3>2 DEF Verified, Saved
    <2>7. PageAhead(record, rows') /\ Loaded(record, rows')
      BY <1>6, <2>2, <2>3 DEF PageAhead, Loaded, Storing
    <2>8. ASSUME NEW f \in Files, Stays(f, disk, st)  PROVE HasCurrent(f, rows', disk)
      <3>1. f \in Known(S) \/ HasCurrent(f, rows, disk)
        BY <1>3, <2>1, <2>3, <2>8 DEF Covers, Verifying, Kept, Known
      <3>2. ASSUME NEW u \in S, u.file = f  PROVE HasCurrent(f, rows', disk)
        BY <1>3, <2>5, <2>8, <3>2 DEF Covers, HashedAsIs, Stays, HasCurrent, Saved
      <3>3. ASSUME HasCurrent(f, rows, disk), \A u \in S : u.file # f
            PROVE  HasCurrent(f, rows', disk)
        <4>1. PICK r \in rows : r.file = f /\ AsOnDiskNow(r, disk)
          BY <3>3 DEF HasCurrent
        <4>2. \A u \in S : u.id # r.id
          BY <1>2, <2>4, <3>3, <4>1 DEF ImageAmong, SameImage, AreRows, NoTwoIds
        <4> QED  BY <2>5, <4>1, <4>2 DEF HasCurrent, Saved
      <3> QED  BY <3>1, <3>2, <3>3 DEF Known
    <2>9. Covers(record, rows', disk, st)
      BY <1>6, <2>2, <2>3, <2>8 DEF Covers, Kept
    <2> QED  BY <2>1, <2>6, <2>7, <2>9 DEF ScanSees
  <1>17. ASSUME NEW record, record.pc \in {"emit", "finish"}, scan.pc = "emit", rows' = rows, scan' = record,
                record.found = scan.found, record.creates = scan.creates, record.updates = scan.updates
         PROVE  Goal
    <2>1. scan.found = {} /\ scan.creates = {} /\ scan.updates = {}
      BY <1>2, <1>17 DEF ScanHolds
    <2>2. Verified(record, rows, disk, st) /\ PageAhead(record, rows) /\ Loaded(record, rows)
      BY <1>3, <1>6, <1>17, <2>1 DEF Verified, Verifying, PageAhead, Loaded, Storing
    <2>3. Covers(record, rows, disk, st)
      BY <1>3, <1>17 DEF Covers, Verifying, Kept
    <2> QED  BY <1>17, <2>2, <2>3 DEF ScanSees
  <1>18. ASSUME NEW e \in scan.events, EmitEvent(e)  PROVE Goal
    <2> DEFINE record == [scan EXCEPT !.events = @ \ {e}]
    <2>1. scan.pc = "emit" /\ scan' = record /\ rows' = rows
      BY <1>4, <1>18 DEF EmitEvent, Scans
    <2>2. record.pc = "emit" /\ record.found = scan.found /\ record.creates = scan.creates /\ record.updates = scan.updates
      BY <1>1, <2>1
    <2> HIDE DEF record, Goal
    <2> QED  BY <1>17, <2>1, <2>2
  <1>19. CASE AllEmitted
    <2> DEFINE record == [scan EXCEPT !.pc = "finish"]
    <2>1. scan.pc = "emit" /\ scan' = record /\ rows' = rows
      BY <1>4, <1>19 DEF AllEmitted, Scans, Scanning
    <2>2. record.pc = "finish" /\ record.found = scan.found /\ record.creates = scan.creates /\ record.updates = scan.updates
      BY <1>1, <2>1
    <2> HIDE DEF record, Goal
    <2> QED  BY <1>17, <2>1, <2>2
  <1>20. CASE FinishScan
    BY <1>20 DEF FinishScan, Scanning, NotScanning
  <1> HIDE DEF Goal
  <1> QED
    BY <1>7, <1>8, <1>9, <1>10, <1>11, <1>12, <1>13, <1>14, <1>15, <1>16, <1>18, <1>19, <1>20
    DEF ScanStep

-------------------------------------------------------------------------------
(* A synchronisation that no other pass disturbs *)

SyncLoaded(y, R) ==
    y.pc \in {"files", "create", "save"} \cup Following =>
        \A r \in Row : r.file \in Known(y.found) => (r \in R <=> r \in y.existing)

RowFits(y, R) ==
    /\ y.pc = "create" => FilesApart(y.row, R)
    /\ y.pc = "save" => \A u \in y.row :
         \E r \in R : SameImage(r, u) /\ (~y.changed => r.content = u.content)
    /\ y.pc \in Following => y.row \subseteq R

SyncCovers(y, R, d, st) ==
    /\ FoundAsIs(y.found, d, st)
    /\ HashedAsIs(y.row, d, st)
    /\ y.running /\ y.pc # "walk" => \A f \in Files : Stays(f, d, st) =>
         f \in Known(y.found) \/ f \in Known(y.row) \/ (y.pc # "load" /\ HasCurrent(f, R, d))

Swept(y, R, d, st) ==
    y.pc = "sweep" => y.page \subseteq R /\ \A r \in R : r \in y.page \/ ~Gone(r.file, d, st)

SyncSees(y, R, d, st) ==
    SyncLoaded(y, R) /\ RowFits(y, R) /\ SyncCovers(y, R, d, st) /\ Swept(y, R, d, st)

LEMMA FilesPassSync ==
    ASSUME NEW y, NEW R, NEW d, NEW e, NEW st, NEW su,
           \A f \in su : f \in st /\ e[f] = d[f], SyncSees(y, R, d, st)
    PROVE  SyncSees(y, R, e, su)
  <1>1. Swept(y, R, e, su)
    BY DEF SyncSees, Swept, Gone
  <1>2. FoundAsIs(y.found, e, su) /\ HashedAsIs(y.row, e, su)
    BY DEF SyncSees, SyncCovers, FoundAsIs, HashedAsIs, AsOnDiskNow
  <1>3. ASSUME NEW f, NEW S, Stays(f, e, su)
        PROVE  Stays(f, d, st) /\ (HasCurrent(f, S, d) => HasCurrent(f, S, e))
    BY <1>3 DEF Stays, HasCurrent, AsOnDiskNow
  <1>4. SyncCovers(y, R, e, su)
    BY <1>2, <1>3 DEF SyncSees, SyncCovers
  <1> QED  BY <1>1, <1>4 DEF SyncSees

LEMMA SyncKeepsSight ==
    ASSUME Typed, Numbering, KnownAndCurrent, SyncStep \/ SyncFails \/ StopSync, NEW st,
           SyncSees(sync, rows, disk, st)
    PROVE  sync'.pc = "idle" \/ SyncSees(sync', rows', disk, st) \/ (StopSync /\ sync.pc = "idle")
  <1> DEFINE Goal == \/ sync'.pc = "idle" \/ SyncSees(sync', rows', disk, st)
                     \/ (StopSync /\ sync.pc = "idle")
  <1> SUFFICES Goal
    OBVIOUS
  <1>1. sync \in [pc : {"idle", "walk", "load", "files", "create", "save", "extract", "store",
                    "invalidate", "sweep"},
              running : BOOLEAN, page : SUBSET Row, found : SUBSET Stat,
              existing : SUBSET Row, row : SUBSET Row, changed : BOOLEAN,
              content : Contents]
    BY DEF Typed, TypeOK, SyncOK
  <1>2. SyncHolds(sync, nextId, last) /\ AreRows(rows, nextId, last)
    BY DEF Numbering
  <1>3. /\ SyncLoaded(sync, rows) /\ RowFits(sync, rows) /\ SyncCovers(sync, rows, disk, st)
        /\ Swept(sync, rows, disk, st)
    BY DEF SyncSees
  <1>4. ASSUME UNCHANGED db  PROVE rows' = rows
    BY <1>4 DEF db
  <1>5. rows \subseteq Row /\ FolderOK
    BY DEF Typed, TypeOK, DbOK
  <1>6. \A S : FilesApart({}, S) /\ FoundAsIs({}, disk, st) /\ HashedAsIs({}, disk, st)
    BY DEF FilesApart, FoundAsIs, HashedAsIs
  \* The row it works on is there, and the loop goes on or follows up on it.
  <1>7. ASSUME NEW record, sync.pc \in {"create", "save"} \cup Following, sync' = record,
               record.pc \in {"files"} \cup Following, record.found = sync.found,
               record.existing = sync.existing, record.running = sync.running,
               record.row \subseteq rows', HashedAsIs(record.row, disk, st),
               \A r \in Row : r.file \in Known(sync.found) => (r \in rows' <=> r \in rows),
               \A f \in Files : Stays(f, disk, st) /\ (f \in Known(sync.row) \/ HasCurrent(f, rows, disk))
                    => HasCurrent(f, rows', disk)
        PROVE  Goal
    <2>1. SyncLoaded(record, rows') /\ RowFits(record, rows') /\ Swept(record, rows', disk, st)
      BY <1>3, <1>7 DEF SyncLoaded, RowFits, Swept, Following
    <2>2. SyncCovers(record, rows', disk, st)
      BY <1>3, <1>7 DEF SyncCovers, Following
    <2> QED  BY <1>7, <2>1, <2>2 DEF SyncSees
  <1>8. /\ NextFile.pc = "files" /\ NextFile.found = sync.found /\ NextFile.existing = sync.existing
        /\ NextFile.running = sync.running /\ NextFile.row = {}
    BY <1>1 DEF NextFile
  \* ... when the tables of images stay as they are
  <1>9. ASSUME NEW record, sync.pc \in Following, sync' = record, rows' = rows,
               record.pc \in {"files"} \cup Following, record.found = sync.found,
               record.existing = sync.existing, record.running = sync.running,
               record.row \subseteq sync.row
        PROVE  Goal
    <2>1. record.row \subseteq rows' /\ HashedAsIs(record.row, disk, st)
      BY <1>3, <1>9 DEF RowFits, SyncCovers, HashedAsIs
    <2>2. \A f \in Files : Stays(f, disk, st) /\ f \in Known(sync.row) => HasCurrent(f, rows, disk)
      BY <1>3, <1>9 DEF RowFits, SyncCovers, HashedAsIs, Stays, HasCurrent, Known
    <2> HIDE DEF Goal
    <2> QED  BY <1>7, <1>9, <2>1, <2>2
  <1>10. CASE StopSync
    <2> DEFINE record == [sync EXCEPT !.running = FALSE]
    <2>1. sync' = record /\ rows' = rows
      BY <1>4, <1>10 DEF StopSync, Syncing
    <2>2. /\ record.pc = sync.pc /\ record.found = sync.found /\ record.existing = sync.existing
          /\ record.row = sync.row /\ record.changed = sync.changed /\ record.page = sync.page
          /\ ~record.running
      BY <1>1
    <2> HIDE DEF record
    <2>3. SyncLoaded(record, rows) /\ RowFits(record, rows) /\ Swept(record, rows, disk, st)
      BY <1>3, <2>2 DEF SyncLoaded, RowFits, Swept
    <2>4. SyncCovers(record, rows, disk, st)
      BY <1>3, <2>2 DEF SyncCovers
    <2> QED  BY <2>1, <2>3, <2>4 DEF SyncSees
  <1>11. CASE SyncWalk
    <2> DEFINE found == Walked
               record == [sync EXCEPT !.pc = "load", !.found = found]
    <2>1. sync.pc = "walk" /\ sync' = record /\ rows' = rows
      BY <1>4, <1>11 DEF SyncWalk, Syncs, Syncing
    <2>2. FoundAsIs(found, disk, st) /\ \A f \in Files : Stays(f, disk, st) => f \in Known(found)
      BY WalkedAsIs
    <2> HIDE DEF found
    <2>3. record.pc = "load" /\ record.found = found /\ record.row = sync.row
      BY <1>1
    <2> HIDE DEF record
    <2>4. SyncLoaded(record, rows) /\ RowFits(record, rows) /\ Swept(record, rows, disk, st)
      BY <2>3 DEF SyncLoaded, RowFits, Swept, Following
    <2>5. SyncCovers(record, rows, disk, st)
      BY <1>3, <2>2, <2>3 DEF SyncCovers
    <2> QED  BY <2>1, <2>4, <2>5 DEF SyncSees
  <1>12. CASE SyncLoad
    <2> DEFINE record == [sync EXCEPT !.pc = "files", !.existing = rows]
    <2>1. sync.pc = "load" /\ sync' = record /\ rows' = rows
      BY <1>4, <1>12 DEF SyncLoad, Syncs, Syncing
    <2>2. /\ record.pc = "files" /\ record.found = sync.found /\ record.row = sync.row
          /\ record.existing = rows /\ record.running = sync.running
      BY <1>1
    <2> HIDE DEF record
    <2>3. SyncLoaded(record, rows) /\ RowFits(record, rows) /\ Swept(record, rows, disk, st)
      BY <2>2 DEF SyncLoaded, RowFits, Swept, Following
    <2>4. SyncCovers(record, rows, disk, st)
      BY <1>3, <2>1, <2>2 DEF SyncCovers
    <2> QED  BY <2>1, <2>3, <2>4 DEF SyncSees
  <1>13. CASE SyncFile
    <2>1. PICK n \in sync.found : SyncSkips(n) \/ SyncHashesNew(n) \/ SyncHashesChanged(n)
      BY <1>13 DEF SyncFile
    <2>2. n \in Stat /\ n.file \in Files /\ 0 \in Ids /\ sync.pc = "files" /\ rows' = rows
      BY <1>1, <1>4, <1>13, ConstantsOK DEF Ids, SyncFile, Syncs, Stat
    <2>3. sync.row = {}
      BY <1>2, <2>2 DEF SyncHolds, Following
    <2>4. FoundAsIs(sync.found \ {n}, disk, st)
      BY <1>3 DEF SyncCovers, FoundAsIs
    <2>5. n.file \in st => disk[n.file].content # 0 /\ disk[n.file].stamp = n.stamp
      BY <1>3 DEF SyncCovers, FoundAsIs
    \* The loop goes on with a record of the file, or with its row as it is.
    <2>6. ASSUME NEW record, sync' = record, record.pc \in {"files", "create", "save"},
                 record.found = sync.found \ {n}, record.existing = sync.existing,
                 record.running = sync.running, RowFits(record, rows), HashedAsIs(record.row, disk, st),
                 Stays(n.file, disk, st) => n.file \in Known(record.row) \/ HasCurrent(n.file, rows, disk)
          PROVE  Goal
      <3>1. SyncLoaded(record, rows) /\ Swept(record, rows, disk, st)
        BY <1>3, <2>2, <2>6 DEF SyncLoaded, Swept, Known
      <3>2. ASSUME NEW f \in Files, Stays(f, disk, st), record.running
            PROVE  f \in Known(record.found) \/ f \in Known(record.row) \/ HasCurrent(f, rows, disk)
        <4>1. f \in Known(sync.found) \/ HasCurrent(f, rows, disk)
          BY <1>3, <2>2, <2>3, <2>6, <3>2 DEF SyncCovers, Known
        <4>2. CASE f = n.file
          BY <2>6, <3>2, <4>2
        <4>3. CASE f # n.file
          BY <2>6, <4>1, <4>3 DEF Known
        <4> QED  BY <4>2, <4>3
      <3>3. SyncCovers(record, rows, disk, st)
        BY <2>4, <2>6, <3>2 DEF SyncCovers
      <3> QED  BY <2>2, <2>6, <3>1, <3>3 DEF SyncSees
    <2>7. ASSUME Exists(n.file), NEW id \in Ids, NEW S, S = {Hashed(n, id)}
          PROVE  /\ HashedAsIs(S, disk, st) /\ n.file \in Known(S)
                 /\ \A h \in S : h.id = id /\ h.file = n.file /\ h.content = disk[n.file].content
      <3>1. LET h == Hashed(n, id) IN
            h \in Row /\ h.id = id /\ h.file = n.file /\ h.content = disk[n.file].content /\ h.stamp = n.stamp
        BY <2>2, <2>7, HashedGiven DEF Typed, TypeOK, Numbering
      <3>2. disk[n.file] \in [content : Contents, stamp : Contents]
        BY <1>5, <2>2 DEF FolderOK
      <3> QED  BY <2>5, <2>7, <3>1, <3>2 DEF HashedAsIs, AsOnDiskNow, Known
    <2>8. CASE SyncSkips(n)
      <3> DEFINE record == Without(n)
      <3>1. /\ sync' = record /\ record.pc = "files" /\ record.found = sync.found \ {n}
            /\ record.existing = sync.existing /\ record.running = sync.running /\ record.row = {}
        BY <1>1, <2>3, <2>8 DEF SyncSkips, Syncing, Without
      <3> HIDE DEF record, Goal
      <3>2. RowFits(record, rows)
        BY <3>1 DEF RowFits, Following
      <3>3. Stays(n.file, disk, st) => HasCurrent(n.file, rows, disk)
        <4>1. SUFFICES ASSUME Stays(n.file, disk, st)  PROVE HasCurrent(n.file, rows, disk)
          OBVIOUS
        <4>2. Differing({n}, sync.existing) = {}
          BY <2>8, <4>1 DEF SyncSkips, Stays, Exists
        <4>3. PICK r \in sync.existing : r.file = n.file /\ r.stamp = n.stamp
          BY <4>2 DEF Differing
        <4>4. r \in rows
          BY <1>1, <1>3, <2>2, <4>3 DEF SyncLoaded, Known
        <4>5. r \in Row /\ Current(r)
          BY <1>5, <4>4 DEF KnownAndCurrent, AllCurrent
        <4>6. AsOnDiskNow(r, disk)
          BY <1>5, <2>5, <4>1, <4>3, <4>5, StampSays DEF Stays
        <4> QED  BY <4>3, <4>4, <4>6 DEF HasCurrent
      <3> QED  BY <1>6, <2>6, <3>1, <3>2, <3>3
    <2>9. CASE SyncHashesNew(n)
      <3> DEFINE S == {Hashed(n, 0)}
                 record == [Without(n) EXCEPT !.pc = "create", !.row = S]
      <3>1. sync' = record /\ Exists(n.file) /\ n.file \notin Known(sync.existing)
        BY <2>9 DEF SyncHashesNew, Syncing
      <3>2. /\ HashedAsIs(S, disk, st) /\ n.file \in Known(S)
            /\ \A h \in S : h.file = n.file
        BY <2>2, <2>7, <3>1
      <3> HIDE DEF S
      <3>3. /\ record.pc = "create" /\ record.found = sync.found \ {n}
            /\ record.existing = sync.existing /\ record.running = sync.running /\ record.row = S
        BY <1>1 DEF Without
      <3> HIDE DEF record, Goal
      <3>4. \A r \in rows : r.file # n.file
        BY <1>3, <1>5, <2>2, <3>1 DEF SyncLoaded, Known
      <3>5. RowFits(record, rows)
        BY <3>2, <3>3, <3>4 DEF RowFits, FilesApart, Following
      <3> QED  BY <2>6, <3>1, <3>2, <3>3, <3>5
    <2>10. CASE SyncHashesChanged(n)
      <3>1. PICK r \in sync.existing :
              /\ r.file = n.file
              /\ Syncing([Without(n) EXCEPT !.pc = "save", !.row = {Hashed(n, r.id)},
                                            !.changed = r.content # disk[n.file].content])
        BY <2>10 DEF SyncHashesChanged
      <3> DEFINE S == {Hashed(n, r.id)}
                 changed == r.content # disk[n.file].content
                 record == [Without(n) EXCEPT !.pc = "save", !.row = S, !.changed = changed]
      <3>2. sync' = record /\ Exists(n.file)
        BY <2>10, <3>1 DEF SyncHashesChanged, Syncing
      <3>3. r \in Row /\ r.id \in Ids /\ r \in rows
        BY <1>1, <1>3, <2>2, <3>1 DEF Row, SyncLoaded, Known
      <3>4. /\ HashedAsIs(S, disk, st) /\ n.file \in Known(S)
            /\ \A h \in S : h.id = r.id /\ h.file = n.file /\ (~changed => r.content = h.content)
        BY <2>7, <3>2, <3>3
      <3> HIDE DEF S, changed
      <3>5. /\ record.pc = "save" /\ record.found = sync.found \ {n} /\ record.changed = changed
            /\ record.existing = sync.existing /\ record.running = sync.running /\ record.row = S
        BY <1>1 DEF Without
      <3> HIDE DEF record, Goal
      <3>6. RowFits(record, rows)
        BY <3>1, <3>3, <3>4, <3>5 DEF RowFits, SameImage, Following
      <3> QED  BY <2>6, <3>2, <3>4, <3>5, <3>6
    <2> HIDE DEF Goal
    <2> QED  BY <2>1, <2>8, <2>9, <2>10
  <1>14. CASE SyncCreates
    <2>1. sync.pc = "create" /\ Create(sync.row) /\ AreNew(sync.row, last)
      BY <1>2, <1>14 DEF SyncCreates, Syncs, SyncHolds, AreNew, OncePerFile
    <2>2. ~Refused(sync.row)
      BY <1>3, <2>1 DEF RowFits, FilesApart, Refused, Known
    <2> DEFINE S == Inserted(sync.row)
               record == [sync EXCEPT !.pc = "extract", !.row = S]
    <2>3. rows' = rows \cup S
      BY <2>1, <2>2 DEF Create
    <2>4. sync' = record
      BY <1>14, <2>2 DEF SyncCreates, Syncing
    <2>5. /\ \A r \in S : \E s \in sync.row : r = [s EXCEPT !.id = r.id]
          /\ \A s \in sync.row : \E r \in S : r = [s EXCEPT !.id = r.id]
      BY <1>1, <2>1, <2>2, InsertedAreRows DEF Typed, TypeOK
    <2>6. \A s \in sync.row : \A r : r = [s EXCEPT !.id = r.id] =>
              r.file = s.file /\ (AsOnDiskNow(s, disk) => AsOnDiskNow(r, disk))
      BY <1>1 DEF Row, AsOnDiskNow
    <2> HIDE DEF S
    <2>7. /\ record.pc = "extract" /\ record.found = sync.found /\ record.row = S
          /\ record.existing = sync.existing /\ record.running = sync.running
      BY <1>1
    <2> HIDE DEF record, Goal
    <2>8. HashedAsIs(S, disk, st)
      BY <1>3, <2>5, <2>6 DEF SyncCovers, HashedAsIs
    <2>9. \A r \in S : r.file \notin Known(sync.found)
      BY <1>2, <2>5, <2>6 DEF SyncHolds, FilesApart, Known
    <2>10. \A f \in Files : Stays(f, disk, st) /\ f \in Known(sync.row) => HasCurrent(f, rows', disk)
      BY <1>3, <2>3, <2>5, <2>6 DEF SyncCovers, HashedAsIs, Stays, HasCurrent, Known
    <2>11. \A f : HasCurrent(f, rows, disk) => HasCurrent(f, rows', disk)
      BY <2>3 DEF HasCurrent
    <2> QED  BY <1>7, <2>1, <2>3, <2>4, <2>7, <2>8, <2>9, <2>10, <2>11 DEF Following
  <1>15. CASE SyncSaves
    <2> DEFINE S == sync.row
    <2>1. sync.pc = "save" /\ Save(S) /\ AreRows(S, nextId, last)
      BY <1>2, <1>15 DEF SyncSaves, Syncs, SyncHolds, AreRows, OncePerFile, NoTwoIds, Following
    <2>2. \A u \in S : ImageAmong(u, rows)
      BY <1>3, <2>1 DEF RowFits, ImageAmong, SameImage
    <2>3. rows' = Saved(S)
      BY <1>2, <2>1, <2>2, SaveGoesThrough
    <2>4. S \subseteq rows' /\ HashedAsIs(S, disk, st)
      BY <1>3, <2>3 DEF SyncCovers, Saved
    <2>5. \A r \in Row : r.file \in Known(sync.found) => (r \in rows' <=> r \in rows)
      <3>1. ASSUME NEW u \in S, NEW r \in rows, r.id = u.id  PROVE r.file = u.file
        BY <1>2, <2>2, <3>1 DEF ImageAmong, SameImage, AreRows, NoTwoIds
      <3>2. \A u \in S : u.file \notin Known(sync.found)
        BY <1>2 DEF SyncHolds, FilesApart, Known
      <3> QED  BY <2>3, <3>1, <3>2 DEF Saved
    <2>6. ASSUME NEW f \in Files, Stays(f, disk, st), f \in Known(S) \/ HasCurrent(f, rows, disk)
          PROVE  HasCurrent(f, rows', disk)
      <3>1. ASSUME NEW u \in S, u.file = f  PROVE HasCurrent(f, rows', disk)
        BY <2>4, <2>6, <3>1 DEF HashedAsIs, Stays, HasCurrent
      <3>2. ASSUME HasCurrent(f, rows, disk), \A u \in S : u.file # f
            PROVE  HasCurrent(f, rows', disk)
        <4>1. PICK r \in rows : r.file = f /\ AsOnDiskNow(r, disk)
          BY <3>2 DEF HasCurrent
        <4>2. \A u \in S : u.id # r.id
          BY <1>2, <2>2, <3>2, <4>1 DEF ImageAmong, SameImage, AreRows, NoTwoIds
        <4> QED  BY <2>3, <4>1, <4>2 DEF HasCurrent, Saved
      <3> QED  BY <2>6, <3>1, <3>2 DEF Known
    <2>7. /\ [sync EXCEPT !.pc = "extract"].pc = "extract" /\ [sync EXCEPT !.pc = "extract"].found = sync.found
          /\ [sync EXCEPT !.pc = "extract"].existing = sync.existing /\ [sync EXCEPT !.pc = "extract"].row = S
          /\ [sync EXCEPT !.pc = "extract"].running = sync.running
      BY <1>1
    <2>8. sync' = [sync EXCEPT !.pc = "extract"] \/ sync' = NextFile
      BY <1>15 DEF SyncSaves, Syncing
    <2> HIDE DEF Goal
    <2> QED  BY <1>6, <1>7, <1>8, <2>1, <2>4, <2>5, <2>6, <2>7, <2>8 DEF Following
  <1>16. CASE SyncExtracts \/ SyncFails \/ SyncStores \/ SyncInvalidates
    <2>1. sync.pc \in Following /\ rows' = rows
      BY <1>4, <1>16 DEF SyncExtracts, SyncFails, SyncStores, SyncInvalidates, Syncs, SetMetadata, Invalidate,
                         Following
    <2>2. \/ \E content : sync' = [sync EXCEPT !.pc = "store", !.content = content]
          \/ sync' = [sync EXCEPT !.pc = "invalidate"]
          \/ sync' = NextFile
      BY <1>16 DEF SyncExtracts, SyncFails, SyncStores, SyncInvalidates, Syncing, Extracted
    <2>3. PICK record : /\ sync' = record
                        /\ record.pc \in {"files"} \cup Following /\ record.found = sync.found
                        /\ record.existing = sync.existing /\ record.running = sync.running
                        /\ record.row \subseteq sync.row
      BY <1>1, <1>8, <2>2 DEF Following
    <2> HIDE DEF Goal
    <2> QED  BY <1>9, <2>1, <2>3
  <1>17. CASE SyncSweeps
    <2> DEFINE record == [sync EXCEPT !.pc = "sweep", !.found = {}, !.existing = {}, !.page = rows]
    <2>1. /\ sync.pc = "files" /\ (sync.found = {} \/ ~sync.running)
          /\ sync' = record /\ rows' = rows
      BY <1>4, <1>17 DEF SyncSweeps, Syncs, Syncing
    <2>2. /\ record.pc = "sweep" /\ record.found = {} /\ record.row = sync.row /\ record.page = rows
          /\ record.running = sync.running
      BY <1>1
    <2> HIDE DEF record
    <2>3. SyncLoaded(record, rows) /\ RowFits(record, rows) /\ Swept(record, rows, disk, st)
      BY <2>2 DEF SyncLoaded, RowFits, Swept, Following
    <2>4. SyncCovers(record, rows, disk, st)
      BY <1>3, <1>6, <2>1, <2>2 DEF SyncCovers
    <2> QED  BY <2>1, <2>3, <2>4 DEF SyncSees
  <1>18. CASE SyncSweepsRow
    <2> DEFINE r == FirstOf(sync.page)
               record == [sync EXCEPT !.page = sync.page \ {r}]
    <2>1. sync.pc = "sweep" /\ sync' = record
      BY <1>1, <1>18 DEF SyncSweepsRow, Syncs, Syncing
    <2>2. \/ Exists(r.file) /\ rows' = rows
          \/ ~Exists(r.file) /\ rows' = {q \in rows : q.id # r.id}
      BY <1>4, <1>18 DEF SyncSweepsRow, DeleteCascade
    <2> HIDE DEF r
    <2>3. /\ record.pc = "sweep" /\ record.found = sync.found /\ record.row = sync.row
          /\ record.page = sync.page \ {r} /\ record.running = sync.running
      BY <1>1, <2>1
    <2> HIDE DEF record
    <2>4. sync.found = {} /\ sync.row = {}
      BY <1>2, <2>1 DEF SyncHolds, Following
    <2>5. \A q \in rows : q.id = r.id => q = r
      <3>1. r \in sync.page
        BY <1>1, <1>18, FirstChosen DEF SyncSweepsRow, r
      <3> QED  BY <1>2, <1>3, <2>1, <3>1 DEF Swept, AreRows, NoTwoIds
    <2>6. SyncLoaded(record, rows') /\ RowFits(record, rows')
      BY <2>3 DEF SyncLoaded, RowFits, Following
    <2>7. Swept(record, rows', disk, st)
      <3>1. sync.page \ {r} \subseteq rows'
        BY <1>3, <2>1, <2>2, <2>5 DEF Swept
      <3> QED  BY <1>3, <2>1, <2>2, <2>3, <3>1 DEF Swept, Gone, Exists
    <2>8. ASSUME NEW f \in Files, Stays(f, disk, st), HasCurrent(f, rows, disk)
          PROVE  HasCurrent(f, rows', disk)
      BY <2>2, <2>5, <2>8 DEF HasCurrent, Stays, Exists
    <2>9. SyncCovers(record, rows', disk, st)
      BY <1>3, <1>6, <2>1, <2>3, <2>4, <2>8 DEF SyncCovers
    <2> QED  BY <2>1, <2>6, <2>7, <2>9 DEF SyncSees
  <1>19. CASE SyncEnds
    BY <1>1, <1>19 DEF SyncEnds, Syncing
  <1> HIDE DEF Goal
  <1> QED
    BY <1>10, <1>11, <1>12, <1>13, <1>14, <1>15, <1>16, <1>17, <1>18, <1>19
    DEF SyncStep

-------------------------------------------------------------------------------
(* The scenarios *)

InScenario == scenario \in Scenarios /\ steady \subseteq Files

LEMMA ScenarioKeeps ==
    ASSUME InScenario, [MCNext]_MCVars
    PROVE  InScenario' /\ scenario' = scenario
  BY DEF InScenario, MCNext, MCVars

LEMMA StepOfScenario ==
    ASSUME InScenario, [MCNext]_MCVars
    PROVE  [Next]_vars
  <1>1. CASE UNCHANGED MCVars
    BY <1>1 DEF MCVars
  <1>2. CASE MCNext
    <2>1. scenario.files \subseteq Files
      BY ScenariosOK DEF InScenario, ScenarioOK
    <2>2. MCUserStep => UserStep
      BY <2>1 DEF MCUserStep, UserStep
    <2>3. MCStartPass => Next
      BY DEF MCStartPass, Next
    <2> QED  BY <1>2, <2>2, <2>3 DEF MCNext, Next
  <1> QED  BY <1>1, <1>2

\* What may happen in a step, and what the histories say of it then
LEMMA Histories ==
    ASSUME MCNext
    PROVE  /\ ScanBegins => (alone' => Syncs("idle"))
           /\ SyncBegins /\ ~ScanBegins => (alone' => Scans("idle"))
           /\ ScanBegins \/ SyncBegins => steady' = Files
           /\ ~ScanBegins /\ ~SyncBegins =>
                /\ alone' => alone /\ gallery'
                /\ \A f \in steady' : f \in steady /\ disk'[f] = disk[f]
  BY DEF MCNext

\* Where folders come and go, there is a file for every row and every record.
Present(S, d) == \A r \in S : d[r.file].content # 0
AllPresent ==
    /\ Present(rows, disk) /\ Present(scan.found, disk) /\ Present(sync.found, disk)
    /\ Present(scan.creates, disk) /\ Present(scan.updates, disk) /\ Present(sync.row, disk)
FoldersCome == May("folder") => AllPresent

LEMMA WalkedPresent == Present(Walked, disk)
  BY DEF Present, Walked, Exists

LEMMA InsertedPresent ==
    ASSUME NEW S \in SUBSET Row, Present(S, disk)
    PROVE  Present(Inserted(S), disk)
  BY DEF Present, Inserted, Row

LEMMA HashedPresent ==
    ASSUME NEW S \in SUBSET Stat, Present(S, disk)
    PROVE  Present(HashedFrom(S), disk)
  <1>1. \A n \in S : \A id : Hashed(n, id).file = n.file
    BY DEF Hashed
  <1> QED  BY <1>1 DEF Present, HashedFrom


LEMMA FoldersKeep ==
    ASSUME Typed, InScenario, FoldersCome, [MCNext]_MCVars
    PROVE  FoldersCome'
  <1>1. SUFFICES ASSUME May("folder"), AllPresent  PROVE AllPresent'
    BY ScenarioKeeps DEF FoldersCome, May
  <1>2. /\ scan.found \subseteq Stat /\ sync.found \subseteq Stat /\ scan.creates \subseteq Row
        /\ scan.updates \subseteq Row /\ sync.row \subseteq Row /\ last \in Nat /\ last >= 1
    BY DEF Typed, TypeOK, FolderOK, ScanOK, SyncOK
  <1>3. ~MCUserStep
    <2>1. scenario.changes = 0
      BY <1>1, ScenariosOK DEF InScenario, ScenarioOK, May
    <2> QED  BY <1>2, <2>1 DEF MCUserStep
  <1>4. CASE UNCHANGED <<disk, rows, scan, sync>>
    BY <1>1, <1>4 DEF AllPresent
  <1>5. CASE ScanStep
    <2>1. Present(Inserted(scan.creates), disk) /\ Present(HashedFrom(scan.found), disk)
      BY <1>1, <1>2, InsertedPresent, HashedPresent DEF AllPresent
    <2> QED  BY <1>1, <1>5, <2>1, ScanOnlyHashes, WalkedPresent DEF AllPresent, Present
  <1>6. CASE SyncStep \/ SyncFails \/ StartSync \/ StopSync
    <2>1. Present(Inserted(sync.row), disk) /\ Present(HashedFrom(sync.found), disk)
      BY <1>1, <1>2, InsertedPresent, HashedPresent DEF AllPresent
    <2> QED  BY <1>1, <1>6, <2>1, SyncOnlyHashes, WalkedPresent DEF AllPresent, Present
  <1>7. ASSUME NEW fast \in BOOLEAN, StartScan(fast)  PROVE AllPresent'
    BY <1>1, <1>7 DEF StartScan, Scanning, NotScanning, folder, db, AllPresent, Present
  <1>8. CASE RemoveFolder \/ AddFolder \/ Restart
    <2>1. CASE RemoveFolder
      BY <1>1, <2>1 DEF RemoveFolder, folder, workers, AllPresent, Present
    <2>2. CASE AddFolder
      <3>1. UNCHANGED <<disk, rows, sync>>
        BY <2>2 DEF AddFolder, folder, db
      <3>2. \/ scan' = scan
            \/ scan'.found = {} /\ scan'.creates = {} /\ scan'.updates = {}
        BY <2>2 DEF AddFolder, ScanSingleDir, NotScanning
      <3> QED  BY <1>1, <3>1, <3>2 DEF AllPresent, Present
    <2>3. CASE Restart
      <3>1. UNCHANGED <<disk, rows>>
        BY <2>3 DEF Restart, folder, db
      <3>2. /\ scan'.found = {} /\ scan'.creates = {} /\ scan'.updates = {}
            /\ sync'.found = {} /\ sync'.row = {}
        BY <2>3 DEF Restart, NotScanning, NotSyncing
      <3> QED  BY <1>1, <3>1, <3>2 DEF AllPresent, Present
    <2> QED  BY <1>8, <2>1, <2>2, <2>3
  <1>9. ASSUME NEW s \in Slots, JobStep(s) \/ JobFails(s)  PROVE UNCHANGED <<disk, rows, scan, sync>>
    BY <1>9 DEF JobStep, JobFails, JobExtracts, JobStores, JobInvalidates, Working, SetMetadata,
                Invalidate, folder, db
  <1>10. ASSUME DeriverStep  PROVE UNCHANGED <<disk, rows, scan, sync>>
    BY <1>10 DEF DeriverStep, Take, Read, SaveDerived, Deriving, folder, db
  <1>11. ASSUME UNCHANGED MCVars  PROVE UNCHANGED <<disk, rows, scan, sync>>
    BY <1>11 DEF MCVars, vars
  <1> QED
    BY <1>3, <1>4, <1>5, <1>6, <1>7, <1>8, <1>9, <1>10, <1>11 DEF MCNext, MCStartPass

-------------------------------------------------------------------------------
(* One pass at a time sees what it needs. *)

ScanAlone == alone /\ scan.pc # "idle" => sync.pc = "idle" /\ ScanSees(scan, rows, disk, steady)
SyncAlone == alone /\ sync.pc # "idle" => scan.pc = "idle" /\ SyncSees(sync, rows, disk, steady)
Sight == ScanAlone /\ SyncAlone

LEMMA PassBegins ==
    ASSUME Typed, Numbering, NEW st, NEW record,
           record.found = {}, record.creates = {}, record.updates = {}, record.lastId = 0,
           record.pc = "dirs" \/ (record.pc = "walk" /\ Present(rows, disk))
    PROVE  ScanSees(record, rows, disk, st)
  <1>1. \A r \in rows : r.id \in Nat /\ ~(r.id <= 0)
    BY DEF Numbering, AreRows, Numbered, Typed, TypeOK, DbOK, Row, Ids
  <1>2. Verified(record, rows, disk, st)
    BY <1>1 DEF Verified, Verifying, Present, Gone
  <1>3. PageAhead(record, rows) /\ Loaded(record, rows) /\ Covers(record, rows, disk, st)
    BY DEF PageAhead, Loaded, Storing, Covers, Verifying, FilesApart, FoundAsIs, HashedAsIs
  <1> QED  BY <1>2, <1>3 DEF ScanSees

LEMMA ScanStepRuns ==
    ASSUME Typed, ScanStep
    PROVE  scan.pc # "idle" /\ UNCHANGED <<disk, sync, gallery>>
  <1>1. UNCHANGED <<disk, sync>>
    BY ScanOnlyHashes
  <1>2. \A e \in scan.events : EmitEvent(e) => scan.pc # "idle" /\ UNCHANGED gallery
    BY DEF EmitEvent, Scans
  <1>3. \A n \in scan.found : HashFile(n) => scan.pc # "idle" /\ UNCHANGED gallery
    BY DEF HashFile, Scans, Scanning
  <1> QED
    BY <1>1, <1>2, <1>3
    DEF ScanStep, GetGalleryDirs, CleanupPage, CleanupRow, WalkFolder, LoadExisting, PurgeMissing,
        CreateBatch, ReadOldHashes, SaveBatch, AllEmitted, FinishScan, Scans, Scanning

LEMMA SyncStepRuns ==
    ASSUME SyncStep \/ SyncFails
    PROVE  sync.pc # "idle"
  BY DEF SyncStep, SyncFails, SyncWalk, SyncLoad, SyncFile, SyncCreates, SyncSaves, SyncExtracts, SyncStores,
         SyncInvalidates, SyncSweeps, SyncSweepsRow, SyncEnds, Syncs

LEMMA SightKept ==
    ASSUME Typed, Numbering, KnownAndCurrent, InScenario, FoldersCome, Sight, [MCNext]_MCVars
    PROVE  Sight'
  <1>1. CASE UNCHANGED MCVars
    BY <1>1 DEF MCVars, vars, Sight, ScanAlone, SyncAlone
  <1>2. CASE MCNext /\ UNCHANGED <<rows, scan, sync>>
    <2>1. /\ alone' => alone
          /\ \A f \in steady' : f \in steady /\ disk'[f] = disk[f]
      BY <1>2, Histories DEF ScanBegins, SyncBegins
    <2>2. ScanSees(scan, rows, disk, steady) => ScanSees(scan, rows, disk', steady')
      BY <2>1, FilesPass
    <2>3. SyncSees(sync, rows, disk, steady) => SyncSees(sync, rows, disk', steady')
      BY <2>1, FilesPassSync
    <2> QED  BY <1>2, <2>1, <2>2, <2>3 DEF Sight, ScanAlone, SyncAlone
  <1>3. ASSUME MCNext, NEW fast \in BOOLEAN, StartScan(fast)  PROVE Sight'
    <2>1. ScanBegins /\ UNCHANGED <<disk, rows, sync>> /\ scan' = [NotScanning EXCEPT !.pc = "dirs", !.fast = fast]
      BY <1>3 DEF StartScan, ScanBegins, Scans, Scanning, NotScanning, folder, db
    <2>2. ScanSees(scan', rows, disk, steady')
      BY <2>1, PassBegins DEF NotScanning
    <2>3. alone' => Syncs("idle")
      BY <1>3, <2>1, Histories
    <2> QED  BY <2>1, <2>2, <2>3 DEF Sight, ScanAlone, SyncAlone, Syncs
  <1>4. CASE MCNext /\ StartSync
    <2>1. SyncBegins /\ ~ScanBegins /\ UNCHANGED <<disk, rows, scan>> /\ sync' = [sync EXCEPT !.pc = "walk"]
          /\ sync.pc = "idle" /\ sync'.pc = "walk"
      BY <1>4 DEF StartSync, ScanBegins, SyncBegins, Syncs, Syncing, folder, db, Typed, TypeOK, SyncOK
    <2>2. sync'.found = {} /\ sync'.row = {}
      BY <2>1 DEF Numbering, SyncHolds, Following, Typed, TypeOK, SyncOK
    <2>3. SyncSees(sync', rows, disk, steady')
      BY <2>1, <2>2
      DEF SyncSees, SyncLoaded, RowFits, SyncCovers, Swept, FoundAsIs, HashedAsIs, Following
    <2>4. alone' => Scans("idle")
      BY <1>4, <2>1, Histories
    <2> QED  BY <2>1, <2>3, <2>4 DEF Sight, ScanAlone, SyncAlone, Scans
  <1>5. CASE MCNext /\ ScanStep
    <2>1. scan.pc # "idle" /\ UNCHANGED <<disk, sync>> /\ ~ScanBegins /\ ~SyncBegins
      BY <1>5, ScanStepRuns DEF ScanBegins, SyncBegins
    <2>2. (alone' => alone) /\ \A f \in steady' : f \in steady /\ disk'[f] = disk[f]
      BY <1>5, <2>1, Histories
    <2>3. SUFFICES ASSUME alone, alone'  PROVE Sight'
      BY <2>2 DEF Sight, ScanAlone, SyncAlone
    <2>4. sync.pc = "idle" /\ ScanSees(scan, rows, disk, steady)
      BY <2>1, <2>3 DEF Sight, ScanAlone
    <2>5. scan'.pc = "idle" \/ ScanSees(scan', rows', disk, steady)
      BY <1>5, <2>4, ScanKeepsSight
    <2>6. ScanSees(scan', rows', disk, steady) => ScanSees(scan', rows', disk', steady')
      BY <2>2, FilesPass
    <2> QED  BY <2>1, <2>4, <2>5, <2>6 DEF Sight, ScanAlone, SyncAlone
  <1>6. CASE MCNext /\ (SyncStep \/ SyncFails \/ StopSync)
    <2>1. UNCHANGED <<disk, scan>> /\ ~ScanBegins
      BY <1>6, SyncOnlyHashes DEF ScanBegins
    <2>2. sync.pc = "idle" => StopSync /\ sync'.pc = "idle" /\ rows' = rows
      BY <1>6, SyncStepRuns DEF StopSync, Syncing, Typed, TypeOK, SyncOK, db
    <2>3. (alone' => alone) /\ \A f \in steady' : f \in steady /\ disk'[f] = disk[f]
      BY <1>6, <2>1, <2>2, Histories DEF SyncBegins
    <2>4. SUFFICES ASSUME alone, alone'  PROVE Sight'
      BY <2>3 DEF Sight, ScanAlone, SyncAlone
    <2>5. CASE sync.pc = "idle"
      <3>1. ScanSees(scan, rows, disk, steady) => ScanSees(scan, rows, disk', steady')
        BY <2>3, FilesPass
      <3> QED  BY <2>1, <2>2, <2>4, <2>5, <3>1 DEF Sight, ScanAlone, SyncAlone
    <2>6. CASE sync.pc # "idle"
      <3>1. scan.pc = "idle" /\ SyncSees(sync, rows, disk, steady)
        BY <2>4, <2>6 DEF Sight, SyncAlone
      <3>2. sync'.pc = "idle" \/ SyncSees(sync', rows', disk, steady)
        BY <1>6, <2>6, <3>1, SyncKeepsSight
      <3>3. SyncSees(sync', rows', disk, steady) => SyncSees(sync', rows', disk', steady')
        BY <2>3, FilesPassSync
      <3> QED  BY <2>1, <3>1, <3>2, <3>3 DEF Sight, ScanAlone, SyncAlone
    <2> QED  BY <2>5, <2>6
  <1>7. CASE MCNext /\ May("folder") /\ RemoveFolder
    <2>1. ~ScanBegins /\ ~SyncBegins /\ ~gallery'
      BY <1>7 DEF RemoveFolder, workers, ScanBegins, SyncBegins
    <2> QED  BY <1>7, <2>1, Histories DEF Sight, ScanAlone, SyncAlone
  <1>8. CASE MCNext /\ May("folder") /\ AddFolder
    <2>1. UNCHANGED <<disk, rows, sync>>
      BY <1>8 DEF AddFolder, folder, db
    <2>2. CASE scan.pc # "idle"
      BY <1>2, <1>8, <2>1, <2>2 DEF AddFolder, ScanSingleDir, Scans
    <2>3. CASE scan.pc = "idle"
      <3>1. ScanBegins /\ scan' = [NotScanning EXCEPT !.pc = "walk", !.dirs = TRUE]
        BY <1>8, <2>3 DEF AddFolder, ScanSingleDir, Scans, ScanBegins, NotScanning
      <3>2. ScanSees(scan', rows, disk, steady')
        BY <1>8, <3>1, PassBegins DEF NotScanning, FoldersCome, AllPresent
      <3>3. alone' => Syncs("idle")
        BY <1>8, <3>1, Histories
      <3> QED  BY <2>1, <3>2, <3>3 DEF Sight, ScanAlone, SyncAlone, Syncs
    <2> QED  BY <2>2, <2>3
  <1>9. CASE MCNext /\ Restart
    BY <1>9 DEF Restart, NotScanning, NotSyncing, Sight, ScanAlone, SyncAlone
  <1>10. ASSUME NEW s \in Slots, JobStep(s) \/ JobFails(s)  PROVE UNCHANGED <<rows, scan, sync>>
    BY <1>10 DEF JobStep, JobFails, JobExtracts, JobStores, JobInvalidates, Working, SetMetadata,
                 Invalidate, db
  <1>11. ASSUME DeriverStep  PROVE UNCHANGED <<rows, scan, sync>>
    BY <1>11 DEF DeriverStep, Take, Read, SaveDerived, Deriving, db
  <1>12. ASSUME MCUserStep  PROVE UNCHANGED <<rows, scan, sync>>
    BY <1>12 DEF MCUserStep, Write, Touch, Change, Vanish, db, workers
  <1> QED
    BY <1>1, <1>2, <1>3, <1>4, <1>5, <1>6, <1>7, <1>8, <1>9, <1>10, <1>11, <1>12 DEF MCNext, MCStartPass

\* What a pass leaves behind
LEMMA SightIsCurrent ==
    ASSUME Typed, Numbering, InScenario, Sight
    PROVE  IndexIsCurrent
  <1>1. SUFFICES ASSUME alone, Ends, NEW f \in steady
                 PROVE  AsOnDisk(f) = IF Exists(f) THEN {disk[f]} ELSE {}
    BY DEF IndexIsCurrent
  <1>2. f \in Files /\ rows \subseteq Row
    BY DEF InScenario, Typed, TypeOK, DbOK
  <1>3. /\ \A r \in rows : ~Gone(r.file, disk, steady)
        /\ Stays(f, disk, steady) => HasCurrent(f, rows, disk)
    <2>1. CASE Scans("finish") /\ scan.dirs
      <3>1. ScanSees(scan, rows, disk, steady) /\ scan.pc = "finish"
        BY <1>1, <2>1 DEF Sight, ScanAlone, Scans
      <3>2. scan.found = {} /\ scan.creates = {} /\ scan.updates = {}
        BY <3>1 DEF Numbering, ScanHolds
      <3> QED  BY <1>2, <2>1, <3>1, <3>2 DEF ScanSees, Verified, Verifying, Covers, Kept, Known
    <2>2. CASE Syncs("sweep") /\ sync.page = {} /\ sync.running
      <3>1. SyncSees(sync, rows, disk, steady) /\ sync.pc = "sweep"
        BY <1>1, <2>2 DEF Sight, SyncAlone, Syncs
      <3>2. sync.found = {} /\ sync.row = {}
        BY <3>1 DEF Numbering, SyncHolds, Following
      <3> QED  BY <1>2, <2>2, <3>1, <3>2 DEF SyncSees, Swept, SyncCovers, Known
    <2> QED  BY <1>1, <2>1, <2>2 DEF Ends
  <1>4. CASE Exists(f)
    <2>1. PICK r \in rows : r.file = f /\ disk[f] = [content |-> r.content, stamp |-> r.stamp]
      BY <1>1, <1>3, <1>4 DEF Stays, Exists, HasCurrent, AsOnDiskNow
    <2>2. \A q \in rows : q.file = f => q = r
      BY <2>1 DEF Numbering, AreRows, OncePerFile
    <2> QED  BY <1>4, <2>1, <2>2 DEF AsOnDisk
  <1>5. CASE ~Exists(f)
    BY <1>1, <1>3, <1>5 DEF AsOnDisk, Gone, Exists
  <1> QED  BY <1>4, <1>5

-------------------------------------------------------------------------------
(* What the passes know, all together *)

AllKnown == Typed /\ Numbering /\ KnownAndCurrent /\ InScenario /\ FoldersCome /\ Sight

LEMMA InitKnown == MCInit => AllKnown
  <1> SUFFICES ASSUME MCInit  PROVE AllKnown
    OBVIOUS
  <1>1. Init /\ InScenario
    BY DEF MCInit, InScenario
  <1>2. FoldersCome
    BY <1>1 DEF Init, FoldersCome, AllPresent, Present, NotScanning, NotSyncing
  <1>3. Sight
    BY <1>1 DEF Init, Sight, ScanAlone, SyncAlone, NotScanning, NotSyncing
  <1> QED  BY <1>1, <1>2, <1>3, InitTyped, InitNumbers, InitCurrent DEF AllKnown

LEMMA StepKnown == AllKnown /\ [MCNext]_MCVars => AllKnown'
  <1> SUFFICES ASSUME AllKnown, [MCNext]_MCVars  PROVE AllKnown'
    OBVIOUS
  <1> USE DEF AllKnown
  <1>1. [Next]_vars
    BY StepOfScenario
  <1> QED
    BY <1>1, StepTyped, StepKeepsNumbers, StepKeepsCurrent, ScenarioKeeps, FoldersKeep, SightKept

-------------------------------------------------------------------------------
(* Images are kept. *)

KeepsImage(f) == ImagesOf(f) \subseteq ImagesOf(f)'

LEMMA SavedKeep ==
    ASSUME NoTwoIds(rows), NEW S, \A u \in S : ImageAmong(u, rows), Save(S), NEW f
    PROVE  KeepsImage(f)
  <1>1. ASSUME NEW r \in rows, r.file = f, rows' = Saved(S)
        PROVE  \E q \in rows' : q.file = f /\ q.id = r.id
    <2>1. CASE \A u \in S : u.id # r.id
      BY <1>1, <2>1 DEF Saved
    <2>2. ASSUME NEW u \in S, u.id = r.id  PROVE u \in rows' /\ u.file = f
      BY <1>1, <2>2 DEF Saved, ImageAmong, SameImage, NoTwoIds
    <2> QED  BY <2>1, <2>2
  <1> QED  BY <1>1 DEF KeepsImage, ImagesOf, Save

LEMMA CascadeKeeps ==
    ASSUME NEW S, DeleteCascade(S), NEW f, \A r \in rows : r.file = f => r.id \notin S
    PROVE  KeepsImage(f)
  BY DEF KeepsImage, ImagesOf, DeleteCascade

LEMMA ImagesStay ==
    ASSUME AllKnown, MCNext, alone, alone', NEW f \in steady', Exists(f)
    PROVE  KeepsImage(f)
  <1> USE DEF AllKnown
  <1>1. NoTwoIds(rows) /\ OncePerFile(rows) /\ rows \subseteq Row
    BY DEF Numbering, AreRows, Typed, TypeOK, DbOK
  <1>2. CASE rows' = rows
    BY <1>2 DEF KeepsImage, ImagesOf
  <1>3. ASSUME NEW S, Create(S)  PROVE KeepsImage(f)
    BY <1>3 DEF Create, KeepsImage, ImagesOf
  <1>4. ASSUME NEW S, NEW r \in S, S \subseteq rows, ~Exists(r.file), DeleteCascade({r.id})
        PROVE  KeepsImage(f)
    <2>1. \A q \in rows : q.file = f => q.id # r.id
      BY <1>1, <1>4 DEF NoTwoIds
    <2> QED  BY <1>4, <2>1, CascadeKeeps
  <1>5. CASE ScanStep
    <2>1. scan.pc # "idle" /\ ~ScanBegins /\ ~SyncBegins
      BY <1>5, ScanStepRuns DEF ScanBegins, SyncBegins
    <2>2. f \in steady /\ f \in Files /\ ScanSees(scan, rows, disk, steady)
      BY <2>1, Histories DEF Sight, ScanAlone, InScenario
    <2>3. CASE CleanupRow
      <3>1. FirstOf(scan.page) \in scan.page /\ scan.page \subseteq rows
        BY <1>1, <2>2, <2>3, FirstChosen DEF CleanupRow, Scans, ScanSees, PageAhead, Typed, Verifies
      <3> QED  BY <1>2, <1>4, <2>3, <3>1 DEF CleanupRow, db
    <2>4. CASE PurgeMissing
      <3>1. scan.pc = "purge" /\ scan.creates = {} /\ scan.updates = {}
        BY <2>4 DEF PurgeMissing, Scans, Numbering, ScanHolds
      <3>2. f \in Known(scan.found) \/ HasCurrent(f, scan.existing, disk)
        <4>1. f \notin Known(scan.creates \cup scan.updates)
          BY <3>1 DEF Known
        <4>2. Stays(f, disk, steady) /\ Kept(scan, rows) = scan.existing
          BY <2>2, <3>1 DEF Stays, Exists, Kept
        <4> QED  BY <2>2, <3>1, <4>1, <4>2 DEF ScanSees, Covers, Verifying
      <3>3. /\ scan.existing \subseteq rows
            /\ \A r \in rows : r.file \in Known(scan.found) => r \in scan.existing
        BY <2>2, <3>1 DEF ScanSees, Loaded
      <3>4. \A r \in rows : r.file = f => r \in scan.existing
        BY <1>1, <3>2, <3>3 DEF HasCurrent, OncePerFile
      <3>5. \A r \in rows : r.file = f => r.id \notin {q.id : q \in rows} \ {q.id : q \in scan.existing}
        BY <3>4
      <3> QED  BY <2>4, <3>5, CascadeKeeps DEF PurgeMissing
    <2>5. CASE SaveBatch
      <3>1. \A u \in scan.updates : ImageAmong(u, rows)
        BY <2>2, <2>5 DEF SaveBatch, Scans, ScanSees, Loaded, Storing, Numbering, ScanHolds, ImageAmong
      <3> QED  BY <1>1, <2>5, <3>1, SavedKeep DEF SaveBatch
    <2>6. CASE UNCHANGED rows
      BY <1>2, <2>6
    <2> QED
      BY <1>3, <1>5, <2>3, <2>4, <2>5, <2>6
      DEF ScanStep, GetGalleryDirs, CleanupPage, WalkFolder, LoadExisting, HashFile, CreateBatch,
          ReadOldHashes, EmitEvent, AllEmitted, FinishScan, db
  <1>6. CASE SyncStep \/ SyncFails
    <2>1. sync.pc # "idle" /\ ~ScanBegins /\ ~SyncBegins
      BY <1>6, SyncStepRuns, SyncOnlyHashes DEF ScanBegins, SyncBegins
    <2>2. SyncSees(sync, rows, disk, steady)
      BY <2>1 DEF Sight, SyncAlone
    <2>3. CASE SyncSaves
      <3>1. \A u \in sync.row : ImageAmong(u, rows)
        BY <2>2, <2>3 DEF SyncSaves, Syncs, SyncSees, RowFits, ImageAmong
      <3> QED  BY <1>1, <2>3, <3>1, SavedKeep DEF SyncSaves
    <2>4. CASE SyncSweepsRow
      <3>1. FirstOf(sync.page) \in sync.page /\ sync.page \subseteq rows
        BY <1>1, <2>2, <2>4, FirstChosen DEF SyncSweepsRow, Syncs, SyncSees, Swept
      <3> QED  BY <1>2, <1>4, <2>4, <3>1 DEF SyncSweepsRow, db
    <2>5. CASE UNCHANGED rows
      BY <1>2, <2>5
    <2> QED
      BY <1>3, <1>6, <2>3, <2>4, <2>5
      DEF SyncStep, SyncFails, SyncWalk, SyncLoad, SyncFile, SyncCreates, SyncExtracts, SyncStores,
          SyncInvalidates, SyncSweeps, SyncEnds, SetMetadata, Invalidate, db
  <1>7. ~RemoveFolder
    <2>1. RemoveFolder => ~ScanBegins /\ ~SyncBegins /\ ~gallery'
      BY DEF RemoveFolder, workers, ScanBegins, SyncBegins
    <2> QED  BY <2>1, Histories
  <1>8. (\E fast \in BOOLEAN : StartScan(fast)) \/ StartSync \/ StopSync \/ AddFolder \/ Restart
          \/ MCUserStep => rows' = rows
    BY DEF StartScan, StartSync, StopSync, AddFolder, Restart, MCUserStep, Write, Touch, Change, Vanish, db
  <1>9. ASSUME NEW s \in Slots, JobStep(s) \/ JobFails(s)  PROVE rows' = rows
    BY <1>9 DEF JobStep, JobFails, JobExtracts, JobStores, JobInvalidates, SetMetadata, Invalidate, db
  <1>10. ASSUME DeriverStep  PROVE rows' = rows
    BY <1>10 DEF DeriverStep, Take, Read, SaveDerived, db
  <1> QED  BY <1>2, <1>5, <1>6, <1>7, <1>8, <1>9, <1>10 DEF MCNext, MCStartPass

\* Whatever the scenarios, the files and the page size are: while no other pass
\* interferes, no pass deletes the image of a file that is there, or gives it
\* another id, with which all that hangs on the image would be lost
\* (fastScanGalleryDirectory, cleanupMissingFiles, flushBatch).
THEOREM ImagesKept == MCSpec => ImagesAreKept
  <1> DEFINE Step == alone /\ alone' => \A f \in steady' : Exists(f) => KeepsImage(f)
  <1>1. AllKnown /\ [MCNext]_MCVars => [Step]_MCVars
    BY ImagesStay
  <1>2. Step <=> (alone /\ alone' => \A f \in steady' : Exists(f) => ImagesOf(f) \subseteq ImagesOf(f)')
    BY DEF KeepsImage
  <1> HIDE DEF Step
  <1> QED  BY InitKnown, StepKnown, <1>1, <1>2, PTL DEF MCSpec, ImagesAreKept

-------------------------------------------------------------------------------
(* Serial scenarios.  Of an image whose row has the hash that its file has, *)
(* what was derived and extracted is right, or about to be put right: an    *)
(* event, a goroutine or the synchronisation is still to do it.             *)

ToInvalidate(i, ev, js, y) ==
    \/ \E e \in ev : e.id = i /\ e.changed
    \/ \E s \in Slots : js[s].pc = "invalidate" /\ js[s].id = i
    \/ y.pc \in Following /\ y.changed /\ \E q \in y.row : q.id = i

ToExtract(i, ev, js, y) ==
    \/ \E e \in ev : e.id = i /\ (e.changed \/ e.created)
    \/ \E s \in Slots : js[s].pc \in {"extract", "store"} /\ js[s].id = i
    \/ y.pc \in {"extract", "store"} /\ \E q \in y.row : q.id = i

ReadOf(content, i, R, d) ==
    \A r \in R : r.id = i /\ d[r.file].content = r.content => content = r.content

\* What is still to do, and what was read, is of images that are there.
ImagesThere(R, ev, js, dv) ==
    /\ \A e \in ev : ImageAmong(e, R)
    /\ \A s \in Slots : js[s].pc # "none" => ImageAmong(js[s], R)
    /\ dv.pc # "none" => ImageAmong(dv, R)

ContentsFit(R, d, js, dv, y) ==
    /\ \A s \in Slots : js[s].pc = "store" => ReadOf(js[s].content, js[s].id, R, d)
    /\ dv.pc = "save" => ReadOf(dv.content, dv.id, R, d)
    /\ y.pc = "store" => \A q \in y.row : ReadOf(y.content, q.id, R, d)

DerivedFits(R, d, column, ev, js, y) ==
    \A r \in R : d[r.file].content = r.content =>
        column[r.id] \in {0, r.content} \/ ToInvalidate(r.id, ev, js, y)

MetadataFits(R, d, column, ev, js, y) ==
    \A r \in R : d[r.file].content = r.content =>
        column[r.id] = r.content \/ ToExtract(r.id, ev, js, y)

\* Who has its turn
Turns ==
    /\ alone /\ gallery
    /\ ~PassIdle => deriver = NoJob
    /\ ~Posted => sync.pc = "idle" /\ scan.pc \in {"idle", "emit", "finish"}

Fits ==
    /\ ImagesThere(rows, scan.events, jobs, deriver)
    /\ ContentsFit(rows, disk, jobs, deriver, sync)
    /\ NoOrphans
    /\ DerivedFits(rows, disk, derived, scan.events, jobs, sync)
    /\ ~May("fail") => MetadataFits(rows, disk, metadata, scan.events, jobs, sync)

Serial == May("serial") => Turns /\ Fits

LEMMA InitSerial == MCInit => Serial
  <1> SUFFICES ASSUME MCInit  PROVE Turns /\ Fits
    BY DEF Serial
  <1>1. Init /\ alone
    BY DEF MCInit
  <1>2. /\ rows = {} /\ gallery /\ deriver = NoJob /\ (\A s \in Slots : jobs[s] = NoJob)
        /\ sync.pc = "idle" /\ scan.pc = "idle" /\ scan.events = {}
        /\ \A i \in Ids : derived[i] = 0 /\ metadata[i] = 0
    BY <1>1 DEF Init, NotScanning, NotSyncing
  <1>3. Turns
    BY <1>1, <1>2 DEF Turns, PassIdle, Scans, Syncs
  <1>4. Fits
    BY <1>2 DEF Fits, ImagesThere, ContentsFit, NoOrphans, DerivedFits, MetadataFits, NoJob
  <1> QED  BY <1>3, <1>4

LEMMA TurnsKept ==
    ASSUME AllKnown, May("serial"), Turns, MCNext
    PROVE  Turns'
  <1> USE DEF AllKnown
  <1>1. ~May("folder") /\ ~May("restart")
    BY ScenariosOK DEF InScenario, ScenarioOK, May
  <1>2. CASE UNCHANGED <<gallery, scan, sync, jobs, deriver>>
    BY <1>2 DEF Turns, MCNext, ScanBegins, SyncBegins, PassIdle, Posted, Scans, Syncs, Idle
  <1>3. CASE Quiet /\ \E fast \in BOOLEAN : StartScan(fast)
    <2>1. UNCHANGED <<gallery, sync, jobs, deriver>> /\ ScanBegins
      BY <1>3 DEF StartScan, Scanning, ScanBegins, Scans, NotScanning
    <2> QED  BY <1>3, <2>1 DEF Turns, MCNext, Quiet, PassIdle, Posted, Scans, Syncs, Idle
  <1>4. CASE Quiet /\ StartSync
    <2>1. UNCHANGED <<gallery, scan, jobs, deriver>> /\ SyncBegins /\ ~ScanBegins
      BY <1>4 DEF StartSync, Syncing, ScanBegins, SyncBegins, Syncs, Typed, TypeOK, SyncOK
    <2> QED  BY <1>4, <2>1 DEF Turns, MCNext, Quiet, PassIdle, Posted, Scans, Syncs, Idle
  <1>5. CASE ScanStep
    <2>1. scan.pc # "idle" /\ UNCHANGED <<disk, sync, gallery>> /\ ~ScanBegins /\ ~SyncBegins
      BY <1>5, ScanStepRuns DEF ScanBegins, SyncBegins
    <2>2. alone' /\ gallery' /\ UNCHANGED deriver
      <3>1. UNCHANGED deriver
        BY <1>5 DEF ScanStep, GetGalleryDirs, CleanupPage, CleanupRow, WalkFolder, LoadExisting,
                    PurgeMissing, HashFile, CreateBatch, ReadOldHashes, SaveBatch, EmitEvent, AllEmitted,
                    FinishScan, Scanning
      <3> QED  BY <2>1, <3>1 DEF MCNext, Turns
    <2>3. sync.pc = "idle"
      BY <2>1 DEF Sight, ScanAlone, Turns
    <2>4. (~Posted)' => scan'.pc \in {"idle", "emit", "finish"}
      <3>1. CASE \E e \in scan.events : EmitEvent(e)
        BY <3>1 DEF EmitEvent, Scans, Typed, TypeOK, ScanOK
      <3>2. CASE AllEmitted \/ FinishScan
        BY <3>2 DEF AllEmitted, FinishScan, Scanning, NotScanning, Typed, TypeOK, ScanOK
      <3>3. ASSUME ~(\E e \in scan.events : EmitEvent(e)), ~AllEmitted, ~FinishScan
            PROVE  UNCHANGED jobs /\ scan.pc \notin {"idle", "emit", "finish"}
        BY <1>5, <3>3
        DEF ScanStep, GetGalleryDirs, CleanupPage, CleanupRow, WalkFolder, LoadExisting, PurgeMissing,
            HashFile, CreateBatch, ReadOldHashes, SaveBatch, Scanning, Scans
      <3> QED  BY <3>1, <3>2, <3>3 DEF Turns, Posted, Idle
    <2> QED  BY <2>1, <2>2, <2>3, <2>4 DEF Turns, PassIdle, Scans, Syncs
  <1>6. CASE SyncStep \/ SyncFails \/ StopSync
    <2>1. UNCHANGED <<gallery, scan, jobs, deriver>> /\ ~ScanBegins /\ ~SyncBegins
      <3>1. UNCHANGED <<gallery, scan, jobs, deriver>>
        BY <1>6 DEF SyncStep, SyncFails, StopSync, SyncWalk, SyncLoad, SyncFile, SyncSkips, SyncHashesNew,
                    SyncHashesChanged, SyncCreates, SyncSaves, SyncExtracts, SyncStores, SyncInvalidates,
                    SyncSweeps, SyncSweepsRow, SyncEnds, Syncing
      <3>2. StopSync => sync'.pc = sync.pc
        BY DEF StopSync, Syncing, Typed, TypeOK, SyncOK
      <3> QED  BY <1>6, <3>1, <3>2, SyncStepRuns DEF ScanBegins, SyncBegins
    <2>2. alone' /\ gallery'
      BY <2>1 DEF MCNext, Turns
    <2>3. sync.pc = "idle" => StopSync /\ sync'.pc = "idle"
      BY <1>6, SyncStepRuns DEF StopSync, Syncing, Typed, TypeOK, SyncOK
    <2> QED  BY <2>1, <2>2, <2>3 DEF Turns, PassIdle, Posted, Scans, Syncs, Idle
  <1>7. ASSUME NEW s \in Slots, JobStep(s) \/ JobFails(s)  PROVE Turns'
    <2>1. UNCHANGED <<gallery, scan, sync, deriver>> /\ jobs[s].pc # "none"
      BY <1>7 DEF JobStep, JobFails, JobExtracts, JobStores, JobInvalidates, Working
    <2>2. ~Posted
      BY <2>1 DEF Posted, Idle, NoJob
    <2> QED  BY <2>1, <2>2 DEF Turns, MCNext, ScanBegins, SyncBegins, PassIdle, Scans, Syncs
  <1>8. CASE PassIdle /\ DeriverStep
    <2>1. UNCHANGED <<gallery, scan, sync, jobs>>
      BY <1>8 DEF DeriverStep, Take, Read, SaveDerived, Deriving
    <2> QED  BY <1>8, <2>1 DEF Turns, MCNext, ScanBegins, SyncBegins, PassIdle, Posted, Scans, Syncs, Idle
  <1>9. ASSUME MCUserStep  PROVE UNCHANGED <<gallery, scan, sync, jobs, deriver>>
    BY <1>9 DEF MCUserStep, Write, Touch, Change, Vanish, workers
  <1> QED
    BY <1>1, <1>2, <1>3, <1>4, <1>5, <1>6, <1>7, <1>8, <1>9 DEF MCNext, MCStartPass

\* What leaves the tables and what is to do alone
LEMMA FitsStay ==
    ASSUME Fits, UNCHANGED <<scenario, disk, rows, derived, metadata, jobs, deriver>>,
           scan'.events = scan.events,
           \/ sync' = sync
           \/ sync.pc \notin Following /\ sync'.pc \notin Following
    PROVE  Fits'
  <1>1. \A i : /\ ToInvalidate(i, scan.events, jobs, sync) => ToInvalidate(i, scan.events, jobs, sync')
               /\ ToExtract(i, scan.events, jobs, sync) => ToExtract(i, scan.events, jobs, sync')
    BY DEF ToInvalidate, ToExtract, Following
  <1>2. ContentsFit(rows, disk, jobs, deriver, sync) => ContentsFit(rows, disk, jobs, deriver, sync')
    BY DEF ContentsFit, Following
  <1>3. DerivedFits(rows, disk, derived, scan.events, jobs, sync)
          => DerivedFits(rows, disk, derived, scan.events, jobs, sync')
    BY <1>1 DEF DerivedFits
  <1>4. MetadataFits(rows, disk, metadata, scan.events, jobs, sync)
          => MetadataFits(rows, disk, metadata, scan.events, jobs, sync')
    BY <1>1 DEF MetadataFits
  <1>5. NoOrphans => NoOrphans'
    BY DEF NoOrphans
  <1> QED  BY <1>2, <1>3, <1>4, <1>5 DEF Fits, May

\* No content comes back, and so what fits still does.
LEMMA FitsWithFiles ==
    ASSUME AllKnown, Fits, UserStep, scenario' = scenario
    PROVE  Fits'
  <1> USE DEF AllKnown
  <1>1. /\ UNCHANGED <<rows, derived, metadata, scan, sync, jobs, deriver>>
        /\ \A f \in Files, content \in 1 .. last :
             disk'[f].content = content => disk[f].content = content
    BY FilesChange DEF Numbering
  <1>2. ASSUME NEW r \in rows, disk'[r.file].content = r.content
        PROVE  disk[r.file].content = r.content
    <2>1. r.file \in Files /\ r.content \in Nat /\ last \in Nat
      BY DEF Typed, TypeOK, DbOK, FolderOK, Row, Contents
    <2>2. r.content \in 1 .. last
      BY <2>1 DEF Numbering, AreRows, Given
    <2> QED  BY <1>1, <1>2, <2>1, <2>2
  <1>3. \A content, i : ReadOf(content, i, rows, disk) => ReadOf(content, i, rows, disk')
    BY <1>2 DEF ReadOf
  <1>4. ContentsFit(rows, disk, jobs, deriver, sync) => ContentsFit(rows, disk', jobs, deriver, sync)
    BY <1>3 DEF ContentsFit
  <1>5. DerivedFits(rows, disk, derived, scan.events, jobs, sync)
          => DerivedFits(rows, disk', derived, scan.events, jobs, sync)
    BY <1>2 DEF DerivedFits
  <1>6. MetadataFits(rows, disk, metadata, scan.events, jobs, sync)
          => MetadataFits(rows, disk', metadata, scan.events, jobs, sync)
    BY <1>2 DEF MetadataFits
  <1>7. NoOrphans => NoOrphans'
    BY <1>1 DEF NoOrphans
  <1> QED  BY <1>1, <1>4, <1>5, <1>6, <1>7 DEF Fits, May

\* What an image's file was read for is what its row has, if the file still has
\* that; and of a file that is gone nothing is missed.
LEMMA ReadFits ==
    ASSUME AllKnown, NEW e, ImageAmong(e, rows)
    PROVE  /\ ReadOf(disk[e.file].content, e.id, rows, disk)
           /\ ~Exists(e.file) => \A r \in rows : r.id = e.id => disk[r.file].content # r.content
  <1> USE DEF AllKnown
  <1>1. NoTwoIds(rows) /\ \A r \in rows : 1 <= r.content
    BY DEF Numbering, AreRows, Given
  <1>2. \A r \in rows : r.id = e.id => r.file = e.file
    BY <1>1 DEF ImageAmong, SameImage, NoTwoIds
  <1>3. ~(1 <= 0)
    OBVIOUS
  <1> QED  BY <1>1, <1>2, <1>3 DEF ReadOf, Exists

\* Only one image has an id, and so a result is stored where it belongs.
LEMMA StoreFits ==
    ASSUME AllKnown, NEW i \in Ids, NEW content \in Contents, NEW column \in [Ids -> Contents],
           ReadOf(content, i, rows, disk)
    PROVE  \A r \in rows : disk[r.file].content = r.content =>
               [column EXCEPT ![i] = content][r.id] = IF r.id = i THEN r.content ELSE column[r.id]
  <1>1. \A r \in rows : r.id \in Ids
    BY DEF AllKnown, Typed, TypeOK, DbOK, Row
  <1> QED  BY <1>1 DEF ReadOf

LEMMA FitsWithJob ==
    ASSUME AllKnown, Fits, NEW s \in Slots, JobStep(s) \/ (May("fail") /\ JobFails(s)), scenario' = scenario
    PROVE  Fits'
  <1> USE DEF AllKnown
  <1>1. UNCHANGED <<disk, scan, sync, deriver>> /\ rows' = rows
    BY DEF JobStep, JobFails, JobExtracts, JobStores, JobInvalidates, Working, SetMetadata, Invalidate, db, folder
  <1>2. PICK job : jobs' = [jobs EXCEPT ![s] = job] /\ job.pc \in {"none", "store"}
                   /\ jobs[s].pc # "none" /\ (job.pc # "none" => SameImage(job, jobs[s]))
    <2>1. jobs[s] \in Follower({"none", "extract", "store", "invalidate"})
      BY DEF Typed, TypeOK, JobsOK
    <2>2. NoJob.pc = "none"
      BY DEF NoJob
    <2>3. ASSUME NEW content
          PROVE  SameImage([jobs[s] EXCEPT !.pc = "store", !.content = content], jobs[s])
                 /\ [jobs[s] EXCEPT !.pc = "store", !.content = content].pc = "store"
      BY <2>1 DEF Follower, SameImage
    <2> QED  BY <2>2, <2>3 DEF JobStep, JobFails, JobExtracts, JobStores, JobInvalidates, Working
  <1>3. jobs'[s] = job /\ \A t \in Slots \ {s} : jobs'[t] = jobs[t]
    BY <1>2 DEF Typed, TypeOK, JobsOK
  <1>4. \A j : Working(s, j) => j = job
    BY <1>3 DEF Working, Typed, TypeOK, JobsOK
  <1>5. ImagesThere(rows, scan.events, jobs', deriver)
    BY <1>2, <1>3 DEF Fits, ImagesThere, ImageAmong, SameImage
  <1>6. jobs[s].id \in Ids /\ jobs[s].content \in Contents /\ jobs[s].file \in Files \cup {0}
    BY DEF Typed, TypeOK, JobsOK, Follower
  <1>7. jobs[s].pc # "none" => ImageAmong(jobs[s], rows)
    BY DEF Fits, ImagesThere
  <1>8. \A i : ToInvalidate(i, scan.events, jobs, sync) =>
          ToInvalidate(i, scan.events, jobs', sync) \/ (jobs[s].pc = "invalidate" /\ jobs[s].id = i)
    BY <1>3 DEF ToInvalidate
  <1>9. \A i : ToExtract(i, scan.events, jobs, sync) =>
          ToExtract(i, scan.events, jobs', sync) \/ (jobs[s].pc \in {"extract", "store"} /\ jobs[s].id = i)
    BY <1>3 DEF ToExtract
  <1>10. CASE JobExtracts(s) \/ (May("fail") /\ JobFails(s))
    <2>1. UNCHANGED <<derived, metadata>> /\ jobs[s].pc = "extract"
      BY <1>10 DEF JobExtracts, JobFails, db, children
    <2>2. job.pc = "store" => ReadOf(job.content, job.id, rows, disk)
      <3>1. ASSUME job.pc = "store"  PROVE job.content = disk[jobs[s].file].content /\ job.id = jobs[s].id
        <4>1. job # NoJob
          BY <3>1 DEF NoJob
        <4>2. job = [jobs[s] EXCEPT !.pc = "store", !.content = disk[jobs[s].file].content]
          BY <1>10, <1>4, <4>1 DEF JobExtracts, JobFails
        <4>3. jobs[s] \in Follower({"none", "extract", "store", "invalidate"})
          BY DEF Typed, TypeOK, JobsOK
        <4> QED  BY <4>2, <4>3 DEF Follower
      <3> QED  BY <1>7, <2>1, <3>1, ReadFits
    <2>3. job.pc = "none" => May("fail") \/ ~Exists(jobs[s].file)
      BY <1>2, <1>10, <2>1 DEF JobExtracts, Working, Typed, TypeOK, JobsOK, Follower
    <2>4. ContentsFit(rows, disk, jobs', deriver, sync)
      BY <1>3, <2>2 DEF Fits, ContentsFit
    <2>5. DerivedFits(rows, disk, derived, scan.events, jobs', sync)
      BY <1>8, <2>1 DEF Fits, DerivedFits
    <2>6. ASSUME ~May("fail")  PROVE MetadataFits(rows, disk, metadata, scan.events, jobs', sync)
      <3>1. CASE job.pc = "store"
        <4>1. ToExtract(jobs[s].id, scan.events, jobs', sync)
          BY <1>2, <1>3, <3>1 DEF ToExtract, SameImage
        <4> QED  BY <1>9, <2>1, <2>6, <4>1 DEF Fits, MetadataFits
      <3>2. CASE job.pc = "none"
        <4>1. \A r \in rows : r.id = jobs[s].id => disk[r.file].content # r.content
          BY <1>7, <2>1, <2>3, <2>6, <3>2, ReadFits
        <4> QED  BY <1>9, <2>1, <2>6, <4>1 DEF Fits, MetadataFits
      <3> QED  BY <1>2, <3>1, <3>2
    <2>7. NoOrphans'
      BY <1>1, <2>1 DEF Fits, NoOrphans
    <2> QED  BY <1>1, <1>5, <2>1, <2>4, <2>5, <2>6, <2>7 DEF Fits, May
  <1>11. CASE JobStores(s)
    <2>1. derived' = derived /\ metadata' = [metadata EXCEPT ![jobs[s].id] = jobs[s].content]
          /\ jobs[s].pc = "store" /\ job.pc = "none"
      BY <1>11, <1>4 DEF JobStores, SetMetadata, NoJob
    <2>2. \A r \in rows : disk[r.file].content = r.content =>
               metadata'[r.id] = IF r.id = jobs[s].id THEN r.content ELSE metadata[r.id]
      BY <1>6, <2>1, StoreFits DEF Typed, TypeOK, DbOK, Fits, ContentsFit
    <2>3. ContentsFit(rows, disk, jobs', deriver, sync)
      BY <1>3, <2>1 DEF Fits, ContentsFit
    <2>4. DerivedFits(rows, disk, derived, scan.events, jobs', sync)
      BY <1>8, <2>1 DEF Fits, DerivedFits
    <2>5. ~May("fail") => MetadataFits(rows, disk, metadata', scan.events, jobs', sync)
      BY <1>9, <2>2 DEF Fits, MetadataFits
    <2>6. NoOrphans'
      <3>1. \E r \in rows : r.id = jobs[s].id
        BY <1>7, <2>1 DEF ImageAmong, SameImage
      <3> QED  BY <1>1, <2>1, <3>1 DEF Fits, NoOrphans, Typed, TypeOK, DbOK
    <2> QED  BY <1>1, <1>5, <2>1, <2>3, <2>4, <2>5, <2>6 DEF Fits, May
  <1>12. CASE JobInvalidates(s)
    <2>1. metadata' = metadata /\ derived' = [derived EXCEPT ![jobs[s].id] = 0]
          /\ jobs[s].pc = "invalidate" /\ job.pc = "none"
      BY <1>12, <1>4 DEF JobInvalidates, Invalidate, NoJob
    <2>2. \A i \in Ids : derived'[i] = IF i = jobs[s].id THEN 0 ELSE derived[i]
      BY <1>6, <2>1 DEF Typed, TypeOK, DbOK
    <2>3. ContentsFit(rows, disk, jobs', deriver, sync)
      BY <1>3, <2>1 DEF Fits, ContentsFit
    <2>4. DerivedFits(rows, disk, derived', scan.events, jobs', sync)
      <3>1. \A r \in rows : r.id \in Ids
        BY DEF Typed, TypeOK, DbOK, Row
      <3> QED  BY <1>8, <2>2, <3>1 DEF Fits, DerivedFits
    <2>5. ~May("fail") => MetadataFits(rows, disk, metadata, scan.events, jobs', sync)
      BY <1>9, <2>1 DEF Fits, MetadataFits
    <2>6. NoOrphans'
      BY <1>1, <2>1, <2>2 DEF Fits, NoOrphans
    <2> QED  BY <1>1, <1>5, <2>1, <2>3, <2>4, <2>5, <2>6 DEF Fits, May
  <1> QED  BY <1>10, <1>11, <1>12 DEF JobStep

LEMMA FitsWithDeriver ==
    ASSUME AllKnown, Fits, DeriverStep, scenario' = scenario
    PROVE  Fits'
  <1> USE DEF AllKnown
  <1>1. UNCHANGED <<disk, rows, metadata, scan, sync, jobs>>
    BY DEF DeriverStep, Take, Read, SaveDerived, Deriving, folder, db, children
  <1>2. deriver \in Follower({"none", "read", "save"})
    BY DEF Typed, TypeOK, DeriverOK
  <1>3. NoJob.pc = "none"
    BY DEF NoJob
  <1>4. deriver.pc # "none" => ImageAmong(deriver, rows)
    BY DEF Fits, ImagesThere
  <1>5. CASE \E r \in rows : Take(r)
    <2>1. PICK r \in rows : deriver' = Job("read", r) /\ derived' = derived
      BY <1>5 DEF Take, Deriving, db, children
    <2>2. deriver'.pc = "read" /\ ImageAmong(deriver', rows)
      BY <2>1 DEF Job, ImageAmong, SameImage
    <2>3. NoOrphans'
      BY <1>1, <2>1 DEF Fits, NoOrphans
    <2> QED  BY <1>1, <2>1, <2>2, <2>3 DEF Fits, ImagesThere, ContentsFit, May
  <1>6. CASE Read
    <2>1. derived' = derived /\ deriver.pc = "read"
      BY <1>6 DEF Read, db, children
    <2>2. deriver'.pc = "none" \/
          (/\ deriver'.pc = "save" /\ SameImage(deriver', deriver)
           /\ deriver'.content = disk[deriver.file].content)
      BY <1>2, <1>3, <1>6 DEF Read, Deriving, Follower, SameImage
    <2>3. ImagesThere(rows, scan.events, jobs, deriver') /\ ContentsFit(rows, disk, jobs, deriver', sync)
      BY <1>4, <2>1, <2>2, ReadFits DEF Fits, ImagesThere, ContentsFit, ImageAmong, SameImage
    <2>4. NoOrphans'
      BY <1>1, <2>1 DEF Fits, NoOrphans
    <2> QED  BY <1>1, <2>1, <2>3, <2>4 DEF Fits, May
  <1>7. CASE SaveDerived
    <2>1. deriver'.pc = "none" /\ deriver.pc = "save"
          /\ derived' = [derived EXCEPT ![deriver.id] = deriver.content]
      BY <1>3, <1>7 DEF SaveDerived, Deriving
    <2>2. \A r \in rows : disk[r.file].content = r.content =>
               derived'[r.id] = IF r.id = deriver.id THEN r.content ELSE derived[r.id]
      BY <1>2, <2>1, StoreFits DEF Typed, TypeOK, DbOK, Fits, ContentsFit, Follower
    <2>3. DerivedFits(rows, disk, derived', scan.events, jobs, sync)
      BY <2>2 DEF Fits, DerivedFits
    <2>4. NoOrphans'
      <3>1. \E r \in rows : r.id = deriver.id
        BY <1>4, <2>1 DEF ImageAmong, SameImage
      <3> QED  BY <1>1, <2>1, <3>1 DEF Fits, NoOrphans, Typed, TypeOK, DbOK
    <2> QED  BY <1>1, <2>1, <2>3, <2>4 DEF Fits, ImagesThere, ContentsFit, May
  <1> QED  BY <1>5, <1>6, <1>7 DEF DeriverStep

\* The rows of S go, each with what is derived from it, when nothing is to do.
LEMMA FitsWithout ==
    ASSUME AllKnown, Fits, NEW S, DeleteCascade(S), UNCHANGED <<scenario, disk, jobs, deriver>>,
           \A s \in Slots : jobs[s].pc = "none", deriver.pc = "none",
           scan.events = {}, scan'.events = {},
           sync.pc \notin Following, sync'.pc \notin Following
    PROVE  Fits'
  <1>1. /\ rows' = {r \in rows : r.id \notin S}
        /\ \A i \in Ids : derived'[i] = (IF i \in S THEN 0 ELSE derived[i])
                          /\ metadata'[i] = (IF i \in S THEN 0 ELSE metadata[i])
    BY DEF DeleteCascade, Forget
  <1>2. \A r \in rows' : r \in rows /\ derived'[r.id] = derived[r.id] /\ metadata'[r.id] = metadata[r.id]
    BY <1>1 DEF AllKnown, Typed, TypeOK, DbOK, Row
  <1>3. \A i : ~ToInvalidate(i, scan.events, jobs, sync) /\ ~ToExtract(i, scan.events, jobs, sync)
    BY DEF ToInvalidate, ToExtract, Following
  <1>4. ImagesThere(rows', scan'.events, jobs', deriver') /\ ContentsFit(rows', disk', jobs', deriver', sync')
    BY DEF ImagesThere, ContentsFit, Following
  <1>5. NoOrphans'
    BY <1>1 DEF Fits, NoOrphans
  <1>6. DerivedFits(rows', disk', derived', scan'.events, jobs', sync')
    BY <1>2, <1>3 DEF Fits, DerivedFits
  <1>7. ~May("fail") => MetadataFits(rows', disk', metadata', scan'.events, jobs', sync')
    BY <1>2, <1>3 DEF Fits, MetadataFits
  <1> QED  BY <1>4, <1>5, <1>6, <1>7 DEF Fits, May

\* The rows of an INSERT have ids that nothing hangs on.
LEMMA NewIdsAreFree ==
    ASSUME AllKnown, NoOrphans, NEW r \in Row, nextId <= r.id
    PROVE  derived[r.id] = 0 /\ metadata[r.id] = 0
  <1>1. r.id \in Ids /\ r.id \in Nat /\ nextId \in Nat /\ \A q \in rows : q.id \in Nat /\ q.id < nextId
    BY DEF AllKnown, Numbering, AreRows, Numbered, Typed, TypeOK, DbOK, Row, Ids
  <1>2. \A q \in rows : q.id # r.id
    BY <1>1
  <1> QED  BY <1>1, <1>2 DEF NoOrphans

LEMMA CreatedFits ==
    ASSUME AllKnown, Fits, NEW S \in SUBSET Row, AreNew(S, last), FilesApart(S, rows), Create(S)
    PROVE  /\ rows' = rows \cup Inserted(S) /\ UNCHANGED <<derived, metadata>> /\ ~Refused(S)
           /\ NoOrphans'
           /\ \A r \in Inserted(S) : derived[r.id] = 0 /\ metadata[r.id] = 0
  <1>1. ~Refused(S)
    BY DEF FilesApart, Refused, Known
  <1>2. rows' = rows \cup Inserted(S) /\ UNCHANGED <<derived, metadata>>
    BY <1>1 DEF Create, children
  <1>3. DbOK
    BY DEF AllKnown, Typed, TypeOK
  <1>4. Inserted(S) \subseteq Row /\ \A r \in Inserted(S) : nextId <= r.id
    BY <1>1, <1>3, InsertedAreRows, CreateTyped
  <1>5. \A r \in Inserted(S) : derived[r.id] = 0 /\ metadata[r.id] = 0
    BY <1>4, NewIdsAreFree DEF Fits
  <1> QED  BY <1>1, <1>2, <1>5 DEF Fits, NoOrphans

LEMMA FitsWithCreated ==
    ASSUME AllKnown, Turns, Fits, CreateBatch, alone, scenario' = scenario
    PROVE  Fits'
  <1> USE DEF AllKnown
  <1> DEFINE new == Inserted(scan.creates)
             events == {[id |-> r.id, file |-> r.file, created |-> TRUE, changed |-> FALSE] : r \in new}
  <1>1. scan.pc = "create" /\ Create(scan.creates) /\ UNCHANGED <<disk, sync, jobs, deriver>>
    BY DEF CreateBatch, Scans, Scanning, folder
  <1>2. sync.pc = "idle" /\ ScanSees(scan, rows, disk, steady) /\ deriver = NoJob
        /\ (\A s \in Slots : jobs[s] = NoJob) /\ scan.events = {}
    BY <1>1 DEF Sight, ScanAlone, Turns, PassIdle, Posted, Idle, Scans, Numbering, ScanHolds
  <1>3. scan.creates \subseteq Row /\ AreNew(scan.creates, last) /\ FilesApart(scan.creates, rows)
    BY <1>2 DEF Typed, TypeOK, ScanOK, Numbering, ScanHolds, ScanSees, Loaded
  <1>4. /\ rows' = rows \cup new /\ UNCHANGED <<derived, metadata>> /\ NoOrphans'
        /\ \A r \in new : derived[r.id] = 0 /\ metadata[r.id] = 0
    BY <1>1, <1>3, CreatedFits
  <1>5. scan'.events = events
    BY DEF CreateBatch, Scanning, Typed, TypeOK, ScanOK
  <1>6. \A e \in events : ImageAmong(e, rows')
    BY <1>4 DEF ImageAmong, SameImage
  <1>7. \A r \in new : ToExtract(r.id, events, jobs, sync)
    <2>1. ASSUME NEW r \in new  PROVE \E e \in events : e.id = r.id /\ e.created
      <3>1. [id |-> r.id, file |-> r.file, created |-> TRUE, changed |-> FALSE] \in events
        BY <2>1
      <3> QED  BY <3>1
    <2> QED  BY <2>1 DEF ToExtract
  <1> HIDE DEF new, events
  <1>8. NoJob.pc = "none" /\ "idle" \notin Following
    BY DEF NoJob, Following
  <1>9. \A i : ~ToInvalidate(i, scan.events, jobs, sync) /\ ~ToExtract(i, scan.events, jobs, sync)
    BY <1>2, <1>8 DEF ToInvalidate, ToExtract, Following
  <1>10. ImagesThere(rows', events, jobs, deriver) /\ ContentsFit(rows', disk, jobs, deriver, sync)
    BY <1>2, <1>6, <1>8 DEF ImagesThere, ContentsFit
  <1>11. DerivedFits(rows', disk, derived, events, jobs, sync)
    BY <1>4, <1>9 DEF Fits, DerivedFits
  <1>12. ~May("fail") => MetadataFits(rows', disk, metadata, events, jobs, sync)
    BY <1>4, <1>7, <1>9 DEF Fits, MetadataFits
  <1> QED  BY <1>1, <1>4, <1>5, <1>10, <1>11, <1>12 DEF Fits, May

\* Saving keeps the images, and gives a row of the statement to each of them
\* that has one there.
LEMMA SavedImages ==
    ASSUME AllKnown, NEW S, AreRows(S, nextId, last), \A u \in S : ImageAmong(u, rows), Save(S)
    PROVE  /\ rows' = Saved(S) /\ UNCHANGED <<derived, metadata>>
           /\ \A e : ImageAmong(e, rows) => ImageAmong(e, rows')
           /\ \A r \in rows' : r \in rows \/ r \in S
  <1> USE DEF AllKnown
  <1>1. rows' = Saved(S) /\ UNCHANGED <<derived, metadata>>
    BY SaveGoesThrough DEF Numbering, Save, children
  <1>2. ASSUME NEW e, NEW r \in rows, SameImage(r, e)  PROVE ImageAmong(e, rows')
    <2>1. CASE \A u \in S : u.id # r.id
      BY <1>1, <1>2, <2>1 DEF Saved, ImageAmong
    <2>2. ASSUME NEW u \in S, u.id = r.id  PROVE u \in rows' /\ SameImage(u, e)
      BY <1>1, <1>2, <2>2 DEF Saved, ImageAmong, SameImage, Numbering, AreRows, NoTwoIds
    <2> QED  BY <2>1, <2>2 DEF ImageAmong
  <1>3. \A r \in rows' : r \in rows \/ r \in S
    BY <1>1 DEF Saved
  <1> QED  BY <1>1, <1>2, <1>3 DEF ImageAmong

LEMMA SavedNoOrphans ==
    ASSUME NoOrphans, rows \subseteq Row, UNCHANGED <<derived, metadata>>,
           \A e : ImageAmong(e, rows) => ImageAmong(e, rows')
    PROVE  NoOrphans'
  <1>1. ASSUME NEW r \in rows  PROVE \E q \in rows' : q.id = r.id
    <2>1. ImageAmong(r, rows)
      BY <1>1 DEF ImageAmong, SameImage
    <2> QED  BY <2>1 DEF ImageAmong, SameImage
  <1> QED  BY <1>1 DEF NoOrphans

LEMMA FitsWithSaved ==
    ASSUME AllKnown, Turns, Fits, SaveBatch, alone, scenario' = scenario
    PROVE  Fits'
  <1> USE DEF AllKnown
  <1> DEFINE events == {[id |-> u.id, file |-> u.file, created |-> FALSE,
                         changed |-> ~Unchanged(u)] : u \in scan.updates}
  <1>1. scan.pc = "save" /\ Save(scan.updates) /\ UNCHANGED <<disk, sync, jobs, deriver>>
    BY DEF SaveBatch, Scans, Scanning, folder
  <1>2. sync.pc = "idle" /\ ScanSees(scan, rows, disk, steady) /\ deriver = NoJob
        /\ (\A s \in Slots : jobs[s] = NoJob)
    BY <1>1 DEF Sight, ScanAlone, Turns, PassIdle, Posted, Idle, Scans
  <1>3. /\ AreRows(scan.updates, nextId, last)
        /\ \A u \in scan.updates : ImageAmong(u, rows)
    BY <1>1, <1>2 DEF ScanSees, Loaded, Storing, Numbering, ScanHolds, ImageAmong
  <1>4. /\ rows' = Saved(scan.updates) /\ UNCHANGED <<derived, metadata>>
        /\ \A e : ImageAmong(e, rows) => ImageAmong(e, rows')
        /\ \A r \in rows' : r \in rows \/ r \in scan.updates
    BY <1>1, <1>3, SavedImages
  <1>5. NoOrphans'
    BY <1>4, SavedNoOrphans DEF Fits, Typed, TypeOK, DbOK
  <1>6. scan'.events = scan.events \cup events
    BY DEF SaveBatch, Scanning, Typed, TypeOK, ScanOK
  <1>7. ASSUME NEW u \in scan.updates
        PROVE  \/ \E e \in events : e.id = u.id /\ e.changed
               \/ \E r \in rows : r.id = u.id /\ r.file = u.file /\ r.content = u.content
    <2>1. CASE Unchanged(u)
      <3>1. PICK r \in rows : r.id = u.id /\ r.content = u.content
        BY <1>1, <1>2, <2>1 DEF Unchanged, ScanSees, Loaded
      <3>2. r.file = u.file
        BY <1>3, <3>1 DEF ImageAmong, SameImage, Numbering, AreRows, NoTwoIds
      <3> QED  BY <3>1, <3>2
    <2>2. CASE ~Unchanged(u)
      <3>1. [id |-> u.id, file |-> u.file, created |-> FALSE, changed |-> ~Unchanged(u)] \in events
        OBVIOUS
      <3> QED  BY <2>2, <3>1
    <2> QED  BY <2>1, <2>2
  <1>8. \A e \in events : ImageAmong(e, rows')
    <2>1. \A u \in scan.updates : u \in rows'
      BY <1>4 DEF Saved
    <2> QED  BY <2>1 DEF ImageAmong, SameImage
  <1> HIDE DEF events
  <1>9. NoJob.pc = "none" /\ "idle" \notin Following
    BY DEF NoJob, Following
  <1>10. \A i : /\ ToInvalidate(i, scan.events, jobs, sync) => ToInvalidate(i, scan'.events, jobs, sync)
                /\ ToExtract(i, scan.events, jobs, sync) => ToExtract(i, scan'.events, jobs, sync)
                /\ (\E e \in events : e.id = i /\ e.changed) =>
                     ToInvalidate(i, scan'.events, jobs, sync) /\ ToExtract(i, scan'.events, jobs, sync)
    BY <1>6 DEF ToInvalidate, ToExtract
  <1>11. ImagesThere(rows', scan'.events, jobs, deriver) /\ ContentsFit(rows', disk, jobs, deriver, sync)
    BY <1>2, <1>4, <1>6, <1>8, <1>9 DEF Fits, ImagesThere, ContentsFit
  <1>12. ASSUME NEW r \in rows', disk[r.file].content = r.content
         PROVE  \/ \E q \in rows : q.id = r.id /\ disk[q.file].content = q.content /\ q.content = r.content
                \/ \E e \in events : e.id = r.id /\ e.changed
    BY <1>4, <1>7, <1>12
  <1>13. DerivedFits(rows', disk, derived, scan'.events, jobs, sync)
    BY <1>10, <1>12 DEF Fits, DerivedFits
  <1>14. ~May("fail") => MetadataFits(rows', disk, metadata, scan'.events, jobs, sync)
    BY <1>10, <1>12 DEF Fits, MetadataFits
  <1> QED  BY <1>1, <1>4, <1>5, <1>11, <1>13, <1>14 DEF Fits, May

LEMMA FitsWithEvent ==
    ASSUME AllKnown, Fits, NEW e \in scan.events, EmitEvent(e), scenario' = scenario
    PROVE  Fits'
  <1> USE DEF AllKnown
  <1> DEFINE x == Job("extract", e)
             v == Job("invalidate", e)
  <1>1. UNCHANGED <<disk, rows, derived, metadata, sync, deriver>> /\ scan'.events = scan.events \ {e}
    BY DEF EmitEvent, folder, db, children, Typed, TypeOK, ScanOK
  <1>2. /\ x.pc = "extract" /\ v.pc = "invalidate" /\ x.id = e.id /\ v.id = e.id
        /\ SameImage(x, e) /\ SameImage(v, e)
    BY DEF Job, SameImage
  <1>3. ~(e.created /\ e.changed)
    BY DEF Numbering, ScanHolds
  <1>4. NoJob.pc = "none"
    BY DEF NoJob
  <1>5. \A s \in Slots : jobs'[s] = jobs[s] \/ (jobs[s].pc = "none" /\ jobs'[s] \in {x, v})
    <2> HIDE DEF x, v
    <2> QED  BY <1>4 DEF EmitEvent, Idle, x, v, Typed, TypeOK, JobsOK
  <1>6. /\ e.created => \E s \in Slots : jobs'[s] = x
        /\ e.changed => (\E s \in Slots : jobs'[s] = x) /\ (\E s \in Slots : jobs'[s] = v)
    <2> HIDE DEF x, v
    <2> QED  BY <1>3 DEF EmitEvent, Idle, x, v, Typed, TypeOK, JobsOK
  <1> HIDE DEF x, v
  <1>7. ImageAmong(x, rows) /\ ImageAmong(v, rows)
    BY <1>2 DEF Fits, ImagesThere, ImageAmong, SameImage
  <1>8. \A i : ToInvalidate(i, scan.events, jobs, sync) => ToInvalidate(i, scan'.events, jobs', sync)
    BY <1>1, <1>2, <1>5, <1>6 DEF ToInvalidate
  <1>9. \A i : ToExtract(i, scan.events, jobs, sync) => ToExtract(i, scan'.events, jobs', sync)
    BY <1>1, <1>2, <1>5, <1>6 DEF ToExtract
  <1>10. ImagesThere(rows, scan'.events, jobs', deriver)
    BY <1>1, <1>5, <1>7 DEF Fits, ImagesThere
  <1>11. ContentsFit(rows, disk, jobs', deriver, sync)
    BY <1>2, <1>5 DEF Fits, ContentsFit
  <1>12. DerivedFits(rows, disk, derived, scan'.events, jobs', sync)
    BY <1>8 DEF Fits, DerivedFits
  <1>13. ~May("fail") => MetadataFits(rows, disk, metadata, scan'.events, jobs', sync)
    BY <1>9 DEF Fits, MetadataFits
  <1>14. NoOrphans'
    BY <1>1 DEF Fits, NoOrphans
  <1> QED  BY <1>1, <1>10, <1>11, <1>12, <1>13, <1>14 DEF Fits, May

LEMMA FitsWithScan ==
    ASSUME AllKnown, Turns, Fits, ScanStep, alone, scenario' = scenario
    PROVE  Fits'
  <1> USE DEF AllKnown
  <1>1. scan.pc # "idle" /\ UNCHANGED <<disk, sync>>
    BY ScanStepRuns
  <1>2. sync.pc = "idle" /\ deriver = NoJob /\ NoJob.pc = "none" /\ "idle" \notin Following
    BY <1>1 DEF Sight, ScanAlone, Turns, PassIdle, Scans, NoJob, Following
  <1>3. ASSUME NEW S, DeleteCascade(S), UNCHANGED <<jobs, deriver>>, scan'.events = scan.events,
               scan.pc \in {"verify", "purge"}
        PROVE  Fits'
    <2>1. scan.events = {} /\ \A s \in Slots : jobs[s] = NoJob
      BY <1>3 DEF Numbering, ScanHolds, Turns, Posted, Idle
    <2> QED  BY <1>1, <1>2, <1>3, <2>1, FitsWithout
  <1>4. ASSUME UNCHANGED db, UNCHANGED <<jobs, deriver>>, scan'.events = scan.events  PROVE Fits'
    BY <1>1, <1>4, FitsStay DEF db, children
  <1>5. CASE CleanupRow
    <2>1. UNCHANGED <<jobs, deriver>> /\ scan'.events = scan.events /\ scan.pc = "verify"
      BY <1>5 DEF CleanupRow, Scanning, Scans, Typed, TypeOK, ScanOK
    <2> QED  BY <1>3, <1>4, <1>5, <2>1 DEF CleanupRow
  <1>6. CASE PurgeMissing
    <2>1. UNCHANGED <<jobs, deriver>> /\ scan'.events = scan.events /\ scan.pc = "purge"
      BY <1>6 DEF PurgeMissing, Scanning, Scans, Typed, TypeOK, ScanOK
    <2> QED  BY <1>3, <1>6, <2>1 DEF PurgeMissing
  <1>7. CASE GetGalleryDirs \/ CleanupPage \/ WalkFolder \/ LoadExisting \/ ReadOldHashes \/ AllEmitted
    <2>1. UNCHANGED <<jobs, deriver, db>> /\ scan'.events = scan.events
      BY <1>7 DEF GetGalleryDirs, CleanupPage, WalkFolder, LoadExisting, ReadOldHashes, AllEmitted, Scanning,
                  Typed, TypeOK, ScanOK
    <2> QED  BY <1>4, <2>1
  <1>8. ASSUME NEW n \in scan.found, HashFile(n)  PROVE Fits'
    <2>1. UNCHANGED <<jobs, deriver, db>> /\ scan'.events = scan.events
      BY <1>8 DEF HashFile, Scanning, Typed, TypeOK, ScanOK
    <2> QED  BY <1>4, <2>1
  <1>9. CASE FinishScan
    <2>1. UNCHANGED <<jobs, deriver, db>> /\ scan'.events = {} /\ scan.events = {}
      BY <1>9 DEF FinishScan, Scanning, NotScanning, Scans, Numbering, ScanHolds
    <2> QED  BY <1>4, <2>1
  <1> QED
    BY <1>5, <1>6, <1>7, <1>8, <1>9, FitsWithCreated, FitsWithSaved, FitsWithEvent DEF ScanStep

LEMMA FitsWithSync ==
    ASSUME AllKnown, Turns, Fits, SyncStep \/ (May("fail") /\ SyncFails), alone, scenario' = scenario
    PROVE  Fits'
  <1> USE DEF AllKnown
  <1>1. sync.pc # "idle" /\ UNCHANGED <<disk, scan, jobs, deriver>>
    <2>1. UNCHANGED <<jobs, deriver>>
      BY DEF SyncStep, SyncFails, SyncWalk, SyncLoad, SyncFile, SyncSkips, SyncHashesNew, SyncHashesChanged,
             SyncCreates, SyncSaves, SyncExtracts, SyncStores, SyncInvalidates, SyncSweeps, SyncSweepsRow,
             SyncEnds, Syncing
    <2> QED  BY <2>1, SyncStepRuns, SyncOnlyHashes
  <1>2. /\ scan.pc = "idle" /\ SyncSees(sync, rows, disk, steady) /\ deriver = NoJob
        /\ (\A s \in Slots : jobs[s] = NoJob) /\ scan.events = {} /\ NoJob.pc = "none"
    BY <1>1 DEF Sight, SyncAlone, Turns, PassIdle, Posted, Idle, Syncs, Numbering, ScanHolds, NoJob
  <1>3. sync \in [pc : {"idle", "walk", "load", "files", "create", "save", "extract", "store",
                    "invalidate", "sweep"},
              running : BOOLEAN, page : SUBSET Row, found : SUBSET Stat,
              existing : SUBSET Row, row : SUBSET Row, changed : BOOLEAN,
              content : Contents]
    BY DEF Typed, TypeOK, SyncOK
  <1>4. SyncHolds(sync, nextId, last) /\ AreRows(rows, nextId, last)
    BY DEF Numbering
  <1>5. \A R : ImagesThere(R, scan.events, jobs, deriver)
    BY <1>2 DEF ImagesThere
  <1>6. \A R, d, y : y.pc # "store" => ContentsFit(R, d, jobs, deriver, y)
    BY <1>2 DEF ContentsFit
  <1>7. \A i, y : /\ ToInvalidate(i, scan.events, jobs, y) <=>
                       y.pc \in Following /\ y.changed /\ \E q \in y.row : q.id = i
                  /\ ToExtract(i, scan.events, jobs, y) <=>
                       y.pc \in {"extract", "store"} /\ \E q \in y.row : q.id = i
    BY <1>2 DEF ToInvalidate, ToExtract
  <1>8. ASSUME UNCHANGED db, sync.pc \notin Following, sync'.pc \notin Following  PROVE Fits'
    BY <1>1, <1>8, FitsStay DEF db, children
  <1>9. NextFile.pc = "files"
    BY <1>3 DEF NextFile
  <1>10. CASE SyncWalk \/ SyncLoad \/ SyncSweeps \/ SyncEnds
    BY <1>3, <1>8, <1>10 DEF SyncWalk, SyncLoad, SyncSweeps, SyncEnds, Syncs, Syncing, Following
  <1>11. CASE SyncFile
    <2>1. sync'.pc \in {"files", "create", "save"}
      BY <1>3, <1>11 DEF SyncFile, SyncSkips, SyncHashesNew, SyncHashesChanged, Without, Syncing
    <2> QED  BY <1>8, <1>11, <2>1 DEF SyncFile, Syncs, Following
  <1>12. CASE SyncSweepsRow
    <2>1. sync.pc = "sweep" /\ sync'.pc = "sweep"
      BY <1>3, <1>12 DEF SyncSweepsRow, Syncs, Syncing
    <2>2. UNCHANGED db \/ \E S : DeleteCascade(S)
      BY <1>12 DEF SyncSweepsRow
    <2> QED  BY <1>1, <1>2, <1>8, <2>1, <2>2, FitsWithout DEF Following
  <1>13. CASE SyncCreates
    <2> DEFINE new == Inserted(sync.row)
    <2>1. sync.pc = "create" /\ Create(sync.row)
      BY <1>13 DEF SyncCreates, Syncs
    <2>2. sync.row \in SUBSET Row /\ AreNew(sync.row, last) /\ FilesApart(sync.row, rows)
      BY <1>2, <1>3, <1>4, <2>1 DEF SyncHolds, SyncSees, RowFits, AreNew, OncePerFile
    <2>3. /\ rows' = rows \cup new /\ UNCHANGED <<derived, metadata>> /\ ~Refused(sync.row) /\ NoOrphans'
          /\ \A r \in new : derived[r.id] = 0 /\ metadata[r.id] = 0
      BY <2>1, <2>2, CreatedFits
    <2>4. sync'.pc = "extract" /\ sync'.row = new
      BY <1>3, <1>13, <2>3 DEF SyncCreates, Syncing
    <2> HIDE DEF new
    <2>5. DerivedFits(rows', disk, derived, scan.events, jobs, sync')
      BY <1>7, <2>1, <2>3 DEF Fits, DerivedFits, Following
    <2>6. ~May("fail") => MetadataFits(rows', disk, metadata, scan.events, jobs, sync')
      BY <1>7, <2>1, <2>3, <2>4 DEF Fits, MetadataFits
    <2> QED  BY <1>1, <1>5, <1>6, <2>3, <2>4, <2>5, <2>6 DEF Fits, May
  <1>14. CASE SyncSaves
    <2>1. sync.pc = "save" /\ Save(sync.row)
      BY <1>14 DEF SyncSaves, Syncs
    <2>2. /\ AreRows(sync.row, nextId, last)
          /\ \A u \in sync.row : ImageAmong(u, rows)
      BY <1>2, <1>4, <2>1
      DEF SyncHolds, Following, AreRows, OncePerFile, NoTwoIds, SyncSees, RowFits, ImageAmong
    <2>3. /\ rows' = Saved(sync.row) /\ UNCHANGED <<derived, metadata>>
          /\ \A e : ImageAmong(e, rows) => ImageAmong(e, rows')
          /\ \A r \in rows' : r \in rows \/ r \in sync.row
      BY <2>1, <2>2, SavedImages
    <2>4. PathsUnique(Saved(sync.row))
      <3>1. AreRows(rows', nextId, last)
        BY <1>4, <2>1, <2>2, SavedAreRows
      <3> QED  BY <2>3, <3>1 DEF AreRows, OncePerFile, PathsUnique
    <2>5. NoOrphans'
      BY <2>3, SavedNoOrphans DEF Fits, Typed, TypeOK, DbOK
    <2>6. IF sync.changed THEN sync'.pc = "extract" /\ sync'.row = sync.row /\ sync'.changed
                          ELSE sync'.pc = "files"
      BY <1>3, <1>9, <1>14, <2>4 DEF SyncSaves, Syncing
    <2>7. ASSUME NEW r \in rows', disk[r.file].content = r.content
          PROVE  \/ \E q \in rows : q.id = r.id /\ disk[q.file].content = q.content /\ q.content = r.content
                 \/ sync.changed /\ r \in sync.row
      BY <1>2, <2>1, <2>3, <2>7 DEF SyncSees, RowFits, SameImage
    <2>8. DerivedFits(rows', disk, derived, scan.events, jobs, sync')
      BY <1>7, <2>1, <2>6, <2>7 DEF Fits, DerivedFits, Following
    <2>9. ~May("fail") => MetadataFits(rows', disk, metadata, scan.events, jobs, sync')
      BY <1>7, <2>1, <2>6, <2>7 DEF Fits, MetadataFits
    <2> QED  BY <1>1, <1>5, <1>6, <2>3, <2>5, <2>6, <2>8, <2>9 DEF Fits, May
  <1>15. ASSUME sync.pc \in Following
         PROVE  /\ \A q \in sync.row : ImageAmong(q, rows)
                /\ \A r, q \in sync.row : r = q
    BY <1>2, <1>4, <1>15 DEF SyncSees, RowFits, SyncHolds, ImageAmong, SameImage
  <1>16. /\ Extracted.row = sync.row \/ ~sync.changed
         /\ IF sync.changed THEN Extracted.pc = "invalidate" /\ Extracted.changed
                            ELSE Extracted.pc = "files"
    BY <1>3, <1>9 DEF Extracted
  <1>17. CASE SyncExtracts
    <2>1. sync.pc = "extract" /\ UNCHANGED <<rows, derived, metadata>>
      BY <1>17 DEF SyncExtracts, Syncs, db, children
    <2>2. PICK r \in sync.row :
            \/ /\ sync'.pc = "store" /\ sync'.row = sync.row /\ sync'.changed = sync.changed
               /\ sync'.content = disk[r.file].content
            \/ sync' = Extracted /\ ~Exists(r.file)
      BY <1>3, <1>17 DEF SyncExtracts, Syncing
    <2>3. ImageAmong(r, rows) /\ \A q \in sync.row : q = r
      BY <1>15, <2>1 DEF Following
    <2>4. NoOrphans'
      BY <2>1 DEF Fits, NoOrphans
    <2>5. DerivedFits(rows, disk, derived, scan.events, jobs, sync')
      BY <1>7, <1>16, <2>1, <2>2 DEF Fits, DerivedFits, Following
    <2>6. ContentsFit(rows, disk, jobs, deriver, sync')
      <3>1. CASE sync'.pc # "store"
        BY <1>6, <3>1
      <3>2. CASE sync'.pc = "store"
        <4>1. sync'.row = sync.row /\ sync'.content = disk[r.file].content
          BY <1>16, <2>2, <3>2
        <4> QED  BY <1>2, <2>3, <4>1, ReadFits DEF ContentsFit
      <3> QED  BY <3>1, <3>2
    <2>7. ASSUME ~May("fail")  PROVE MetadataFits(rows, disk, metadata, scan.events, jobs, sync')
      <3>1. CASE sync'.pc = "store" /\ sync'.row = sync.row
        BY <1>7, <2>1, <2>7, <3>1 DEF Fits, MetadataFits
      <3>2. CASE ~Exists(r.file)
        <4>1. \A q \in rows : q.id = r.id => disk[q.file].content # q.content
          BY <2>3, <3>2, ReadFits
        <4> QED  BY <1>7, <2>3, <2>7, <4>1 DEF Fits, MetadataFits
      <3> QED  BY <2>2, <2>7, <3>1, <3>2
    <2> QED  BY <1>1, <1>5, <2>1, <2>4, <2>5, <2>6, <2>7 DEF Fits, May
  <1>18. CASE May("fail") /\ SyncFails
    <2>1. sync.pc = "extract" /\ UNCHANGED <<rows, derived, metadata>> /\ sync' = Extracted
      BY <1>18 DEF SyncFails, Syncing, Syncs, db, children
    <2>2. NoOrphans'
      BY <2>1 DEF Fits, NoOrphans
    <2>3. DerivedFits(rows, disk, derived, scan.events, jobs, sync') /\ sync'.pc # "store"
      BY <1>7, <1>16, <2>1 DEF Fits, DerivedFits, Following
    <2> QED  BY <1>1, <1>5, <1>6, <1>18, <2>1, <2>2, <2>3 DEF Fits, May
  <1>19. CASE SyncStores
    <2>1. PICK r \in sync.row : metadata' = [metadata EXCEPT ![r.id] = sync.content]
      BY <1>19 DEF SyncStores, SetMetadata
    <2>2. sync.pc = "store" /\ UNCHANGED <<rows, derived>> /\ sync' = Extracted
      BY <1>19 DEF SyncStores, SetMetadata, Syncs, Syncing
    <2>3. ImageAmong(r, rows) /\ (\A q \in sync.row : q = r) /\ r.id \in Ids
      BY <1>3, <1>15, <2>2 DEF Following, Row
    <2>4. ReadOf(sync.content, r.id, rows, disk)
      BY <2>2 DEF Fits, ContentsFit
    <2>5. \A q \in rows : disk[q.file].content = q.content =>
               metadata'[q.id] = IF q.id = r.id THEN q.content ELSE metadata[q.id]
      BY <1>3, <2>1, <2>3, <2>4, StoreFits DEF Typed, TypeOK, DbOK
    <2>6. DerivedFits(rows, disk, derived, scan.events, jobs, sync')
      BY <1>7, <1>16, <2>2 DEF Fits, DerivedFits, Following
    <2>7. ~May("fail") => MetadataFits(rows, disk, metadata', scan.events, jobs, sync')
      BY <1>7, <2>3, <2>5 DEF Fits, MetadataFits
    <2>8. NoOrphans'
      <3>1. \E q \in rows : q.id = r.id
        BY <2>3 DEF ImageAmong, SameImage
      <3> QED  BY <2>1, <2>2, <2>3, <3>1 DEF Fits, NoOrphans, Typed, TypeOK, DbOK
    <2>9. sync'.pc # "store"
      BY <1>16, <2>2
    <2> QED  BY <1>1, <1>5, <1>6, <2>2, <2>6, <2>7, <2>8, <2>9 DEF Fits, May
  <1>20. CASE SyncInvalidates
    <2>1. PICK r \in sync.row : derived' = [derived EXCEPT ![r.id] = 0]
      BY <1>20 DEF SyncInvalidates, Invalidate
    <2>2. sync.pc = "invalidate" /\ UNCHANGED <<rows, metadata>> /\ sync'.pc = "files"
      BY <1>9, <1>20 DEF SyncInvalidates, Invalidate, Syncs, Syncing
    <2>3. (\A q \in sync.row : q = r) /\ \A i \in Ids : derived'[i] = IF i = r.id THEN 0 ELSE derived[i]
      BY <1>15, <2>1, <2>2 DEF Following, Typed, TypeOK, DbOK
    <2>4. DerivedFits(rows, disk, derived', scan.events, jobs, sync')
      <3>1. \A q \in rows : q.id \in Ids
        BY DEF Typed, TypeOK, DbOK, Row
      <3> QED  BY <1>7, <2>3, <3>1 DEF Fits, DerivedFits
    <2>5. ~May("fail") => MetadataFits(rows, disk, metadata, scan.events, jobs, sync')
      BY <1>7, <2>2 DEF Fits, MetadataFits
    <2>6. NoOrphans'
      BY <2>2, <2>3 DEF Fits, NoOrphans
    <2> QED  BY <1>1, <1>5, <1>6, <2>2, <2>4, <2>5, <2>6 DEF Fits, May
  <1> QED
    BY <1>10, <1>11, <1>12, <1>13, <1>14, <1>17, <1>19, <1>20, <1>18 DEF SyncStep

LEMMA StepSerial ==
    ASSUME AllKnown, Serial, [MCNext]_MCVars
    PROVE  Serial'
  <1> USE DEF AllKnown
  <1>1. scenario' = scenario
    BY ScenarioKeeps
  <1>2. SUFFICES ASSUME May("serial"), Turns, Fits  PROVE Turns' /\ Fits'
    BY <1>1 DEF Serial, May
  <1>3. alone
    BY <1>2 DEF Turns
  <1>4. CASE UNCHANGED MCVars
    <2>1. Fits'
      BY <1>1, <1>2, <1>4, FitsStay DEF MCVars, vars
    <2>2. Turns'
      BY <1>2, <1>4 DEF MCVars, vars, Turns, PassIdle, Posted, Idle, Scans, Syncs
    <2> QED  BY <2>1, <2>2
  <1>5. CASE MCNext
    <2>1. Turns'
      BY <1>2, <1>5, TurnsKept
    <2>2. ~May("folder") /\ ~May("restart")
      BY <1>2, ScenariosOK DEF InScenario, ScenarioOK, May
    <2>3. CASE MCUserStep
      <3>1. UserStep
        BY <2>3, ScenariosOK DEF MCUserStep, UserStep, InScenario, ScenarioOK
      <3> QED  BY <1>1, <1>2, <2>1, <3>1, FitsWithFiles
    <2>4. CASE Quiet /\ \E fast \in BOOLEAN : StartScan(fast)
      <3>1. UNCHANGED <<disk, rows, derived, metadata, jobs, deriver, sync>> /\ scan'.events = {}
        BY <2>4 DEF StartScan, Scanning, NotScanning, folder, db, children
      <3>2. scan.events = {}
        BY <2>4 DEF Quiet, Scans, Numbering, ScanHolds
      <3> QED  BY <1>1, <1>2, <2>1, <3>1, <3>2, FitsStay
    <2>5. CASE (Quiet /\ StartSync) \/ StopSync
      <3>1. UNCHANGED <<disk, rows, derived, metadata, jobs, deriver, scan>>
        BY <2>5 DEF StartSync, StopSync, Syncing, folder, db, children
      <3>2. CASE Quiet /\ StartSync
        <4>1. sync.pc = "idle" /\ sync'.pc = "walk"
          BY <3>2 DEF StartSync, Syncing, Syncs, Typed, TypeOK, SyncOK
        <4> QED  BY <1>1, <1>2, <2>1, <3>1, <4>1, FitsStay DEF Following
      <3>3. CASE StopSync
        <4>1. /\ sync'.pc = sync.pc /\ sync'.row = sync.row /\ sync'.changed = sync.changed
              /\ sync'.content = sync.content
          BY <3>3 DEF StopSync, Syncing, Typed, TypeOK, SyncOK
        <4>2. \A i : /\ ToInvalidate(i, scan.events, jobs, sync) <=> ToInvalidate(i, scan.events, jobs, sync')
                     /\ ToExtract(i, scan.events, jobs, sync) <=> ToExtract(i, scan.events, jobs, sync')
          BY <4>1 DEF ToInvalidate, ToExtract
        <4>3. ContentsFit(rows, disk, jobs, deriver, sync')
          BY <1>2, <4>1 DEF Fits, ContentsFit
        <4>4. /\ DerivedFits(rows, disk, derived, scan.events, jobs, sync')
              /\ ~May("fail") => MetadataFits(rows, disk, metadata, scan.events, jobs, sync')
          BY <1>2, <4>2 DEF Fits, DerivedFits, MetadataFits
        <4>5. NoOrphans'
          BY <1>2, <3>1 DEF Fits, NoOrphans
        <4> QED  BY <1>1, <1>2, <2>1, <3>1, <4>3, <4>4, <4>5 DEF Fits, May
      <3> QED  BY <2>5, <3>2, <3>3
    <2> QED
      BY <1>1, <1>2, <1>3, <1>5, <2>1, <2>2, <2>3, <2>4, <2>5,
         FitsWithScan, FitsWithSync, FitsWithJob, FitsWithDeriver
      DEF MCNext, MCStartPass
  <1> QED  BY <1>4, <1>5

\* When all is quiet, nothing is to do, and what fits is fresh.
LEMMA SerialIsSound ==
    ASSUME AllKnown, Serial
    PROVE  SerialTablesAreSound
  <1> USE DEF AllKnown
  <1>1. IndexIsCurrent
    BY SightIsCurrent
  <1>2. SUFFICES ASSUME May("serial"), Fits
                 PROVE  DerivedIsFresh /\ NoOrphans /\ (~May("fail") => MetadataIsFresh)
    BY <1>1 DEF Serial, SerialTablesAreSound
  <1>3. NoOrphans
    BY <1>2 DEF Fits
  <1>4. SUFFICES ASSUME Quiet, NEW r \in rows, LooksUnchanged(r)
                 PROVE  /\ derived[r.id] \in {0, disk[r.file].content}
                        /\ ~May("fail") => metadata[r.id] = disk[r.file].content
    BY <1>3 DEF DerivedIsFresh, MetadataIsFresh
  <1>5. disk[r.file].content = r.content
    BY <1>4 DEF KnownAndCurrent, AllCurrent, Current
  <1>6. ~ToInvalidate(r.id, scan.events, jobs, sync) /\ ~ToExtract(r.id, scan.events, jobs, sync)
    BY <1>4 DEF Quiet, Scans, Syncs, Idle, NoJob, Numbering, ScanHolds, ToInvalidate, ToExtract, Following
  <1> QED  BY <1>2, <1>4, <1>5, <1>6 DEF Fits, DerivedFits, MetadataFits

\* Whatever the scenarios, the files, the page size and the number of goroutines
\* are: a pass that no other disturbs ends with an index that has of every file
\* that stayed as it was one row, as the file is, or none if it is gone; and where
\* one use of the application follows the other, nothing that was derived or
\* extracted from a file outlives its content, and nothing its image
\* (cleanupMissingFiles, scanDirectory, syncFolder, InvalidateTagsAndEmbeddings,
\* deleteImageFileCascade).
THEOREM SerialTablesSound == MCSpec => []SerialTablesAreSound
  <1>1. AllKnown /\ Serial /\ [MCNext]_MCVars => Serial'
    BY StepSerial
  <1>2. AllKnown /\ Serial => SerialTablesAreSound
    BY SerialIsSound
  <1> QED  BY InitKnown, StepKnown, InitSerial, <1>1, <1>2, PTL DEF MCSpec
===============================================================================
