----------------------------- MODULE GallerySync -----------------------------
(***************************************************************************)
(* The index of the photos on disk and what is derived from them: the      *)
(* scans that a user starts (application/imaging/scan_manager.go,          *)
(* scanner.go), the nightly synchronisation (background_sync.go), the      *)
(* callbacks that follow up on changed files (cmd/server/app.go) and the   *)
(* adding and removing of a gallery folder (handlers_folders.go).          *)
(*                                                                         *)
(* There is one gallery folder.  The content of a file is a number, and so *)
(* is its stamp, which stands for its size and its modification time in    *)
(* seconds: every change of the content changes the stamp, and none comes  *)
(* back.  A step is a walk of the folder, the reading of a file, one query,*)
(* or one statement with the stat that decides on it; the deletes of a     *)
(* cascade are one step, since what could come between them could as well  *)
(* come before.  A scan has fewer changed files than one batch holds.      *)
(***************************************************************************)
EXTENDS Naturals, FiniteSets

CONSTANTS
    Files,       \* numbers of the files the folder may hold
    PageSize,    \* cleanupBatchSize
    MaxId,       \* bound: the greatest primary key of image_files
    MaxContent,  \* bound: contents and stamps of files
    Slots        \* bound: post-processing goroutines that exist at once

ASSUME ConstantsOK ==
    /\ Files \subseteq Nat /\ Slots \subseteq Nat
    /\ IsFiniteSet(Files) /\ IsFiniteSet(Slots)
    /\ PageSize \in Nat \ {0}
    /\ MaxId \in Nat /\ MaxContent \in Nat \ {0}

VARIABLES
    disk,      \* the files: content (0: no file) and stamp
    last,      \* history: the last content or stamp given out
    gallery,   \* whether the folder is a gallery folder
    rows,      \* image_files
    nextId,    \* the next primary key of image_files
    derived,   \* image_file_id -> the content that its classification, tags and
               \* embeddings were made from (0: there are none)
    metadata,  \* image_file_id -> the content that its metadata were read from
    scan,      \* the scan goroutine; ScanManager.isScanning is scan.pc # "idle"
    sync,      \* the synchronisation goroutine, and BackgroundSyncManager.running
    jobs,      \* the post-processing goroutines
    deriver    \* a job that derives something from a file: the tag scan, OCR

folder == <<disk, last>>
children == <<derived, metadata>>
db == <<rows, nextId, children>>
workers == <<scan, sync, jobs, deriver>>
vars == <<disk, last, gallery, rows, nextId, derived, metadata, scan, sync, jobs, deriver>>

Contents == 0 .. MaxContent
Ids == 0 .. MaxId
Stat == [file : Files, stamp : Contents]
Row == [id : Ids, file : Files, content : Contents, stamp : Contents]
Event == [id : Ids, file : Files, created : BOOLEAN, changed : BOOLEAN]

Exists(f) == disk[f].content # 0
Walked == {[file |-> f, stamp |-> disk[f].stamp] : f \in {g \in Files : Exists(g)}}
Known(S) == {r.file : r \in S}
FirstOf(S) == CHOOSE r \in S : \A q \in S : r.id <= q.id

\* The files of a walk that a set of rows does not know, or knows differently
Differing(found, S) == {n \in found : \A r \in S : r.file = n.file => r.stamp # n.stamp}

\* What is saved of a file that was walked and is now hashed
Hashed(n, id) == [id |-> id, file |-> n.file, content |-> disk[n.file].content, stamp |-> n.stamp]

NotScanning == [pc |-> "idle", fast |-> FALSE, dirs |-> FALSE, lastId |-> 0, more |-> FALSE,
                page |-> {}, found |-> {}, existing |-> {}, creates |-> {}, updates |-> {},
                old |-> {}, events |-> {}]
NotSyncing == [pc |-> "idle", running |-> TRUE, page |-> {}, found |-> {}, existing |-> {},
               row |-> {}, changed |-> FALSE, content |-> 0]
NoJob == [pc |-> "none", id |-> 0, file |-> 0, content |-> 0]

Init ==
    /\ disk \in [Files -> {[content |-> 0, stamp |-> 0], [content |-> 1, stamp |-> 1]}]
    /\ last = 1
    /\ gallery = TRUE
    /\ rows = {}
    /\ nextId = 1
    /\ derived = [i \in Ids |-> 0]
    /\ metadata = [i \in Ids |-> 0]
    /\ scan = NotScanning
    /\ sync = NotSyncing
    /\ jobs = [s \in Slots |-> NoJob]
    /\ deriver = NoJob

-------------------------------------------------------------------------------
(* The user's camera, file manager and editor *)

Change(f, content) ==
    /\ last < MaxContent
    /\ disk' = [disk EXCEPT ![f] = [content |-> content, stamp |-> last + 1]]
    /\ last' = last + 1
    /\ UNCHANGED <<gallery, db, workers>>

Write(f) == Change(f, last + 1)

\* The modification time changes and the content does not.
Touch(f) == Exists(f) /\ Change(f, disk[f].content)

Vanish(f) ==
    /\ Exists(f)
    /\ disk' = [disk EXCEPT ![f] = [content |-> 0, stamp |-> 0]]
    /\ UNCHANGED <<last, gallery, db, workers>>

-------------------------------------------------------------------------------
(* Statements *)

Forget(column, S) == [i \in Ids |-> IF i \in S THEN 0 ELSE column[i]]

\* mutant: the metadata are forgotten
LeavingMetadata(S) ==
    /\ rows' = {r \in rows : r.id \notin S}
    /\ derived' = Forget(derived, S)
    /\ UNCHANGED <<nextId, metadata>>

\* Each image of S goes with what is derived from it (deleteImageFileCascade).
DeleteCascade(S) ==
    /\ rows' = {r \in rows : r.id \notin S}
    /\ derived' = Forget(derived, S)
    /\ metadata' = Forget(metadata, S)
    /\ UNCHANGED nextId

\* Save writes every column of the given rows, and inserts those that are not
\* there (any more); the index on path may refuse the whole statement.
Saved(S) == {r \in rows : \A s \in S : s.id # r.id} \cup S
PathsUnique(R) == \A r, q \in R : r.file = q.file => r = q
Save(S) ==
    /\ rows' = IF PathsUnique(Saved(S)) THEN Saved(S) ELSE rows
    /\ UNCHANGED <<nextId, children>>

\* bound: a pass begins while there are ids for every file of two passes
IdsLeft == nextId + 2 * Cardinality(Files) <= MaxId + 1

\* Create is one INSERT for all rows of S, which the index on path may refuse;
\* then they keep the id 0.
Refused(S) == Known(S) \cap Known(rows) # {}
Inserted(S) ==
    IF Refused(S) THEN S
    ELSE {[s EXCEPT !.id = nextId + Cardinality({t \in S : t.file < s.file})] : s \in S}
Create(S) ==
    /\ nextId + Cardinality(S) <= MaxId + 1
    /\ IF Refused(S) THEN UNCHANGED <<rows, nextId>>
       ELSE rows' = rows \cup Inserted(S) /\ nextId' = nextId + Cardinality(S)
    /\ UNCHANGED children

SetMetadata(id, content) ==
    /\ metadata' = [metadata EXCEPT ![id] = content]
    /\ UNCHANGED <<rows, nextId, derived>>

\* InvalidateOCRClassification and InvalidateTagsAndEmbeddings
Invalidate(id) ==
    /\ derived' = [derived EXCEPT ![id] = 0]
    /\ UNCHANGED <<rows, nextId, metadata>>

-------------------------------------------------------------------------------
(* The scan.  A full scan (StartScan) and a fast one (FastScanGallery) of the *)
(* gallery verify every row first; the scan of an added folder does not.      *)

Scanning(record) == scan' = record /\ UNCHANGED <<folder, gallery, sync, jobs, deriver>>
Scans(pc) == scan.pc = pc

\* Where the scan goes when the rows are verified
Index == IF scan.dirs THEN "walk" ELSE "finish"

StartScan(fast) ==
    /\ Scans("idle")
    /\ IdsLeft
    /\ Scanning([NotScanning EXCEPT !.pc = "dirs", !.fast = fast])
    /\ UNCHANGED db

GetGalleryDirs ==
    /\ Scans("dirs")
    /\ Scanning([scan EXCEPT !.pc = "page", !.dirs = gallery])
    /\ UNCHANGED db

\* mutant: the last id is taken for the next one
PageTooLate == {r \in rows : /\ r.id > scan.lastId + 1
                             /\ Cardinality({q \in rows : scan.lastId + 1 < q.id /\ q.id < r.id}) < PageSize}

\* The PageSize rows after the last one verified
Page == {r \in rows : /\ r.id > scan.lastId
                      /\ Cardinality({q \in rows : scan.lastId < q.id /\ q.id < r.id}) < PageSize}

CleanupPage ==
    /\ Scans("page")
    /\ Scanning([scan EXCEPT !.pc = IF Page = {} THEN Index ELSE "verify", !.page = Page,
                             !.more = Cardinality(Page) >= PageSize])
    /\ UNCHANGED db

\* mutant: lastId is only set when a row is deleted
CleanupStuck ==
    LET r == FirstOf(scan.page)
        rest == scan.page \ {r} IN
    /\ Scans("verify")
    /\ Scanning([scan EXCEPT !.pc = IF rest # {} THEN "verify" ELSE IF scan.more THEN "page" ELSE Index,
                             !.page = rest, !.lastId = IF Exists(r.file) THEN @ ELSE r.id])
    /\ IF Exists(r.file) THEN UNCHANGED db ELSE DeleteCascade({r.id})

CleanupRow ==
    LET r == FirstOf(scan.page)
        rest == scan.page \ {r} IN
    /\ Scans("verify")
    /\ Scanning([scan EXCEPT !.pc = IF rest # {} THEN "verify" ELSE IF scan.more THEN "page" ELSE Index,
                             !.page = rest, !.lastId = r.id])
    /\ IF Exists(r.file) THEN UNCHANGED db ELSE DeleteCascade({r.id})

\* An empty folder is done with, whatever rows it has.
WalkFolder ==
    /\ Scans("walk")
    /\ Scanning([scan EXCEPT !.pc = IF Walked = {} THEN "finish" ELSE "load", !.found = Walked])
    /\ UNCHANGED db

Hash(found) == IF found = {} THEN "finish" ELSE "hash"

LoadExisting ==
    LET existing == {r \in rows : r.file \in Known(scan.found)}
        todo == Differing(scan.found, existing) IN
    /\ Scans("load")
    /\ Scanning([scan EXCEPT !.pc = IF scan.fast THEN "purge" ELSE Hash(todo),
                             !.existing = existing, !.found = todo])
    /\ UNCHANGED db

\* mutant: only the files that are hashed count as checked
PurgeUnhashed ==
    /\ Scans("purge")
    /\ Scanning([scan EXCEPT !.pc = Hash(scan.found)])
    /\ DeleteCascade({r.id : r \in rows} \ {r.id : r \in {q \in scan.existing : q.file \in Known(scan.found)}})

\* A fast scan deletes the folder's rows that were not among those it loaded.
PurgeMissing ==
    /\ Scans("purge")
    /\ Scanning([scan EXCEPT !.pc = Hash(scan.found)])
    /\ DeleteCascade({r.id : r \in rows} \ {r.id : r \in scan.existing})

\* One of the hashing workers reads a file; a file that is gone is left out.
HashFile(n) ==
    LET mine == {r \in scan.existing : r.file = n.file}
        rest == [scan EXCEPT !.found = @ \ {n}, !.pc = IF scan.found = {n} THEN "create" ELSE "hash"] IN
    /\ Scans("hash")
    /\ Scanning(IF ~Exists(n.file) THEN rest
                ELSE IF mine = {} THEN [rest EXCEPT !.creates = @ \cup {Hashed(n, 0)}]
                ELSE [rest EXCEPT !.updates = @ \cup {Hashed(n, r.id) : r \in mine}])
    /\ UNCHANGED db

\* flushBatch.  The new rows are reported even if the index refused them.
CreateBatch ==
    /\ Scans("create")
    /\ Create(scan.creates)
    /\ Scanning([scan EXCEPT !.pc = IF scan.updates = {} THEN "emit" ELSE "old", !.creates = {},
                    !.events = {[id |-> r.id, file |-> r.file, created |-> TRUE, changed |-> FALSE]
                                : r \in Inserted(scan.creates)}])

\* mutant: the hashes are read after the save
ReadNewHashes ==
    /\ Scans("old")
    /\ Scanning([scan EXCEPT !.pc = "save", !.old = scan.updates])
    /\ UNCHANGED db

ReadOldHashes ==
    /\ Scans("old")
    /\ Scanning([scan EXCEPT !.pc = "save", !.old = {r \in rows : \E u \in scan.updates : u.id = r.id}])
    /\ UNCHANGED db

Unchanged(u) == \E r \in scan.old : r.id = u.id /\ r.content = u.content

SaveBatch ==
    /\ Scans("save")
    /\ Save(scan.updates)
    /\ Scanning([scan EXCEPT !.pc = "emit", !.updates = {}, !.old = {},
                    !.events = @ \cup {[id |-> u.id, file |-> u.file, created |-> FALSE,
                                        changed |-> ~Unchanged(u)] : u \in scan.updates}])

Job(pc, e) == [pc |-> pc, id |-> e.id, file |-> e.file, content |-> 0]
Idle(s) == jobs[s] = NoJob

\* emitEvent and OnFileProcessed: the goroutines run, and outlive the scan.
EmitEvent(e) ==
    /\ Scans("emit")
    /\ scan' = [scan EXCEPT !.events = @ \ {e}]
    /\ \/ /\ e.created
          /\ \E s \in Slots : Idle(s) /\ jobs' = [jobs EXCEPT ![s] = Job("extract", e)]
       \/ /\ e.changed
          /\ \E s, t \in Slots :
                /\ s # t /\ Idle(s) /\ Idle(t)
                /\ jobs' = [jobs EXCEPT ![s] = Job("extract", e), ![t] = Job("invalidate", e)]
       \/ ~e.created /\ ~e.changed /\ UNCHANGED jobs
    /\ UNCHANGED <<folder, gallery, db, sync, deriver>>

AllEmitted ==
    /\ Scans("emit") /\ scan.events = {}
    /\ Scanning([scan EXCEPT !.pc = "finish"])
    /\ UNCHANGED db

FinishScan ==
    /\ Scans("finish")
    /\ Scanning(NotScanning)
    /\ UNCHANGED db

-------------------------------------------------------------------------------
(* Post-processing: ExtractAndSaveMetadataAsync and Invalidate..Async *)

Working(s, job) ==
    /\ jobs' = [jobs EXCEPT ![s] = job]
    /\ UNCHANGED <<folder, gallery, scan, sync, deriver>>

JobExtracts(s) ==
    /\ jobs[s].pc = "extract"
    /\ Working(s, IF Exists(jobs[s].file)
                  THEN [jobs[s] EXCEPT !.pc = "store", !.content = disk[jobs[s].file].content]
                  ELSE NoJob)
    /\ UNCHANGED db

\* The extraction service does not answer.
JobFails(s) ==
    /\ jobs[s].pc = "extract"
    /\ Working(s, NoJob)
    /\ UNCHANGED db

JobStores(s) ==
    /\ jobs[s].pc = "store"
    /\ Working(s, NoJob)
    /\ SetMetadata(jobs[s].id, jobs[s].content)

JobInvalidates(s) ==
    /\ jobs[s].pc = "invalidate"
    /\ Working(s, NoJob)
    /\ Invalidate(jobs[s].id)

-------------------------------------------------------------------------------
(* The nightly synchronisation, at whatever moment it comes *)

Syncing(record) == sync' = record /\ UNCHANGED <<folder, gallery, scan, jobs, deriver>>
Syncs(pc) == sync.pc = pc

StartSync ==
    /\ Syncs("idle") /\ sync.running
    /\ IdsLeft
    /\ gallery
    /\ Syncing([sync EXCEPT !.pc = "walk"])
    /\ UNCHANGED db

SyncWalk ==
    /\ Syncs("walk")
    /\ Syncing([sync EXCEPT !.pc = "load", !.found = Walked])
    /\ UNCHANGED db

SyncLoad ==
    /\ Syncs("load")
    /\ Syncing([sync EXCEPT !.pc = "files", !.existing = rows])
    /\ UNCHANGED db

\* The loop goes on without the file n.
Without(n) == [sync EXCEPT !.pc = "files", !.found = @ \ {n}]

SyncSkips(n) ==
    /\ Differing({n}, sync.existing) = {} \/ ~Exists(n.file)
    /\ Syncing(Without(n))

SyncHashesNew(n) ==
    /\ n.file \notin Known(sync.existing) /\ Exists(n.file)
    /\ Syncing([Without(n) EXCEPT !.pc = "create", !.row = {Hashed(n, 0)}])

\* mutant: the hash of the row is kept
SyncKeepsHash(n) ==
    /\ n \in Differing(sync.found, sync.existing) /\ Exists(n.file)
    /\ \E r \in sync.existing :
        /\ r.file = n.file
        /\ Syncing([Without(n) EXCEPT !.pc = "save", !.row = {[r EXCEPT !.stamp = n.stamp]},
                                      !.changed = FALSE])

SyncHashesChanged(n) ==
    /\ n \in Differing(sync.found, sync.existing) /\ Exists(n.file)
    /\ \E r \in sync.existing :
        /\ r.file = n.file
        /\ Syncing([Without(n) EXCEPT !.pc = "save", !.row = {Hashed(n, r.id)},
                                      !.changed = r.content # disk[n.file].content])

SyncFile ==
    /\ Syncs("files") /\ sync.running
    /\ \E n \in sync.found : SyncSkips(n) \/ SyncHashesNew(n) \/ SyncHashesChanged(n)
    /\ UNCHANGED db

NextFile == [sync EXCEPT !.pc = "files", !.row = {}, !.changed = FALSE, !.content = 0]

\* mutant: no metadata for new files
SyncOnlyCreates ==
    /\ Syncs("create")
    /\ Create(sync.row)
    /\ Syncing(NextFile)

SyncCreates ==
    /\ Syncs("create")
    /\ Create(sync.row)
    /\ Syncing(IF Refused(sync.row) THEN NextFile
               ELSE [sync EXCEPT !.pc = "extract", !.row = Inserted(@)])

\* The row keeps its columns of the moment the rows were loaded, save these.
SyncSaves ==
    /\ Syncs("save")
    /\ Save(sync.row)
    /\ Syncing(IF sync.changed /\ PathsUnique(Saved(sync.row))
               THEN [sync EXCEPT !.pc = "extract"] ELSE NextFile)

Extracted == IF sync.changed THEN [sync EXCEPT !.pc = "invalidate"] ELSE NextFile

SyncExtracts ==
    /\ Syncs("extract")
    /\ \E r \in sync.row :
        Syncing(IF Exists(r.file)
                THEN [sync EXCEPT !.pc = "store", !.content = disk[r.file].content]
                ELSE Extracted)
    /\ UNCHANGED db

SyncFails ==
    /\ Syncs("extract")
    /\ Syncing(Extracted)
    /\ UNCHANGED db

SyncStores ==
    /\ Syncs("store")
    /\ Syncing(Extracted)
    /\ \E r \in sync.row : SetMetadata(r.id, sync.content)

SyncInvalidates ==
    /\ Syncs("invalidate")
    /\ Syncing(NextFile)
    /\ \E r \in sync.row : Invalidate(r.id)

\* cleanupMissingFiles, which comes after a stop, too
SyncSweeps ==
    /\ Syncs("files") /\ (sync.found = {} \/ ~sync.running)
    /\ Syncing([sync EXCEPT !.pc = "sweep", !.found = {}, !.existing = {}, !.page = rows])
    /\ UNCHANGED db

SyncSweepsRow ==
    LET r == FirstOf(sync.page) IN
    /\ Syncs("sweep") /\ sync.page # {} /\ sync.running
    /\ Syncing([sync EXCEPT !.page = @ \ {r}])
    /\ IF Exists(r.file) THEN UNCHANGED db ELSE DeleteCascade({r.id})

SyncEnds ==
    /\ Syncs("sweep") /\ (sync.page = {} \/ ~sync.running)
    /\ Syncing([sync EXCEPT !.pc = "idle", !.page = {}])
    /\ UNCHANGED db

\* Shutdown
StopSync ==
    /\ sync.running
    /\ Syncing([sync EXCEPT !.running = FALSE])
    /\ UNCHANGED db

-------------------------------------------------------------------------------
(* The tag scan, OCR and the embeddings, each of which takes up an image that *)
(* lacks its result, reads the file, and saves what it made of it later.      *)

Deriving(record) == deriver' = record /\ UNCHANGED <<folder, gallery, scan, sync, jobs>>

Take(r) ==
    /\ deriver.pc = "none"
    /\ r \in rows /\ derived[r.id] = 0
    /\ Deriving(Job("read", r))
    /\ UNCHANGED db

Read ==
    /\ deriver.pc = "read"
    /\ Deriving(IF Exists(deriver.file)
                THEN [deriver EXCEPT !.pc = "save", !.content = disk[deriver.file].content]
                ELSE NoJob)
    /\ UNCHANGED db

SaveDerived ==
    /\ deriver.pc = "save"
    /\ Deriving(NoJob)
    /\ derived' = [derived EXCEPT ![deriver.id] = deriver.content]
    /\ UNCHANGED <<rows, nextId, metadata>>

-------------------------------------------------------------------------------
(* Gallery folders *)

\* The rows go, and what is derived from them stays.
RemoveFolder ==
    /\ gallery
    /\ gallery' = FALSE
    /\ rows' = {}
    /\ UNCHANGED <<folder, nextId, children, workers>>

\* A scan that runs already is left to it.
ScanSingleDir == scan' = IF Scans("idle") THEN [NotScanning EXCEPT !.pc = "walk", !.dirs = TRUE] ELSE scan

AddFolder ==
    /\ ~gallery
    /\ IdsLeft
    /\ gallery' = TRUE
    /\ ScanSingleDir
    /\ UNCHANGED <<folder, db, sync, jobs, deriver>>

-------------------------------------------------------------------------------
\* The process ends and starts again; files and rows persist.
Restart ==
    /\ scan' = NotScanning
    /\ sync' = NotSyncing
    /\ jobs' = [s \in Slots |-> NoJob]
    /\ deriver' = NoJob
    /\ UNCHANGED <<folder, gallery, db>>

UserStep == \E f \in Files : Write(f) \/ Touch(f) \/ Vanish(f)

ScanStep ==
    \/ GetGalleryDirs \/ CleanupPage \/ CleanupRow
    \/ WalkFolder \/ LoadExisting \/ PurgeMissing
    \/ \E n \in scan.found : HashFile(n)
    \/ CreateBatch \/ ReadOldHashes \/ SaveBatch
    \/ \E e \in scan.events : EmitEvent(e)
    \/ AllEmitted \/ FinishScan

JobStep(s) == JobExtracts(s) \/ JobStores(s) \/ JobInvalidates(s)

SyncStep ==
    \/ SyncWalk \/ SyncLoad \/ SyncFile
    \/ SyncCreates \/ SyncSaves \/ SyncExtracts \/ SyncStores \/ SyncInvalidates
    \/ SyncSweeps \/ SyncSweepsRow \/ SyncEnds

DeriverStep == (\E r \in rows : Take(r)) \/ Read \/ SaveDerived

Next ==
    \/ UserStep
    \/ \E fast \in BOOLEAN : StartScan(fast)
    \/ ScanStep
    \/ \E s \in Slots : JobStep(s) \/ JobFails(s)
    \/ StartSync \/ SyncStep \/ SyncFails \/ StopSync
    \/ DeriverStep
    \/ RemoveFolder \/ AddFolder
    \/ Restart

\* Goroutines are scheduled, and their calls return: the clients of the other
\* services have timeouts.
Fairness ==
    /\ WF_vars(ScanStep)
    /\ WF_vars(SyncStep \/ SyncFails)
    /\ \A s \in Slots : WF_vars(JobStep(s) \/ JobFails(s))

Spec == Init /\ [][Next]_vars /\ Fairness

-------------------------------------------------------------------------------
(* Properties *)

FolderOK ==
    /\ disk \in [Files -> [content : Contents, stamp : Contents]]
    /\ last \in 1 .. MaxContent
    /\ gallery \in BOOLEAN

DbOK ==
    /\ rows \subseteq Row
    /\ nextId \in 1 .. MaxId + 1
    /\ derived \in [Ids -> Contents]
    /\ metadata \in [Ids -> Contents]

ScanOK ==
    scan \in [pc : {"idle", "dirs", "page", "verify", "walk", "load", "purge", "hash",
                    "create", "old", "save", "emit", "finish"},
              fast : BOOLEAN, dirs : BOOLEAN, lastId : Ids, more : BOOLEAN,
              page : SUBSET Row, found : SUBSET Stat, existing : SUBSET Row,
              creates : SUBSET Row, updates : SUBSET Row, old : SUBSET Row,
              events : SUBSET Event]

SyncOK ==
    sync \in [pc : {"idle", "walk", "load", "files", "create", "save", "extract", "store",
                    "invalidate", "sweep"},
              running : BOOLEAN, page : SUBSET Row, found : SUBSET Stat,
              existing : SUBSET Row, row : SUBSET Row, changed : BOOLEAN,
              content : Contents]

\* A goroutine that follows up on an image, or derives something from it
Follower(pcs) == [pc : pcs, id : Ids, file : Files \cup {0}, content : Contents]
JobsOK == jobs \in [Slots -> Follower({"none", "extract", "store", "invalidate"})]
DeriverOK == deriver \in Follower({"none", "read", "save"})

\* The state of the goroutines and of the tables is well-typed.
TypeOK == FolderOK /\ DbOK /\ ScanOK /\ SyncOK /\ JobsOK /\ DeriverOK

\* A file that both kinds of passes take for unchanged, because its row has its
\* size and modification time, has the content whose hash the row has, however
\* passes and changes of files interleave (scanDirectory, syncFolder: "If both
\* match, unchanged").
LooksUnchanged(r) == Exists(r.file) /\ disk[r.file].stamp = r.stamp
UnchangedFilesAreCurrent == \A r \in rows : LooksUnchanged(r) => disk[r.file].content = r.content

\* When all is quiet, what was derived from a file that looks unchanged was
\* derived from the content it has (InvalidateOCRClassification: "deletes
\* existing OCR classification for a file so it gets re-classified on the next
\* OCR pass"; InvalidateTagsAndEmbeddings).
Quiet ==
    /\ Scans("idle") /\ Syncs("idle")
    /\ \A s \in Slots : Idle(s)
    /\ deriver = NoJob
DerivedIsFresh ==
    Quiet => \A r \in rows : LooksUnchanged(r) => derived[r.id] \in {0, disk[r.file].content}

\* ... and so were its metadata, which are there (ExtractAndSaveMetadata).
MetadataIsFresh ==
    Quiet => \A r \in rows : LooksUnchanged(r) => metadata[r.id] = disk[r.file].content

\* Nothing that was derived from an image is kept without the image
\* (deleteImageFileCascade: "to prevent orphaned child rows").
NoOrphans ==
    \A i \in Ids : derived[i] # 0 \/ metadata[i] # 0 => \E r \in rows : r.id = i

\* Every scan and every synchronisation ends (cleanupMissingFiles: "it always
\* makes forward progress and terminates even when the table is larger than one
\* batch and no records are deleted").
PassesEnd ==
    /\ ~Scans("idle") ~> Scans("idle")
    /\ ~Syncs("idle") ~> Syncs("idle")
===============================================================================
