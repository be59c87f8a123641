------------------------------- MODULE TrashBin -------------------------------
(***************************************************************************)
(* Trash, restore, permanent deletion, batch deduplication and moving of   *)
(* photo files, as the core service's HTTP handlers do them                *)
(* (handlers_trash.go, handlers_duplicates.go, handlers_move.go and        *)
(* helpers/fileops.go).                                                    *)
(*                                                                         *)
(* Three stores are kept in step by nothing but the order in which each    *)
(* handler touches them: the file system (disk), the image_files table     *)
(* (images) and the trash_items table (items).  No handler holds a lock    *)
(* or a transaction, so a step of a request is one access to one store     *)
(* and the steps of concurrent requests interleave.                        *)
(***************************************************************************)
EXTENDS Naturals, Sequences, FiniteSets

CONSTANTS
    Stems,        \* base names of photos as the user's camera wrote them
    Folders,      \* gallery folders
    TrashDirs,    \* directories an administrator may choose as the trash
    Cwd,          \* the server process's working directory
    NoDir,        \* "" where a directory is expected
    Contents,     \* what a photo file holds; two files with one content are duplicates
    NoHash,       \* OriginalHash = ""
    NoPath,       \* OriginalPath = ""
    Requests,     \* handler goroutines that may be in flight at once
    InitialDisks, \* the galleries a run starts from
    Calls,        \* the endpoints the clients of a run call
    MaxBatch,     \* bound: files in one delete request
    MaxCalls,     \* bound: requests the clients send
    MaxClock,     \* bound: seconds the clock advances
    MaxFaults,    \* bound: operations the file system refuses
    MaxCrashes    \* bound: restarts of the service

(***************************************************************************)
(* Paths (helpers/fileops.go).  A base name such as                        *)
(* "IMG_1_restored_20260801_101500.jpg" is a stem ("IMG_1.jpg") and the    *)
(* tags the program appended to it before the extension, oldest first.  A  *)
(* tag is a kind and a number: the second of the clock for a time stamp,   *)
(* the counter for a move's "_1", "_2", ...                                *)
(***************************************************************************)
TagKinds == {"stamp", "restored", "copy"}

Name == [stem : Stems, tags : Seq(TagKinds \X Nat)]

Path == [dir : Folders \cup TrashDirs \cup {Cwd}, name : Name]

\* nameWithoutExt + "_..." + ext
Suffixed(name, kind, n) == [name EXCEPT !.tags = Append(@, <<kind, n>>)]

\* mutant: the file name is not joined to the directory
DirLess(dir, p) == [dir |-> NoDir, name |-> p.name]

\* filepath.Join(dir, filepath.Base(p)), and the same with a tagged base name
In(dir, p) == [dir |-> dir, name |-> p.name]
InTagged(dir, p, kind, n) == [dir |-> dir, name |-> Suffixed(p.name, kind, n)]

\* A file system or a table keyed by path is a function whose domain is the
\* set of paths present.
Lacking(f, S) == [p \in DOMAIN f \ S |-> f[p]]
With(f, p, v) == [q \in DOMAIN f \cup {p} |-> IF q = p THEN v ELSE f[q]]

\* os.Rename(src, dst): a file already at dst is replaced
Renamed(f, src, dst) == With(Lacking(f, {src}), dst, f[src])

-------------------------------------------------------------------------------
ASSUME DirsAreDistinct ==
    /\ Folders \cap TrashDirs = {}
    /\ Cwd \notin Folders \cup TrashDirs
    /\ NoDir \notin Folders \cup TrashDirs \cup {Cwd}

ASSUME NoValuesAreDistinct == NoHash \notin Contents /\ NoPath \notin Path

ASSUME InitialDisksAreGalleries ==
    \A d \in InitialDisks :
        /\ d \in [DOMAIN d -> Contents]
        /\ DOMAIN d \subseteq [dir : Folders, name : Name]

ASSUME BoundsAreNat ==
    {MaxBatch, MaxCalls, MaxClock, MaxFaults, MaxCrashes} \subseteq Nat

VARIABLES
    disk,      \* the file system: path -> content
    images,    \* image_files: path (unique) -> recorded hash
    items,     \* trash_items: id -> [trash, original, hash]
    nextId,    \* the next primary key of trash_items
    trashDir,  \* settings.TrashDir
    req,       \* what each handler goroutine holds between two accesses
    clock,     \* the wall clock, in the seconds a time stamp resolves
    calls,     \* how many requests the clients have sent
    purged,    \* history: contents of which a client destroyed a file for good
    faults, crashes  \* history: how much of the bounds is used

stores == <<disk, images, items, nextId>>
env == <<trashDir, clock, faults, crashes>>
trashVars == <<disk, images, items, nextId, trashDir, req, calls, clock, purged, faults, crashes>>

-------------------------------------------------------------------------------
(* The tables *)

TrashItem == [trash : Path, original : Path \cup {NoPath}, hash : Contents \cup {NoHash}]

TrashPaths == {items[i].trash : i \in DOMAIN items}

\* mutant: the original path is not recorded
CreateBareItem(item) ==
    /\ items' = With(items, nextId, [item EXCEPT !.original = NoPath])
    /\ nextId' = nextId + 1

\* db.Create(&TrashItem{...}): refused by the unique index on trash_path; the
\* callers ignore the error
CreateItem(item) ==
    IF item.trash \in TrashPaths
    THEN UNCHANGED <<items, nextId>>
    ELSE /\ items' = With(items, nextId, item)
         /\ nextId' = nextId + 1

\* The hash of the gallery row of a path, if there is one
Hash(p) == IF p \in DOMAIN images THEN images[p] ELSE NoHash

\* The files ReadDir finds in a directory
FilesIn(dir) == {p \in DOMAIN disk : p.dir = dir}

\* mutant: pruning keeps every row
NoStaleRows(onDisk) == {}

\* The rows whose file is not among those listed
StaleRows(onDisk) == {i \in DOMAIN items : items[i].trash \notin onDisk}

\* FindDuplicatesPaginated: the rows of one (hash, size), when there are several
DuplicateGroups ==
    {g \in {{p \in DOMAIN images : images[p] = c} : c \in Contents} : Cardinality(g) > 1}

FolderPattern(g) == {p.dir : p \in g}

-------------------------------------------------------------------------------
(* Handler goroutines *)

Idle == [at |-> "idle"]

Goto(r, local) == req' = [req EXCEPT ![r] = local] /\ UNCHANGED calls

Finish(r) == Goto(r, Idle)

\* A client's request reaches an endpoint
StartRequest(r, endpoint, local) ==
    /\ endpoint \in Calls
    /\ req[r] = Idle
    /\ calls < MaxCalls
    /\ calls' = calls + 1
    /\ req' = [req EXCEPT ![r] = local]

\* MaxFaults bounds how often the file system refuses an operation
Refusal == faults < MaxFaults /\ faults' = faults + 1

TrashInit ==
    /\ disk \in InitialDisks
    /\ images = disk
    /\ items = <<>>
    /\ nextId = 1
    /\ trashDir \in TrashDirs
    /\ req = [r \in Requests |-> Idle]
    /\ calls = 0
    /\ clock = 0
    /\ purged = {}
    /\ faults = 0
    /\ crashes = 0

-------------------------------------------------------------------------------
(* Deleting: POST /api/delete-files and /api/batch-delete.  Both loop over *)
(* files and go on with the next one after a failure.                      *)

NextFile(todo, dir) == [at |-> "next", todo |-> todo, dir |-> dir]

\* A client deletes files it sees in the gallery; it sends the trash directory
\* of the settings, or "" to delete for good.
DeleteFiles(r) ==
    /\ \E S \in SUBSET DOMAIN images, dir \in {trashDir, NoDir} :
         /\ Cardinality(S) \in 1..MaxBatch
         /\ StartRequest(r, "delete", NextFile(S, dir))
    /\ UNCHANGED <<stores, env, purged>>

\* mutant: the folder to keep is not spared
AllOfPattern(g, keep) ==
    UNION {h \in DuplicateGroups : FolderPattern(h) = FolderPattern(g)}

\* What a rule deletes: of every group spread over the folders of g, the files
\* outside the folder to keep
Doomed(g, keep) ==
    {p \in UNION {h \in DuplicateGroups : FolderPattern(h) = FolderPattern(g)} : p.dir # keep}

\* The groups are those of one query; the deletions follow one by one.
BatchDelete(r) ==
    /\ \E g \in DuplicateGroups : \E keep \in FolderPattern(g) :
         \E dir \in {trashDir, NoDir} : StartRequest(r, "batch", NextFile(Doomed(g, keep), dir))
    /\ UNCHANGED <<stores, env, purged>>

DeleteDone(r) ==
    /\ req[r].at = "next" /\ req[r].todo = {}
    /\ Finish(r)
    /\ UNCHANGED <<stores, env, purged>>

\* MoveToTrashOrDelete with trashDir = "": os.Remove.  A file that is gone, or
\* cannot be removed, keeps its row.
RemoveForGood(r, p) ==
    /\ req[r].at = "next" /\ p \in req[r].todo /\ req[r].dir = NoDir
    /\ \/ /\ p \in DOMAIN disk
          /\ disk' = Lacking(disk, {p})
          /\ purged' = purged \cup {disk[p]}
          /\ Goto(r, [at |-> "unlist", todo |-> req[r].todo, dir |-> NoDir, src |-> p])
          /\ UNCHANGED faults
       \/ /\ IF p \in DOMAIN disk THEN Refusal ELSE UNCHANGED faults
          /\ Goto(r, NextFile(req[r].todo \ {p}, NoDir))
          /\ UNCHANGED <<disk, purged>>
    /\ UNCHANGED <<images, items, nextId, trashDir, clock, crashes>>

\* moveToTrash looks the hash up before the move ...
LookUp(r, p) ==
    /\ req[r].at = "next" /\ p \in req[r].todo /\ req[r].dir # NoDir
    /\ Goto(r, [at |-> "choose", todo |-> req[r].todo, dir |-> req[r].dir,
                src |-> p, hash |-> Hash(p)])
    /\ UNCHANGED <<stores, env, purged>>

\* A name that is free now, or else stamped with the second it is now
TrashPath(dir, p) ==
    IF In(dir, p) \in DOMAIN disk THEN InTagged(dir, p, "stamp", clock) ELSE In(dir, p)

\* ... chooses where the file goes ...
ChooseTrashPath(r) ==
    /\ req[r].at = "choose"
    /\ Goto(r, [at |-> "move", todo |-> req[r].todo, dir |-> req[r].dir,
                src |-> req[r].src, hash |-> req[r].hash,
                dst |-> TrashPath(req[r].dir, req[r].src)])
    /\ UNCHANGED <<stores, env, purged>>

\* A move the file system carries out, by rename or by copyAndDelete
Moves(src, dst) ==
    /\ src \in DOMAIN disk
    /\ disk' = Renamed(disk, src, dst)
    /\ UNCHANGED faults

\* copyAndDelete copied the file and could not remove the source.  Renaming a
\* path to itself never falls back to a copy.
CopiesOnly(src, dst) ==
    /\ src \in DOMAIN disk /\ src # dst
    /\ Refusal
    /\ disk' = With(disk, dst, disk[src])

\* mutant: the source is removed although the copy failed
MoveFailsAndRemoves(src, dst) ==
    \/ /\ src \notin DOMAIN disk
       /\ UNCHANGED <<disk, faults>>
    \/ /\ src \in DOMAIN disk /\ src # dst
       /\ Refusal
       /\ disk' = Lacking(disk, {src, dst})

\* The source is gone, or the copy failed: os.Create truncated dst and
\* os.Remove takes it away
MoveFails(src, dst) ==
    \/ /\ src \notin DOMAIN disk
       /\ UNCHANGED <<disk, faults>>
    \/ /\ src \in DOMAIN disk /\ src # dst
       /\ Refusal
       /\ \/ UNCHANGED disk
          \/ disk' = Lacking(disk, {dst})

\* ... moves the file; an error leaves the row alone and goes on ...
MoveToTrash(r) ==
    /\ req[r].at = "move"
    /\ \/ /\ Moves(req[r].src, req[r].dst)
          /\ Goto(r, [req[r] EXCEPT !.at = "record"])
       \/ /\ CopiesOnly(req[r].src, req[r].dst) \/ MoveFails(req[r].src, req[r].dst)
          /\ Goto(r, NextFile(req[r].todo \ {req[r].src}, req[r].dir))
    /\ UNCHANGED <<images, items, nextId, trashDir, clock, crashes, purged>>

\* ... records the trash item; a refused Create is not reported ...
RecordTrashItem(r) ==
    /\ req[r].at = "record"
    /\ CreateItem([trash |-> req[r].dst, original |-> req[r].src, hash |-> req[r].hash])
    /\ Goto(r, [at |-> "unlist", todo |-> req[r].todo, dir |-> req[r].dir, src |-> req[r].src])
    /\ UNCHANGED <<disk, images, env, purged>>

\* mutant: the gallery row stays
KeepRow(r) ==
    /\ req[r].at = "unlist"
    /\ Goto(r, NextFile(req[r].todo \ {req[r].src}, req[r].dir))
    /\ UNCHANGED <<stores, env, purged>>

\* ... and DeleteFromDB drops the gallery row by path.
DeleteFromDB(r) ==
    /\ req[r].at = "unlist"
    /\ images' = Lacking(images, {req[r].src})
    /\ Goto(r, NextFile(req[r].todo \ {req[r].src}, req[r].dir))
    /\ UNCHANGED <<disk, items, nextId, env, purged>>

-------------------------------------------------------------------------------
(* GET /api/trash runs reconcileTrash                                      *)

ReadTrashDir(r) ==
    /\ trashDir # NoDir
    /\ StartRequest(r, "list", [at |-> "rows", onDisk |-> FilesIn(trashDir)])
    /\ UNCHANGED <<stores, env, purged>>

ReadTrashRows(r) ==
    /\ req[r].at = "rows"
    /\ Goto(r, [at |-> "reconcile", backfill |-> req[r].onDisk,
                prune |-> StaleRows(req[r].onDisk)])
    /\ UNCHANGED <<stores, env, purged>>

\* A file without a row gets one with no original path
Backfill(r, p) ==
    /\ req[r].at = "reconcile" /\ p \in req[r].backfill
    /\ CreateItem([trash |-> p, original |-> NoPath, hash |-> NoHash])
    /\ Goto(r, [req[r] EXCEPT !.backfill = @ \ {p}])
    /\ UNCHANGED <<disk, images, env, purged>>

\* A row whose file was not in the directory listing is deleted by id
Prune(r, i) ==
    /\ req[r].at = "reconcile" /\ req[r].backfill = {} /\ i \in req[r].prune
    /\ items' = Lacking(items, {i})
    /\ Goto(r, [req[r] EXCEPT !.prune = @ \ {i}])
    /\ UNCHANGED <<disk, images, nextId, env, purged>>

Reconciled(r) ==
    /\ req[r].at = "reconcile" /\ req[r].backfill = {} /\ req[r].prune = {}
    /\ Finish(r)
    /\ UNCHANGED <<stores, env, purged>>

-------------------------------------------------------------------------------
(* POST /api/trash-restore                                                 *)

LoadForRestore(r, i) ==
    /\ i \in DOMAIN items /\ items[i].original # NoPath
    /\ StartRequest(r, "restore", [at |-> "target", id |-> i, item |-> items[i]])
    /\ UNCHANGED <<stores, env, purged>>

\* RestoreFile: when the original path is taken, the new target is a bare file
\* name, which the process resolves against its working directory.
ChooseTarget(r) ==
    /\ req[r].at = "target"
    /\ LET item == req[r].item
           dst == IF item.original \in DOMAIN disk
                  THEN InTagged(Cwd, item.trash, "restored", clock)
                  ELSE item.original
       IN  IF item.trash \in DOMAIN disk
           THEN Goto(r, [at |-> "restore", id |-> req[r].id, src |-> item.trash,
                         dst |-> dst, hash |-> item.hash])
           ELSE Finish(r)
    /\ UNCHANGED <<stores, env, purged>>

\* The fallback ignores an error of removing the trash file
RestoreMove(r) ==
    /\ req[r].at = "restore"
    /\ \/ /\ Moves(req[r].src, req[r].dst) \/ CopiesOnly(req[r].src, req[r].dst)
          /\ Goto(r, [req[r] EXCEPT !.at = "relist"])
       \/ /\ MoveFails(req[r].src, req[r].dst)
          /\ Finish(r)
    /\ UNCHANGED <<images, items, nextId, trashDir, clock, crashes, purged>>

\* db.Create(&ImageFile{...}): refused when the path has a row, unreported.  A
\* hash the item does not hold is computed from the file.
Relist(r) ==
    /\ req[r].at = "relist"
    /\ LET hash == IF req[r].hash = NoHash /\ req[r].dst \in DOMAIN disk
                   THEN disk[req[r].dst]
                   ELSE req[r].hash
       IN  images' = IF req[r].dst \in DOMAIN images
                     THEN images
                     ELSE With(images, req[r].dst, hash)
    /\ Goto(r, [at |-> "dropitem", id |-> req[r].id])
    /\ UNCHANGED <<disk, items, nextId, env, purged>>

\* mutant: the trash row stays
KeepItem(r) ==
    /\ req[r].at = "dropitem"
    /\ Finish(r)
    /\ UNCHANGED <<stores, env, purged>>

\* The last access of a restore and of a permanent deletion
DropItem(r) ==
    /\ req[r].at = "dropitem"
    /\ items' = Lacking(items, {req[r].id})
    /\ Finish(r)
    /\ UNCHANGED <<disk, images, nextId, env, purged>>

-------------------------------------------------------------------------------
(* POST /api/trash-delete and POST /api/trash-clean                        *)

LoadForDelete(r, i) ==
    /\ i \in DOMAIN items
    /\ StartRequest(r, "purge", [at |-> "purge", id |-> i, src |-> items[i].trash])
    /\ UNCHANGED <<stores, env, purged>>

\* A file that is gone, or cannot be removed, ends the request and keeps the row
Purge(r) ==
    /\ req[r].at = "purge"
    /\ \/ /\ req[r].src \in DOMAIN disk
          /\ disk' = Lacking(disk, {req[r].src})
          /\ purged' = purged \cup {disk[req[r].src]}
          /\ Goto(r, [at |-> "dropitem", id |-> req[r].id])
          /\ UNCHANGED faults
       \/ /\ IF req[r].src \in DOMAIN disk THEN Refusal ELSE UNCHANGED faults
          /\ Finish(r)
          /\ UNCHANGED <<disk, purged>>
    /\ UNCHANGED <<images, items, nextId, trashDir, clock, crashes>>

ReadForClean(r) ==
    /\ trashDir # NoDir
    /\ StartRequest(r, "clean", [at |-> "clean", todo |-> FilesIn(trashDir)])
    /\ UNCHANGED <<stores, env, purged>>

CleanFile(r, p) ==
    /\ req[r].at = "clean" /\ p \in req[r].todo
    /\ \/ /\ disk' = Lacking(disk, {p})
          /\ purged' = purged \cup {disk[q] : q \in {p} \cap DOMAIN disk}
          /\ UNCHANGED faults
       \/ /\ p \in DOMAIN disk
          /\ Refusal
          /\ UNCHANGED <<disk, purged>>
    /\ Goto(r, [req[r] EXCEPT !.todo = @ \ {p}])
    /\ UNCHANGED <<images, items, nextId, trashDir, clock, crashes>>

\* Where("1 = 1"): every row there is now, whatever the loop removed
CleanRows(r) ==
    /\ req[r].at = "clean" /\ req[r].todo = {}
    /\ items' = <<>>
    /\ Finish(r)
    /\ UNCHANGED <<disk, images, nextId, env, purged>>

-------------------------------------------------------------------------------
(* POST /api/move-files: BatchMoveFiles, one file of the batch             *)

ChooseDestination(r, p, dir) ==
    /\ StartRequest(r, "move", [at |-> "destination", src |-> p, dir |-> dir, n |-> 0])
    /\ UNCHANGED <<stores, env, purged>>

\* The n-th name tried: the file's own, then "_1", "_2", ...
Candidate(dir, p, n) == IF n = 0 THEN In(dir, p) ELSE InTagged(dir, p, "copy", n)

\* os.Stat: the loop goes on to the first name that is free
TryDestination(r) ==
    /\ req[r].at = "destination"
    /\ LET dst == Candidate(req[r].dir, req[r].src, req[r].n)
       IN  IF dst \in DOMAIN disk
           THEN Goto(r, [req[r] EXCEPT !.n = @ + 1])
           ELSE Goto(r, [at |-> "carry", src |-> req[r].src, dst |-> dst])
    /\ UNCHANGED <<stores, env, purged>>

Carry(r) ==
    /\ req[r].at = "carry"
    /\ \/ /\ Moves(req[r].src, req[r].dst)
          /\ Goto(r, [req[r] EXCEPT !.at = "repath"])
       \/ /\ CopiesOnly(req[r].src, req[r].dst) \/ MoveFails(req[r].src, req[r].dst)
          /\ Finish(r)
    /\ UNCHANGED <<images, items, nextId, trashDir, clock, crashes, purged>>

\* UPDATE image_files SET path: refused when the new path has a row, unreported
UpdatePath(r) ==
    /\ req[r].at = "repath"
    /\ images' = IF req[r].src \in DOMAIN images /\ req[r].dst \notin DOMAIN images
                 THEN Renamed(images, req[r].src, req[r].dst)
                 ELSE images
    /\ Finish(r)
    /\ UNCHANGED <<disk, items, nextId, env, purged>>

-------------------------------------------------------------------------------
(* The surroundings                                                        *)

\* PUT /api/settings; NoDir switches the trash off
SetTrashDir(dir) ==
    /\ "settings" \in Calls
    /\ dir # trashDir
    /\ trashDir' = dir
    /\ UNCHANGED <<stores, req, calls, clock, faults, crashes, purged>>

Tick ==
    /\ clock < MaxClock
    /\ clock' = clock + 1
    /\ UNCHANGED <<stores, trashDir, req, calls, faults, crashes, purged>>

\* The service stops at any point; nothing resumes a request
Crash ==
    /\ crashes < MaxCrashes
    /\ crashes' = crashes + 1
    /\ req' = [r \in Requests |-> Idle]
    /\ UNCHANGED <<stores, trashDir, calls, clock, faults, purged>>

DeleteStep(r) ==
    \/ DeleteFiles(r) \/ BatchDelete(r) \/ DeleteDone(r)
    \/ req[r].at = "next" /\ \E p \in req[r].todo : RemoveForGood(r, p) \/ LookUp(r, p)
    \/ ChooseTrashPath(r) \/ MoveToTrash(r) \/ RecordTrashItem(r) \/ DeleteFromDB(r)

ListStep(r) ==
    \/ ReadTrashDir(r) \/ ReadTrashRows(r) \/ Reconciled(r)
    \/ req[r].at = "reconcile" /\ \E p \in req[r].backfill : Backfill(r, p)
    \/ req[r].at = "reconcile" /\ \E i \in req[r].prune : Prune(r, i)

RestoreStep(r) ==
    \/ \E i \in DOMAIN items : LoadForRestore(r, i)
    \/ ChooseTarget(r) \/ RestoreMove(r) \/ Relist(r) \/ DropItem(r)

PurgeStep(r) ==
    \/ \E i \in DOMAIN items : LoadForDelete(r, i)
    \/ Purge(r)
    \/ ReadForClean(r) \/ CleanRows(r)
    \/ req[r].at = "clean" /\ \E p \in req[r].todo : CleanFile(r, p)

MoveStep(r) ==
    \/ \E p \in DOMAIN images, dir \in Folders : ChooseDestination(r, p, dir)
    \/ TryDestination(r) \/ Carry(r) \/ UpdatePath(r)

Environment == Tick \/ Crash \/ \E dir \in TrashDirs \cup {NoDir} : SetTrashDir(dir)

TrashNext ==
    \/ \E r \in Requests :
         DeleteStep(r) \/ ListStep(r) \/ RestoreStep(r) \/ PurgeStep(r) \/ MoveStep(r)
    \/ Environment

Spec == TrashInit /\ [][TrashNext]_trashVars

-------------------------------------------------------------------------------
(* Properties                                                              *)

\* What a goroutine may hold at each point of its handler
MaybeHash == Contents \cup {NoHash}

Deleting ==
    [at : {"next"}, todo : SUBSET Path, dir : TrashDirs \cup {NoDir}]
    \cup [at : {"choose"}, todo : SUBSET Path, dir : TrashDirs, src : Path, hash : MaybeHash]
    \cup [at : {"move", "record"}, todo : SUBSET Path, dir : TrashDirs, src : Path,
          hash : MaybeHash, dst : Path]
    \cup [at : {"unlist"}, todo : SUBSET Path, dir : TrashDirs \cup {NoDir}, src : Path]

Listing ==
    [at : {"rows"}, onDisk : SUBSET Path]
    \cup [at : {"reconcile"}, backfill : SUBSET Path, prune : SUBSET Nat]

Restoring ==
    [at : {"target"}, id : Nat, item : [trash : Path, original : Path, hash : MaybeHash]]
    \cup [at : {"restore", "relist"}, id : Nat, src : Path, dst : Path, hash : MaybeHash]

Purging ==
    [at : {"purge"}, id : Nat, src : Path]
    \cup [at : {"dropitem"}, id : Nat]
    \cup [at : {"clean"}, todo : SUBSET Path]

Carrying ==
    [at : {"destination"}, src : Path, dir : Folders, n : Nat]
    \cup [at : {"carry", "repath"}, src : Path, dst : Path]

Local == {Idle} \cup Deleting \cup Listing \cup Restoring \cup Purging \cup Carrying

DiskOK == disk \in [DOMAIN disk -> Contents] /\ DOMAIN disk \subseteq Path
ImagesOK == images \in [DOMAIN images -> MaybeHash] /\ DOMAIN images \subseteq Path
ItemsOK == items \in [DOMAIN items -> TrashItem] /\ DOMAIN items \subseteq Nat /\ nextId \in Nat
ReqOK == req \in [Requests -> Local] /\ calls \in Nat
EnvOK ==
    /\ trashDir \in TrashDirs \cup {NoDir}
    /\ clock \in Nat /\ faults \in Nat /\ crashes \in Nat
    /\ purged \subseteq Contents

\* Every store and every goroutine's local state holds values of its type.
TrashTypeOK == DiskOK /\ ImagesOK /\ ItemsOK /\ ReqOK /\ EnvOK

Quiet == \A r \in Requests : req[r] = Idle

GalleryFilesOnDisk == {p \in DOMAIN disk : p.dir \notin TrashDirs}

\* Moving, trashing, restoring and cleaning up after a failed copy never
\* destroy a photo: a content that no client deleted for good is still held by
\* some file.
NoContentLost == Contents \subseteq purged \cup {disk[p] : p \in DOMAIN disk}

\* When no request is in flight, the gallery table lists exactly the files
\* outside the trash: deletes drop the row of what they moved, moves re-path
\* it, restores re-insert it.
GalleryMatchesDisk == Quiet => DOMAIN images = GalleryFilesOnDisk

\* The hash kept with a trash item, which a restore copies into the gallery
\* without looking at the file, is the hash of the file in the trash.
ItemDescribesItsFile ==
    \A i \in DOMAIN items :
        items[i].trash \in DOMAIN disk /\ items[i].hash # NoHash
            => items[i].hash = disk[items[i].trash]

\* What is in the trash can be restored: its row knows an original path, unless
\* the request that moved the file is still to record it.
TrashedIsRestorable ==
    \A p \in DOMAIN disk : p.dir \in TrashDirs =>
        \/ \E i \in DOMAIN items : items[i].trash = p /\ items[i].original # NoPath
        \/ \E r \in Requests : req[r].at = "record" /\ req[r].dst = p

\* GET /api/trash leaves exactly one row per file of the trash directory, after
\* whatever crash or failed operation came before it.
LeavesOneRowPerFile(r) ==
    /\ TrashPaths' = FilesIn(trashDir)'
    /\ Cardinality(DOMAIN items') = Cardinality(TrashPaths')

\* Batch deduplication keeps a copy of every photo in the gallery.
EveryPhotoInTheGallery ==
    \A c \in Contents : \E p \in DOMAIN disk : disk[p] = c /\ p.dir \in Folders

===============================================================================
