# Flashbacks in TLA+

Flashbacks is a self-hosted photo gallery: Go services over PostgreSQL and the
file system, a Python service for faces, and a web application. This directory
holds TLA+ models of the parts in which goroutines, requests, processes, tables
and files meet, the TLC runs that check them on small instances, and TLAPS
proofs about most of them. `PROJECT.json` maps every definition to the lines it
translates and lists components, runs, mutants, the findings, hazards and
theorems.

Contents: [the system](#the-system) · [modules](#modules) ·
[how they follow the code](#how-the-modules-follow-the-code) · [runs](#runs) ·
[scenarios and bounds](#scenarios-and-bounds) · [fairness](#fairness) · [proofs](#proofs) ·
[departures](#where-the-code-departs-from-its-promises) ·
[not modelled](#what-is-not-modelled-and-why) · [next](#what-could-come-next)

## The system

All paths below are relative to `src/`; `app/` abbreviates
`backend/core/internal/application/` and `handler/`
`backend/core/internal/interfaces/handler/`.

### Services

| Service | Code | State | Speaks with |
|---|---|---|---|
| core | `backend/core` (Go, 33k lines) | PostgreSQL, the gallery and trash folders, thumbnails, in-memory job managers | every other service over HTTP, LLM providers, the browser |
| exif | `backend/exif` | a pool of exiftool processes, a metadata table | core, MCP clients |
| ocr | `backend/ocr` | none | core |
| faces | `backend/faces` (Python) | neural networks in memory | core |
| registry | `backend/registry` | an embedded etcd: instances with leases | all services, through `registry/client` |
| web application | `webapp` (TypeScript) | views and caches in the browser | core |
| tools, scripts, tests | `tools`, `scripts`, `tests` | none | |

Services find one another through the registry, and the core calls them with
clients that time out (`backend/core/internal/infrastructure`). Everything that
outlasts a process is in the database or the file system; job managers,
progress and the "running" flags are lost at a restart.

### Components of the core

For each component: its state, its operations, whom it meets, what is hard
about it, and what makes it correct.

**Trash and file operations** (`handler/handlers_trash.go`,
`handlers_duplicates.go`, `handlers_move.go`, `handler/helpers/fileops.go`).
State: the files, `image_files`, `trash_items`, the trash folder in the
settings. Operations: delete to trash, delete for good, batch deduplication,
list with reconciliation, restore, permanent delete, clean, move. No
transaction spans a file and a row; names are chosen with a `stat` and used
later; several requests may be at it at once; any file operation may be refused
and the process may die in between. Correct: no photo is overwritten or lost;
tables and folders agree; what was trashed can be restored; a deduplication
leaves a copy of every photo.

**Background manager** (`app/background/manager.go`). State: a running flag and a
stop channel. Operations: `TryStart`, `Stop`, `Done`, `MarkStopped`.
Every background job starts and stops through one. Correct: one worker at a
time, and the flag tells the truth.

**Tag embeddings** (`app/imaging/embedding_backfill.go`, `llm_ocr.go`).
State: `image_tags`, `tag_embeddings`, one table of vectors per model.
Operations: the backfill over pages of images, the hook after an image was
tagged, saving tags, invalidating both. Look-ups and inserts are separate
statements, several goroutines may embed one image, and tags change while a
vector is computed. Correct: one vector per image and model, made from the
current tags, and none missing.

**OCR classification** (`app/imaging/ocr_manager.go`, `ocr.go`). State: the run
(launcher, workers, semaphore, channel, wait group, consumer), the setting for
the number of workers, the classifications. Correct: no more workers than
allowed, no result lost, runs that end, and changed files classified anew.

**Tag scan and schedules** (`app/imaging/tag_scan.go`, `domain/schedule.go`,
`app/imaging/llm_ocr.go`). State: the loop, the schedule, a count of pauses,
a channel of resumes, tags and permanent errors. AI tasks and users pause the
scanner; an administrator sets the schedule; the clock goes on. Correct: the
scanner is held while a task is at work and goes on afterwards, scans in every
window, follows the schedule, and stops.

**Gallery scan and synchronisation** (`app/imaging/scan_manager.go`,
`scanner.go`, `background_sync.go`, `cmd/server/app.go`,
`handler/handlers_folders.go`). State: `image_files` and what is derived from
it, the two passes, goroutines that follow up on each file. Files change during
a pass, two passes overlap, batches are saved from what was read before, what
is derived races with its invalidation, and a restart loses follow-ups.
Correct: the index equals the disk, images keep their ids, derived data is
fresh, deletions leave no orphans.

**Face recognition and people** (`app/faces`, `app/people`). State: faces with
person and manual flag; people with cover and generation; exemplars by which a
later pass recognises a person; the job with what its pass has read.
Operations: analysis of photos, matching, clustering, merging, covers, a
re-clustering from scratch, and the user's assigning, detaching, merging,
disbanding, naming. A pass reads a snapshot, asks the service for minutes, and
writes by id, and may be stopped or die between any two tables. Correct: faces
and exemplars are of people there are; what a user curated survives; one look
is one person; every face that can be somebody becomes somebody.

**Accounts and sessions** (`app/auth`). State: users, sessions with expiry, a
login limiter in memory; the first administrator is created while there are no
users (`bootstrap.go`). Operations check, then write, without a transaction.
Correct: an administrator is always left; a deactivated account or changed
password ends its sessions; a ban ends; closed sessions are deleted.

**Registry, its clients and discovery** (`backend/registry`, `backend/faces/app/registry.py`,
`registrybootstrap/bootstrap.go`). State: keys bound to leases, each client's
lease and two threads, the address a resolver keeps. Heartbeats, outages,
restarts, killed processes and replacements meet. Correct: whoever runs is
listed, whoever has stopped is not, and the address follows.

**Conversations and agent** (`app/agent`, `handler/handlers_chat.go`). State:
messages with tool calls, summaries, flags. A turn asks the model, calls tools
and saves messages while an older part is summarised and other turns run.
Correct: histories a provider accepts, no message forgotten, one title.

**LLM model catalogue** (`app/llm/catalog.go`, `llm_catalog_repo.go`). State: the
rows of a provider's models, a shared refresh in flight. Correct: a poor listing
destroys no description, descriptions are of the present address, every request
is answered.

**Text recognition and AI actions** (`app/imaging/llm_ocr.go`, `handlers_llm.go`,
`tools_image.go`). State: tasks in memory that polls and a cleanup take away,
recognised texts, tags. Correct: each request gets its own outcome; what is
stored is of one answer.

**Enhancement of photos** (`handlers_enhance.go`, `tools_image.go`). State: a
temporary file, the photo, its backup, copies and rows. Correct: no decision of
a user overwrites what another was to keep.

**Listings** (`handlers_gallery.go`, `handlers_trash.go`, `handlers_geo.go`, the EXIF
service's calendar, `webapp/src/hooks`). State: the rows, cursors and page
numbers, the reader's list, requests under way. Correct: a reader at the end
has seen everything that stayed, once.

**Thumbnails** (`app/thumbnail`). State: a directory of files named after the
photo's path, a lock, a switch, the directory's setting. Correct: a settled
photo's thumbnail is of its present content, and whole.

**Photo locations** (`backend/exif`, `handlers_geo.go`, `geolocation_service.go`).
State: tags in files with backups, `image_metadata`, the cache of places of two
services. Correct: no tag is lost, rows follow files, a place is asked for once.

**Upright photos and face boxes** (`exif_orientation.go`, `framing.go`). Eight
orientations, a hand-written header reader, boxes of another frame than the
image they are drawn on. Correct: the box has the face's pixels.

**Language-model clients, retry, health checks, settings, search** run a bounded
loop, an adapter or a query; see [not modelled](#what-is-not-modelled-and-why).

### How they interact

```
 browser ──HTTP──> handlers ──┬─> file system <──────────────┐
                              ├─> tables <───┐               │
                              └─> managers   │               │
                                    │ goroutines             │
      ┌────────────┬──────────────┬─┴────────┬──────────────┐│
   gallery scan  sync pass     tag scan   OCR run       faces run
      │  events     │             │  hook + trigger
      └──> follow-ups: metadata,  └──> embedding of the image, backfill
           invalidation of tags, embeddings, classification
```

A scan that has finished triggers OCR; the tag scan triggers the backfill; face
recognition, the tag scan and the synchronisation have schedules of their own;
an AI task of a user pauses the tag scan; a changed file invalidates what was
derived from it; a deletion to the trash removes the row of the image that the
jobs hold by its id. Thumbnails and locations are invalidated or read anew by
the same follow-ups; a replacement by an enhanced photo invalidates like a change
of the file. Requests of the web application page through rows that all of them
change. The services find one another through the registry's resolver.

## Modules

| Module | Models | Uses |
|---|---|---|
| `TrashBin` | the handlers that delete, list, restore, clean and move files, with paths and the names they append to | |
| `BackgroundManager` | the start/stop record of every background job | |
| `SingleWorker` | abstract specification: what a background manager promises | |
| `TagEmbeddings` | backfill, hooks, writers and invalidation of tags | `BackgroundManager`, refines `SingleWorker` |
| `OcrClassification` | a run of OCR with all its goroutines | `BackgroundManager`, refines `SingleWorker` |
| `Schedule` | when a window is open and when it opens next | |
| `TagScan` | schedule loop, passes, pauses, updates | `BackgroundManager`, `Schedule` |
| `GallerySync` | scans, synchronisation, follow-ups, folders | |
| `PeopleCatalog`, `FaceRecognition` | the tables of faces with the user's edits; the job, composed with the edits | each the one before, `BackgroundManager` |
| `Sessions`, `Accounts` | the sessions and their cleanup; the accounts and the limiter of logins, composed with the sessions | each the one before |
| `Registration`, `Discovery` | the registry over etcd and the clients that publish themselves; the resolver that follows, composed | each the one before |
| `Conversations` | turns of the agent on one conversation | |
| `AiTasks`, `ModelCatalog`, `Enhancements` | tasks of language models; the catalogue of models; decisions on an enhanced photo | |
| `Listings`, `Browsing` | pages and cursors as operators; a reader who scrolls while the library changes | `Listings` |
| `Thumbnails`, `PhotoLocations`, `PhotoFrames` | the cache of thumbnails; positions and places; orientation and face boxes | |
| `MC...` | scenarios, histories and properties for TLC | the module of that name; `MCPhotos` and `MCLanguageModels` put parts beside one another as scenes |
| `...Proofs` | theorems and their proofs | the module of that name |

Conventions. A step is one access to something shared: a statement, a file
operation, a channel operation, a section under a mutex, a call to another
service. What a goroutine holds between two steps is a record whose `pc` (or
`at`, `stage`) names what comes next. A definition preceded by "mutant:" or "A
plausible error" is a bug that a run must notice. `PROJECT.json` lists one for
each property; where a property is a conjunction of several promises the modules
hold one more for each of the others, to be put in the place of the definition it
stands by (see [runs](#runs)). A bound is a constant named `Max...`, or is
commented "bound:". A scenario or scene restricts `Next`, never the handlers.

The scenarios of the trash (`TrashScenarios`), accounts, tag embeddings, the tag scan, OCR and
the gallery (`Scenarios`) are a constant, so what is proved of them holds of any set of scenarios, not only of those TLC runs.
`ScenariosOK` says what one may consist of: values of the right types; no crash
together with changes of accounts, because a crash between a change and the
revocation that follows it leaves the sessions open (`service.go:296`); no guessing
beside serial requests; as many runs of OCR as a scenario starts, and one where it
may stop one; no change of files where gallery folders come and go, because the scan
of an added folder does not look whether the files of the rows it finds are there
(`scan_manager.go:268`), and neither that nor a restart where passes follow one another.

## How the modules follow the code

### Trash and file operations

`TrashBin` has the file system (`disk`: path to content), `image_files`
(`images`: path to recorded hash), `trash_items` (`items`) and the locals of
each request (`req`). File names keep what the program does to them: a name is
a stem and the tags appended to it, time stamps in whole seconds and counters,
so that collisions of names are those of the code. A clock that may advance
between any two steps gives the time stamps.

| Code | Actions |
|---|---|
| `handleDeleteFiles`, `MoveToTrashOrDelete`, `moveToTrash`, `DeleteFromDB` (`fileops.go:33-278`) | `DeleteFiles`, then for each file the steps of `DeleteStep` |
| `handleBatchDelete` (`handlers_duplicates.go:197-266`) | `BatchDelete`, which computes the groups of duplicates, then the same steps |
| `handleGetTrash`, `reconcileTrash` (`handlers_trash.go:109-328`) | `ListStep`: read the directory, then the rows; add rows for files without row, drop rows without file |
| `handleRestoreTrashFile`, `RestoreFile` | `RestoreStep` |
| `handleDeleteTrashFile`, `handleCleanTrash` | `PurgeStep` |
| `BatchMoveFiles` | `MoveStep` |
| the administrator, the clock, a restart | `SetTrashDir`, `Tick`, `Crash` |

`TryDestination` is one `os.Stat` of the search for a free name, of the loop in
`BatchMoveFiles` (`fileops.go:137-146`). A refused file operation (`Refusal`) takes the
handler's error path, on which a file that cannot be removed keeps its row
(`fileops.go:42`); a crash drops every `req` and keeps the three stores. A deletion names the
trash folder of the settings or none, as the web application does
(`webapp/src/components/modals/DeleteFilesModal.tsx`, `BatchDeduplicationModal.tsx`); a client
that names another is not modelled, and its files would not show in any listing.

### Tag embeddings

`tags` has, for each image, which of the numbered lists of tags it has rows of;
`rows` has the parent rows with the text their vector was made from, so a stale,
missing or second vector can be told. `upsert` holds the locals of
`upsertEmbedding` in each goroutine that runs it: look up the parent, insert or
find it, insert or update the vector, each a step. `Work(w)` are the steps of a
backfill (`EmbeddingBackfillManager.run`), `Hook(h)` those of `GenerateAndSaveEmbedding`,
`Write(x)` those of the three writers of tags and of the invalidation. `InsertFails` is
the insertion of new tags that fails after the old ones were deleted, after which
the code embeds all the same (`llm_ocr.go:505-509`).

### OCR classification

`run` is the launcher (`processUnclassified`, `launchWorkers`), `worker` the
goroutine of each image, `channel` the results channel with its queue and
whether it is closed, `closer` the goroutine in `wg.Wait`, `consumer`
`consumeResults`. The wait group is the number of workers added and not done
(`Waited`), the semaphore that of slots taken (`InFlight`). A send on a full
channel waits; a send on a closed one panics and is recovered, as the code's
`defer` does; `Add` on a wait group whose waiter has been woken and has not
returned makes the waiter panic (`closer = "panicked"`), as Go's does. A content
is a version, and `outdated` is what the incremental query compares. `SaveNext`
replaces a row: `Assign(struct).FirstOrCreate` (`ocr.go:71-73`) leaves columns whose new
value is zero, but what a row is compared by here, the content it was made from, never is.

### Tag scan and schedules

`Schedule` has a week of days of `DayLength` minutes; `IsWindowOpenAt` and
`NextWindowOpenAt` are translated with their treatment of windows over midnight
and of equal start and end. `TagScan`'s `loop` goes through `scheduleLoop`
(read the schedule, plan, block in one of its three selects) and `scanWindow`
(count, check for stop, pause and window, find an image after the cursor, call
the model, insert the tags, record an error). `depth`, `resumeCh` and `caller`
are the pauses: the depth is changed under a mutex and the token is sent after
it is let go, so a token may come late. `SetSchedule` and `Notify` are the two
halves of `UpdateSchedule`: the notification is lost unless the loop is in a
select that listens.

### The index of the gallery

`disk` gives each file a content and a stamp (size and modification time). A
change of the content always changes the stamp: a file rewritten within one
second at the same size is outside the model, as it is outside what the code
can see. `rows` is `image_files`; `derived` stands for everything made from a
photo by the tag scan, OCR and the embeddings, `metadata` for what exiftool
read.

| Code | Actions |
|---|---|
| `ScanManager.Start...`, `scanDirectory`, `fastScanGalleryDirectory` | `StartScan` ... `FinishScan`; `fast` selects the path |
| `cleanupMissingFiles`, purge of a fast scan | `CleanupPage`, `CleanupRow`, `PurgeMissing` |
| `flushBatch` | `CreateBatch`, `ReadOldHashes`, `SaveBatch`, `EmitEvent` |
| `OnFileProcessed` and the `...Async` methods | `JobExtracts`, `JobStores`, `JobInvalidates` in `Slots` |
| `BackgroundSyncManager` | `StartSync`, `SyncWalk` ... `SyncEnds`, `StopSync` |
| any job that derives | `Take`, `Read`, `SaveDerived` |
| `handleRemoveFolder`, `handleAddFolder`, the process | `RemoveFolder`, `AddFolder`, `Restart` |

`Create` is one INSERT, which the unique index on `path` accepts or refuses as a
whole; `Save` writes back every column as it was read earlier, inserting a row
that has been deleted since, as GORM's `Save` does.

### Faces and people

`faces`, `people` and `references` are the three tables; `shows` says which
detection in a photo a face was made from. Embeddings are looks: `Similarity`
gives the similarity of two detections, and the thresholds of the service
(`RecognitionFloor`, `AssignFloor`, `MergeFloor`, ...) are constants. `job[w]` holds what
a pass has read: `runPass` is `BeginPass` to `Leave`, with `Dispatch`, `Apply` and
`MarkScanned` for the batches, `Snapshot` to `FillPerson` for `clusterAssign`,
`Reconcile` to `MarkReconciled` for `reconcilePeople`, `ReadCovers`, `WriteCovers` and
`Tidy...` for the rest; `Reset...` and `Detach` are the re-clusterings. A request of a
user is its reads (`Ask...`) and its transaction (`Rename`, `Merge`, `CreateFromFaces`,
`Disband`, `AssignFace`). `Fault` takes the error path of a call, `replaceFaces`' included,
whose photo is marked as scanned all the same (`manager.go:567`); `Relaunch` loses
the job, with a new release or the instruction to cluster anew. `used.cut` remembers who
was merged away by a process that died between the two deletes.

### Accounts

`request[r]` holds what a handler has read; `Login`, `LoginFails`, `LoginSucceeds`,
`RegisterUser` ... `Signs`, `BootstrapSetup`, `ChangePassword`, `AskUpdate`/`Update`,
`AskDelete`/`DeleteUser` and `RevokeAllUserSessions` are the steps between which
others run. A session is remembered to be `"since"` stale when its account
changed after it began, and `"born"` stale when its login had read the account
before the change. The cleanup job is its ticker loops and its stop channels.

### Registry

Time is counted in thirds of a lease, the heartbeat's interval. A process has a
main thread and a supervisor; a call is answered by the registry and taken by
the client in two steps. `RegistryDown`/`RegistryUp` restart it (which renews all
leases, as etcd does), `Fails` is a time-out. The core has no signal handler and just
ends (`Exits`). A resolver watches, reads again at every event and
periodically; events on their way are lost with the stream.

### Conversations

`messages` is the table, in the order of `created_at`; a summary's time is put just
before the first message kept. `phase`, `request`, `todo` are a turn's; the
summarisation, the one-line summary (`gen`) and the deletion are its further
steps. A call's id is its own, or, where `numbered`, its number in the reply, as Ollama's client
counts them (`call_0`, `call_1`, ...); `Sanitize` compares ids. A message may fail to be saved, which
the agent only logs. `SafeSplit` translates `findSafeSummarizeSplit`, `Sanitize` the last repair
before the model is asked.

### Language models

`AiTasks` keeps the two maps of tasks, the goroutines (`job`), the polls, the
rows of texts and tags. `PostProcessTags` is translated with its checks over words
in a few forms, by a recursive function. `ModelCatalog` has `getForProvider`, `singleFlight` and
`MergeProviderCatalog` as the steps of requests beside `MoveProvider` and
`DeleteProvider`. `Enhancements` has the tool and the three decisions of the lightbox
with the file operations one by one; `UpdateFails` is a replacement whose row cannot be
looked up or hashed after its file was replaced.

### What serves photos

`Listings` computes one page: `FirstOf`, `RestOfCalendarDay`, `RestOfTrashDay`,
`NextCursor`, `PageOf`, with the cursor's time cut to the second as `EncodeCursor`
does. `Browsing` has a reader with the hooks' state (`shown`, `cursor`, `more`,
`loading`, a generation that makes answers stale), requests and answers as
messages, and a library that changes meanwhile; jumps and the clusters of the
map included. `Thumbnails` has `GetOrGenerate` with its two looks and its lock, the
invalidations of synchronisation, scans and replacements, and the moves of the
directory. Writing may fail with a torn file left (`SetFails`, `WriteFails`), removing with the
old one (`InvalidateFails`), and a move may leave a thumbnail where it is, tear its copy, or keep
both (`LeaveThumb`), and switch the directory nevertheless. `PhotoLocations` has the three attempts of `WriteGPS` with the backup,
requests and batches, extraction, and `ResolveGeolocation` of both services.
`PhotoFrames` reads headers as segments and entries, turns thumbnails with the
library's operations, and maps boxes as `NormalizeBox` does; the standard's table of
orientations is its reference.

## Runs

Every passing run explores several scenarios at once: a behaviour picks one when
it begins, and a property that only some of them justify is checked in those.
Deadlock is not checked where the system comes to rest: requests are answered,
runs end, bounds are used up. That nothing is stuck half-way is what the
liveness properties say. Each run takes less than three minutes on two cores.

| Run | States | What it shows |
|---|---|---|
| `embeddings` | 549k | one current vector per image when operations do not overlap, none missing when they do, a single worker until a stop, every backfill ends |
| `ocr` | 246k | workers as many as the run was given, nothing lost when the channel is closed late, runs end, changed files are found |
| `ocr_lost` | violation | the channel is closed early and results are lost, yet the run reports completion |
| `ocr_tuned` | violation | fewer workers are set, and the run under way launches as many as before |
| `tag_scan` | 240k | tasks hold the scanner and let it go, windows are used, passes end, updates are seen, a stop stops |
| `gallery` | 647k | the index equals the disk after an undisturbed pass, images keep their ids, unchanged files are current, derived data is fresh after serial use, passes end |
| `faces` | 1.8M | no face or exemplar of a stranger, also amidst a pass and after two crashes, curation kept, one person per look, all looks get people |
| `accounts` | 343k | stale sessions end, an administrator remains, bans end, closed sessions go |
| `registry` | 181k | the list follows the services, the resolver follows the list |
| `assistant` | 4.9M | sound histories, nothing forgotten, one title |
| `language_models` | 420k | own answers, sound texts and tags, a catalogue that keeps descriptions, choices on enhanced photos kept, every request ends |
| `photos` | 2.2M | no photo overwritten or lost; tables and folders agree, trashed files can be restored, deduplication keeps a copy, a listing repairs; listings show all once, thumbnails current and whole, tags and places kept, faces framed |

Several properties join promises that one run asks about. Besides the listed
mutant, these make the other conjuncts fail (definition, replaced by):
`SafeStoresAgree`: `DeleteFromDB` by `KeepRow`, `CreateItem` by `CreateBareItem`,
`Doomed` by `AllOfPattern`. `EmbeddingsAreSound`: `LookedUp` by `NeverLookedUp`,
`Vectored` by `KeptVector`. `BackfillsEndWhole`: `CursorAfter` by `SkipToLast`.
`RunsWithinCapacity`: `MoreImages` by `Always`. `NothingIsLost`: `Touched` by
`KeepsTime`. `PausesHold`: `Deeper` by `Raised`. `WindowsAreUsed`: `AfterCursor` by
`FromCursor`, `Approached` by `Overdue`. `LoopGoesOn`: `NoMore` by `Again`, `Heard`
by `HeardNothing`, `MayStop` by `Deaf`. `SerialTablesAreSound`: `Page` by
`PageTooLate`, `SyncCreates` by `SyncOnlyCreates`, `DeleteCascade` by
`LeavingMetadata`.
`SerialCatalogueIsSound`: `AppendFace` by `AppendAny`. `StaleSessionsEnd`: `CreateUser` by `CreateAnyway`.
`BansAndSessionsEnd`, whose two conjuncts have a listed mutant each: `ToDelete` by `PastTheirEnd`. `ListFollowsServices`:
`LeasesAge` by `LeasesAgeAlone`. `HistoriesAreSound`: `Sanitize` by
`SanitizesUnanswering`. `NothingIsForgotten`: `GenerateDisplaySummary` by
`GenerateAnyway`. `AnswersAreSound`: `Upsert` by `UpsertAllColumns`.
`ListingsShowAllOnce`: `TakePage` by `TakeWholePage`. `ThumbnailsAreCurrent`: `Set` by
`SetUnlocked`. `LocationsAreKept`: `Backup` by `BackupSkipped`, `LockGeocoder` by
`LockBlindly`.

## Scenarios and bounds

`photos`, *files* (`Every`, in its order). One request: two photos of one name in two folders,
batches of two, six calls, one tick of the clock: enough to delete both in one second
or in two, restore, move onto one another and delete again. One request that may fail:
one refused operation and one restart anywhere in four calls. Two requests: any
two of the endpoints at once over photos of different names. Two deletions:
deletions, listings, purges and a change of the trash folder. Deduplication:
one photo twice and another, with restores and a change of the folder. The
actions of a request meet others' at single accesses to a store, so two
requests and two photos give all pairs of accesses; a third request adds none
that a pair does not have. What a property needs of a scenario is said by what the
scenario is (`OneByOne`, `Faultless`, `NamesTell`, `PairsAtMost`, `Complete`), not by its
name, and TLAPS proves the properties of any scenario that has it. `PairsAtMost` is needed
where names do not tell photos apart: of three photos of one name trashed within a
second, the last two are stamped alike, and the third replaces the second under a row
that keeps the second's hash (`fileops.go:250`).

`embeddings`. *serial*, *serial with failures*, *overlapping without files
changing*, *overlapping with failures and stops*; two images, two workers, a
writer, a hook, pages of one and two rows. One image would never show a page
boundary; two workers are what a wrong second start needs. `TypeOK` is left to its
theorem, which holds of all scenarios.

`ocr`. *Stopped*: five images and one worker, more than the channel holds, so
that workers block on it, with a stop at any moment. *Failing*: OCR, query and save may fail
while the setting for workers changes among 0 (automatic), 1 and 3 (more than
the two processors), also during a run. *Successive*: a second run beside workers the first
left. *Changing*: incremental runs between changes. Batches of two for one, two
and five images give full, exact and partial batches.

`tag_scan`. Days of four minutes, the week of seven days: *Calendar* lets the
clock go through the week with a window at noon on some days and one of a whole
day; *Tuning* sets the schedule anew and shuts down; *Working* has two AI tasks;
*Browsing* adds a user who pauses and resumes; *Changing* has tags invalidated.
Two images let a pass have a first and a next one. A step between two readings of the clock
takes less than a minute, an assumption `MCNext` states.

`gallery`. *Serially*: two files, one change, one pass after the other, full,
fast or synchronising, while something is derived in between. *Outages*: two
changes and an extraction that fails. *Overlapping*: a scan and a synchronisation
over two files that stay, with a stop. *Editing*: the two over a file that
changes. *Restarting*: a restart between any two steps. *Moving*: the folder is
removed and added. Pages have one row, so every row is a page boundary. Ids are
bounded by `IdsLeft`: a pass begins only while there are ids for all it may
insert. In *Overlapping* and *Editing* the follow-ups take no time ("prompt"),
which keeps the state space small; the properties checked there are about rows.
`TypeOK` is left to its theorem here, which holds of all scenarios.

`faces`. Three photos with six detections: two people at full size with somebody
weak behind them, and one small who resembles the first, so that floors,
ambiguity and merging all matter; batches of two. *Untouched*: the job alone,
stopped and with photos that change, in both ways of looking for neighbours.
*Managed*: a user's two requests between passes. *Renewed*: a new release or a
re-clustering with a user before and after. *Troubled*: failing service and a
crash. *Fragmented*: the tables an older release left. *Interrupted*: such tables, changing
photos and up to two crashes (`MaxRestarts`) at any statement, so that one may fall into
the re-clustering that the other has made due; a re-clustering may also be due from the start.
*Raced*: a user during a pass, for types only. Users who act between passes take turns, and a loop starts
when none is at work: what two do beside each other, one of them stopped but still
in its pass, is left out. `ExemplarLimit` of two is less than the faces of a person.

`accounts`. Three accounts from the bootstrap on, five requests, three sessions.
*Serial* and *Approval*: one at a time, in the three registration modes. *Raced*: two handlers
at once. *Guesses*: attempts without end against a limit of two. *Cleaned*: the
cleanup job started twice, stopped and killed.

`registry`. An exif service and its replacement under one id, a core, a faces
service, in five scenes that differ in who starts, whether a resolver looks on,
and how many of two troubles (outages, time-outs, restarts) are left. Leases
last three heartbeats, so that two failures and the loss of a lease fall apart.

`assistant`. Three messages and two turns of up to two rounds with up to two
calls; a threshold of two and two recent messages kept, so a summary falls
into every place; *waits* (a user who waits for each answer) and *overlaps*
(with one mishap, a crash or a message that is not saved), each with ids of either kind.

`language_models`. *Tasks*: three requests on one photo about texts, or two about
tags and other actions, over four lists of tags (good, short, repeating, made
up), an ageing and a restart. *Catalogue*: two models, three requests one by one
with a move of the provider, or two together. *Enhancements*: two windows, three
images, a crash.

`photos`. *Browsing*: up to four photos at four times of two days, pages of two,
one change of the library and one of the view: every page boundary, split day
and overflow falls somewhere. *Thumbnails*: one photo with two contents, two
goroutines, two directories, two upsets (a restart, a
switch, a move, a failure of writing, removing or taking along). *Locations*: two
photos of one base name, two places, two goroutines, two claims; a batch that gives up on a photo
goes on with another goroutine. *Frames*: all
sizes up to three by three in all ten values of the tag, and headers the reader
stumbles over. Each is a scene of its own since the parts share nothing else. Requests and goroutines
of different scenes are the same two values, told apart by nothing, so that one symmetry serves all. That
nobody's values (`Free`, `Mover`, `Unlocked`) are no goroutine's and the default
directory is one of `Dirs` is an assumption (`PhotosAssumption`).

What a property takes for granted it says in its scenario: `WholeSeconds` and
`NumberedInOrder` of a calendar, `Patient` of an administrator, `Serial` and
`OneBackupPerSecond` of writes of a position, `Losses` and `Overlap` (both FALSE) of the
registry, `met` of decisions. What happens without is told
[below](#where-the-code-departs-from-its-promises).

## Fairness

Goroutines get scheduled and calls return, because HTTP clients time out
(exiftool 30 s, OCR 180 s, faces 5 to 10 minutes, LLM clients by configuration): weak
fairness for each goroutine, with the failing outcome of a call among the
steps that may be taken. The stop of the tag scan needs strong fairness: Go's
select chooses at random among the ready cases, so a stop that is ready at each
of its selects is chosen at some time; so does the end of a stopped cleanup loop, which selects
between its closed channel and ticks an hour apart. The passing of time that ends a ban is
strongly fair, for it goes on whoever tries meanwhile. Leases and heartbeats share
one `Tick`, so that neither outruns the other. The web application polls every
two seconds. Users, files, outages and new requests are never obliged to act.
`RunsEnd` is stated for runs whose closer does not panic; one that does hangs
the run (see below).

## Proofs

TLAPS proves the following for every value of the constants; nothing is assumed
but the assumptions on constants that the modules state and TLC evaluates.

| Theorem | Statement |
|---|---|
| `TrashBinProofs!TypeCorrect` | `Spec => []TrashTypeOK` |
| `TrashBinProofs!NothingOverwritten` | if no two photos share a base name, `Spec => []NoContentLost`, for any number of requests, refused operations and restarts |
| `TrashBinProofs!StoresAgree` | `TrashSpec => []SafeStoresAgree`: while nothing fails, serial requests, and deletions that overlap, keep the gallery table equal to the files outside the trash; serial ones leave every trashed file restorable, and serial deduplication spares a copy of every photo; hashes in the trash are those of the files, whatever overlaps, fails or restarts, if names tell photos apart |
| `TrashBinProofs!ListingsRepair` | `TrashSpec => RepairingListing`: after whatever failures and restarts, a listing that nothing overlaps ends with one row per file in the trash |
| `TagEmbeddingsProofs!TypeCorrect` | `Spec => []TypeOK` |
| `TagEmbeddingsProofs!StatusIsRight` | `Spec => []RunningTellsTruth`: until a stop the flag is up exactly while there is a worker |
| `TagEmbeddingsProofs!ImplementsSingleWorker` | up to the first stop, a step of the backfill is one of `SingleWorker` or a stutter |
| `TagEmbeddingsProofs!EmbeddingsStaySound` | `MCSpec => []EmbeddingsAreSound`: where operations do not overlap, an image has one vector at most and, if the service answers, that of its tags; if it answers and no file changes, every tagged image ends with one, whatever overlaps |
| `GallerySyncProofs!TypeCorrect` | `Spec => []TypeOK` |
| `GallerySyncProofs!UnchangedIsCurrent` | `Spec => []UnchangedFilesAreCurrent` |
| `GallerySyncProofs!ImagesKept` | `MCSpec => ImagesAreKept`: while no other pass interferes, no step of one deletes the image of a file that is there, or gives it another id |
| `GallerySyncProofs!SerialTablesSound` | `MCSpec => []SerialTablesAreSound`: an undisturbed pass ends with the index as the disk is, for every file that stayed as it was; where one use follows the other, what was derived and extracted is of the contents and images there are |
| `PhotosProofs!FacesFramed` | `FramesSpec => []FacesAreFramed` |
| `PhotosProofs!ThumbnailsKept` | `PhotosSpec => []ThumbnailsAreCurrent`: a settled photo's thumbnail shows the photo as it is, and a reader gets a whole one unless it was removed under him; excepted, until its thumbnails are gone, is a photo whose thumbnail the code leaves behind (`Missed`): torn, not removed, not taken along or not invalidated. The failure of one photo's thumbnail spoils no other's |
| `PhotosProofs!LocationsKept` | `PhotosSpec => []LocationsAreKept`: with one write and one extraction per photo at a time, a photo's tags are in its file or a backup, a photo core knows refers to the place its file names, and no service asks for a place twice |
| `PhotosProofs!PeopleStayThere` | `MCSpec => []SerialPeopleAreThere` of `MCFaceRecognition`: unless a user edits the catalogue during a pass, no face is ever somebody's who is not there, amidst a pass or after any number of crashes; once all loops rest nobody who is gone has exemplars. Excepted is who was merged away by a process that died between the two deletes (`used.cut`) |
| `PhotosProofs!SerialCurationKept` | `MCSpec => SerialCurationIsKept` of `MCFaceRecognition`: users who wait for a pass to end, and photos analysed or clustered anew, merges of an older generation and restarts, keep who was made, named or merged, and the faces that were assigned to them or detached |
| `OcrClassificationProofs!RunsKeepWithinCapacity` | `Spec => []RunsWithinCapacity`: types, and no run has more requests at the service than the workers it was given when it began, nor than processors, nor, while nobody sets the number anew, than are set |
| `OcrClassificationProofs!NothingGetsLost` | `MCSpec => []NothingIsLost`: with services that answer, a run whose channel is not closed early leaves no image it found without a classification; an image changed is one the next run sees |
| `OcrClassificationProofs!ImplementsSingleWorker` | `Spec => SingleUntilFruitless`: up to the first run that finds nothing to do, OCR implements `SingleWorker` |
| `TagScanProofs!PausesAreKept` | `MCSpec => []PausesHold`: tasks at work hold the scanner, unless a user resumes it, and it begins one more image at most |
| `TagScanProofs!WindowsAreKept` | `MCSpec => []WindowsAreUsed`: the loop sleeps through no opening of a regular window, and a pass takes no more images than it counted |
| `LanguageModelsProofs!AnswersSound` | `LlmSpec => []AnswersAreSound`: a photo's text has one recogniser at a time, whose outcome those who asked are told, unless it was taken from them or forgotten; a recognised text stays until another one is; tags not saved by two goroutines at once are those of one answer |
| `LanguageModelsProofs!DescriptionsAreOfTheAddress` | `LlmSpec => []OrderlyDescribesTheAddress`: requests and changes one by one, descriptions are from the provider's present address |
| `LanguageModelsProofs!DescriptionsAreKept` | `LlmSpec => OrderlyKeepsDescriptions`: in that order, a listing without descriptions takes none away |
| `LanguageModelsProofs!ChoicesKept` | `LlmSpec => []ChoicesAreKept`: decisions on an enhanced photo that do not meet are carried out, and overwrite nothing that was to be kept |
| `LanguageModelsProofs!HistoriesSound` | `TalkSpec => []HistoriesAreSound`: a user who waits has a history with every answer after its call and no call unanswered, and the model is asked nothing else, whether calls have ids of their own or Ollama's; when turns overlap, the process crashes or a message is not saved, what the model is asked has no answer to a call with an id of its own without that call |
| `LanguageModelsProofs!NothingForgotten` | `TalkSpec => NothingIsForgotten`: no step but a deletion forgets a message, and the one-line summary is written once |
| `AccountsProofs!StaleSessionsAreEnded` | `MCSpec => []StaleSessionsEnd`: an open session older than its account's new password or deactivation is about to be revoked; one request after the other, none is opened from what is old |
| `AccountsProofs!AnAdministratorRemains` | `MCSpec => []SerialAdminRemains`: one request after the other, and no account awaiting approval, some administrator who may log in remains |

*NothingOverwritten.* `NoContentLost` alone is not inductive: a request that has
chosen a destination and not yet renamed could overwrite anything. The
invariant `StemsKept` adds that each path, on disk, in a trash row, or held by a
request between two steps, has the stem of the one photo it came from
(`DiskStems`, `ItemStems`, `ReqStems`). Then a rename can only hit a copy of the
photo it moves. The hypothesis is needed: without it two moves of one name
into one folder overwrite one another (`fileops.go:149`).

*StoresAgree.* The four promises need different things of a scenario, so the invariant
`StoresInv` is a list of parts, each under the premise that justifies it; the scenario
never changes. For all of them paths stay on their side: tables and handlers that speak
of the gallery hold paths outside the trash, those of the trash hold paths in it
(`Placed`). Where requests do not overlap one goroutine is at work (`Alone`), and a part
says what the stores owe one another at each point of its handler: which one row the
gallery table has too many or too few (`GalleryAt`), that a file in the trash has a row with
an original path or is about to get one (`RestorableAt`), that a batch of deletions does not
hold every copy of a photo (`DedupAt`). Where deletions overlap, a row without a file is one whose
request is past its move (`Leaving`). Two arguments show that a hash in the trash is right.
If names tell photos apart, a stem belongs to one content, and whatever is renamed keeps
its stem (`Named`); this survives overlaps, failures and restarts. Otherwise, with
no more than two photos of a name, every destination a serial request chooses is free
(`Pairs`, `PairAt`), so that nothing is overwritten.

*ListingsRepair.* What a listing read stays so while it is alone (`ListAt`): the files it
has yet to back-fill are those of the directory without a row, and the rows it has yet to
prune those without a file; a row it creates has a new id, which is not among these
(`RowJoins`). At the end neither is left, and no two rows are of one file
(`RowsUnique`), so that rows and files are equally many (`RowsCount`). Nothing is asked of the
state the listing began in.

*StatusIsRight* and *ImplementsSingleWorker.* Together with the types the
property is inductive as it stands: before the first stop at most one goroutine
is not idle, and one is exactly while the flag is up (`OneAtATime`). The
lemmas reduce the many steps inside a page to one fact, that they change neither
the flag nor who is at work (`InnerKeepsBusy`). The refinement maps `active` to
the goroutines past their start and `running` to the manager's flag.

*EmbeddingsStaySound.* In a serial scenario one goroutine is at work (`Alone`, `Saving`:
a backfill upserts only while it saves a page), so that the row it looked up is still
there (`Found`), an image it found without a row still has none (`OneRow`), what it
holds was read from the tags there are (`Recent`), and a row's vector is that of its
image's tags unless a writer or a hook has this image in hand (`Matching`). Where
goroutines overlap but no file changes, rows are never deleted, so that a row once
found stays, and every tagged image has a vector or a hook that will write one
(`Reached`). `UpsertMoves` sums up what any step does to what a goroutine is
upserting.

*GallerySyncProofs.* `TypeOK` is not inductive: a verification takes the first
row of its page, and a follow-up reads its image's file, so `Typed` adds that
there is a row and a file. The ids of a batch stay within bounds because rows
are finitely many (`RowsAreFinite`, `CreateTyped`).

*UnchangedIsCurrent.* The property speaks of rows, but rows are made from
records that passes hold for a long time. The invariant says of every such
record, new, updated or stored, that its stamp was given out already and that,
if the file still has this stamp, it has the recorded content. Hashing
establishes it because the stamp was read before the content (`HashedCurrent`); a
change of the file preserves it because it gives out a new stamp
(`FilesKeepCurrent`). Both passes are then shown to store nothing but what they
hashed (`ScanOnlyHashes`, `SyncOnlyHashes`).

*ImagesKept.* Three invariants come first that hold however passes interfere: tables
and passes hold one row per file with an id in use (`Numbering`), contents of files never
come back (`FilesChange`), and where folders come and go there is a file for every
record (`FoldersCome`). Of a pass that is alone, `ScanSees` and `SyncSees` say
what it has seen of the rows and files, and what stands between it and a complete
index: rows not yet verified have greater ids than the last one verified (`Verified`,
`PageAhead`, from `PageIsNext` on pages of any size); what it loaded is what the table
has (`Loaded`); each steady file is still to be hashed, held as a record, or in the
table as it is (`Covers`). With these a purge hits no row of a file that is there, a
deleted row has no file, and a saved row has the id it had.

*SerialTablesSound.* The index follows from `Covers` and `Verified` at the end of a pass
(`SightIsCurrent`). For what hangs on the images, `Turns` says who may act in a serial
scenario, and `Fits` that of an image whose row has the content of its file, what was
derived is right or an invalidation is still to come (`ToInvalidate`: from an event, a
goroutine, or the synchronisation), and its metadata are right or an extraction is
still to come (`ToExtract`); that what is read but not stored is of its image's
content (`ReadOf`); and that ids not given out have nothing hanging on them
(`NewIdsAreFree`). When all is quiet nothing is to come, and a file that looks unchanged
has its row's content, by *UnchangedIsCurrent*.

*FacesFramed.* Nothing is recursive and there is one step, so the work is in the
lemmas: whatever the headers hold, the orientation read is 0 to 8
(`OrientationInRange`); a pixel of the file is shown where the standard's table
says (`WhereShown`), the library's operations turn it there (`Turns`,
`Upright`), and a box of pixels becomes the box of the turned pixels
(`BoxTurned`), for photos and boxes of every size.

*RunsKeepWithinCapacity.* The slots a run has taken shrink in every step but
`Launch` (`SlotsShrink`), which has looked that one is free. Before the plan no slot
is taken (`Kept`), so the number of slots that the plan chooses is never too small.

*NothingGetsLost.* A run is a launcher, its workers, the goroutine that closes the
channel, and the consumer. The invariant `LostInv` says how far each may be ahead of
the others (`Linked`: who has closed the channel, who has seen it closed); that a run
nobody stopped waits only after it launched all, and its consumer ends only after the
channel is drained (`Unstopped`); that what is under way was made from the content of
the moment (`Current`); and, its core, that every image of a run that loses nothing is
still to be launched, with a worker, in the channel, in the batch or classified
(`Complete`). A changed file is accounted for by its mark or by the follow-up that
will set it (`Fresh`). There is a lemma for each step; a run that does not act keeps
its part (`OthersKeep`).

*OCR's ImplementsSingleWorker.* As for tag embeddings, with one difference: a run
that finds nothing to do takes the flag down twice, the second time perhaps from its
successor. The refinement is stated, and proved, up to there (`PlanlessInv`,
`FlagInv`).

*PausesAreKept.* The depth of pauses is at least the number of tasks at work
(`PauseCounts`). The image begun during a pause is the one for which the loop had
looked before: once it is begun the depth is not zero, and the loop is not past
its next look (`OneMore`).

*WindowsAreKept.* Where the loop plans, the schedule it read is the present one and
its window is closed; from then on until it wakes, no minute before its timer is in
the window (`Asleep`, `NoneBefore`). `OpeningIsNext` shows this of `NextOpeningAt`
for every schedule and every moment of the week. For the count, what a pass has taken
and what is untagged ahead of its cursor are no more than its total (`Counting`).

*StaleSessionsAreEnded.* Of every open session that is stale the invariant says which
kind of request is under way to revoke it (`Owed`). In a serial scenario one handler
at a time has a request, what it has read is still so, and open sessions belong to
accounts there are (`OneAtATime`); where nobody asks, nothing changes (`NoChanges`).

*AnAdministratorRemains.* A request that may take an administrator's place, by
deletion, role or deactivation, has counted another one (`AdminsSafe`,
`AnotherCounted`), who is still there at the write because no other request comes
between. The hypothesis is needed: two such requests can each count the other's
administrator.

*AnswersSound.* A request is told what it reads in a map of tasks, which anybody may
clean; the invariant `AiInv` ties that to its goroutine. While one recognises a photo's
text it is the only one and the map says that it is at work (`OneRecogniser`), so
that whoever joins a task joins that goroutine. Of an undisturbed request that polls, the
entry in the map is "processing" while its goroutine runs, and then what it came to
(`AwaitsOwn`); of one that is done, so is the answer (`Own`). `Polled` and `Reported` say
how a poll and a goroutine may end. Tags are inserted by one goroutine after it has
deleted those there were (`TagsSound`); that an answer comes to distinct tags
(`TagsAreDistinct`) is a recursion over words of any number, shown by the least length
for which it would fail (`LeastNat`), which is first needed to know that the recursive function
exists (`TakingDefined`).

*DescriptionsAreOfTheAddress* and *DescriptionsAreKept.* When requests and changes come one
by one, only one is under way; a request asks the provider's present address, and from its
second look on it knows all the models that are stored; and unless the models of a
former address are about to be deleted, the described ones are of the present address
(`Orderly`). So a listing that does not describe a model that is known leaves it as it is
stored.

*ChoicesKept.* As long as no replacement meets another, nor a new enhancement a decision
(`Alone`), the photo that a request will replace is in the backup directory if it was copied
there (`BackupSound`), and the photo's row is behind its file only while that
request is going to update it (`PhotoRowSound`). Copies may be made at once: several
windows save one image, and under a name that one of them chose and has yet to create there
is nothing or this image (`NameSound`).

*HistoriesSound* and *NothingForgotten.* Time and id order the messages of a conversation
(`BeforeTotal`), so that the rank of a message among them makes `Chronological` a sequence in
this order (`RankGrows`, `HistoryOrdered`). For a user who waits, `InOrder` says of the stored
messages, and `Follow` of what is being asked, that an answer stands after its call with only
answers between, and that calls not answered are the ones of the only turn at work, at the
end. A new message is later than all (`NewIsLast`) and keeps both; a summary takes
a beginning of the history that ends at no call whose answer stays (`SplitIsSafe`,
`SummaryWaiting`). When turns overlap nothing of the stored order is left to rely on: `Asking`
holds since what is read goes through `Sanitize` (`SanitizedIsSound`) and calls are added to
a request before their answers; it says that no answer strays from a call with an id of its own
(`NoStrayOf`), for ids are all that `Sanitize` looks at. Where turns wait, calls and answers
stand together whatever their ids are. The types need more than types: a message is counted by the
one turn that added it (`Counted`), so that the count stays within the messages created; a
summary stands before the first message it keeps, so its time has no lower bound once
summaries are summarised again; and one goroutine at most is between the two looks at
the flag and the writing of the one-line summary (`OneLine`).

*ThumbnailsKept.* A number per photo's content orders them, so that "current" becomes
"not older than the row": a thumbnail nobody is going to remove has a content of the
row's or later, and so has one in the making (`Fresh`, `Removing`). For a settled photo
row, file and last content are equal, and no thumbnail is later than that (`Contents`). A
row that is deleted and made again would break this, so a photo without a row has no
thumbnail or one about to be removed (`Gone`). For the move of the cache, thumbnails
elsewhere than in its directory are those a move has taken there (`InPlace`). A half-written
file is its writer's, who has the lock (`Whole`, `LockedStep`), so that a reader who
found the path under the lock gets a whole file (`ReadsWhole`). The parts are asked for photos
that are not `excused`: each failure of writing, removing or taking along is of one photo, puts
it among those, and changes no other's thumbnails. They hold again as soon as all thumbnails of
a photo are gone (`ClearedStep`).

*LocationsKept.* A photo's tags leave its file only in `WriteGPS`, after the backup of that
second was made from a file that had them (`TagsHeld`, `BackupHeld`), and two photos of one
name do not make a backup in one second (`OneBackupPerSecond`). The one who writes a
photo's place and has yet to save it carries the place the file has (`WrittenPlace`,
`ReadPlace`), and what the geocoder gave him is the row of that place (`Geo`), so that
saving it makes the row right (`PlaceKnown`). A place asked for is in the cache, and one
being asked for is not, and has its service's lock (`OnceAsked`).

*SerialCurationKept.* Steps of the job are reduced to five effects on the rows
(`Effects`, `AdvancesHaveEffects`): it leaves them, assigns faces, deletes or updates people,
creates one, or replaces the faces of a photo; each keeps what was curated
(`EffectsCurate`). Two of them do so only because of what the loop has read earlier: the
faces that it is about to assign were nobody's and not detached by the user, and still are,
for he waits and no second loop is at work (`Held`, `OneLoop`); and who is about to be merged
away was generated when the round began, and is, for no other merge of the round touched
this person (`Apart`: a best partner is one, and the partner's too, `MergesAreApart`). What a
user asks for in one step is written in the next, when all loops rest; he may hence do
anything to the rows but leave them without their columns (`UserOnRows`).

*PeopleStayThere.* Nobody is deleted who has a face or exemplars, for what a step is about
to delete the steps before it have emptied (`Deserted`: `resetPeople` comes after
`resetReferences`, and both after `reset`; `tidyPeople` after `tidy`, `mergePerson` after
`mergeFaces`), and nobody is given any who is not there (`Addressed`: who stands out has
exemplars, since without them nobody reaches the floor, `OnlyTheKnownStandOut`, and had
them when the pass looked). Both hold because nobody else deletes or assigns meanwhile
(`OneLoop`, and users wait). Exemplars of who is gone are there only between two steps of a merge,
or of whom a crash cut off there: they are of who stands in the table or in `used.cut` (`Standing`,
`OwnersAreThere`), and `used.cut` is empty unless a process may die (`CutByCrashes`). A crash takes
nothing else that the invariant needs, for a loop that starts anew reads before it writes. A request names
people who are still there when it is written, since users take turns (`Fits`, `WritesFit`).

Model-checked only: liveness (TLAPS does not reason about fairness or `ENABLED`
here), that covers are people's own and one look is one person (`SerialCatalogueIsSound`), the registry and
listings. Of the language models,
that requests end.

## Where the code departs from its promises

The runs `ocr_lost` and `ocr_tuned` find a stated promise broken, and `PROJECT.json` quotes
it. Modelling showed the following as well. They have no runs of their own: most are
what a scenario excludes from a property, and appear as a counterexample when it
does not.

Trash. `BatchMoveFiles` checks the destination and renames later, so two requests
overwrite one file with the other (`fileops.go:137-149`), against
`openspec/specs/file-move/spec.md:21`, "SHALL preserve both files by suffixing";
`NoContentLost` fails over same-named photos and two requests. A restore whose
original path is taken puts the file into the server's working directory
(`fileops.go:320`, against `openspec/specs/trash/spec.md:104`). Two deletions of one
name within a second overwrite the first (`:250`). A listing during a deletion
records the file twice (`handlers_trash.go:312`). A change of the trash folder
strands what the old one holds (`:324`). A restore during a deletion loses the row
of the restored photo (`fileops.go:47`). Two deduplications with different folders
can delete both copies (`handlers_duplicates.go:245`).

Embeddings. A start right after a stop runs a second backfill beside the first
(`background/manager.go:38`, which "prevents double-start", line 2); `SingleBackfill`
fails. The hook of a tagged image and the backfill triggered with it both insert
a parent row (`embedding_backfill.go:218`, against `embedding_tables.go:69`, "one
embedding per image per model"); `OneEmbeddingPerImage` fails where they overlap. A
vector of tags that were replaced meanwhile is saved and never replaced
(`embedding_backfill.go:316`).

OCR. `SetMaxWorkers` does not "take[s] effect immediately for ongoing
classification" (`ocr_manager.go:101-102`): a run keeps the semaphore it made (`ocr_tuned`). The
channel may be closed before all workers are launched (`ocr_lost`). A wait group that is added to while
its waiter returns panics and the run never ends. An empty run calls
`MarkStopped` twice (`:171`) and can take the flag from its successor. Workers
left by a stop block for ever on a full channel. A stop between `TryStart` and
the reset of the flag is lost (`:56`). A file that changes during a run keeps
the old classification.

Tag scan. With the default schedule the window is open on Monday from midnight
to 7:00, but a loop that fell asleep at the weekend sleeps until Monday 22:00
(`schedule.go:151`, against line 136); `NoWindowMissed` fails for `Nights`. An update
of the schedule between reading it and blocking is not noticed until something
else wakes the loop (`tag_scan.go:116`, against "restarts the loop", line 104). A
user's resume also ends the protection of an AI task. Disabling the schedule
does not end a running pass. A stop during a pause leaves the goroutine blocked.
Photos answered with no tags are sent again every 30 seconds (`:446`). A late
answer of the scanner overwrites the tags an AI task saved (`:444`).

Gallery. A job that read a file before it changed saves its result after the
invalidation, and nothing replaces it (`background_sync.go:556`); `DerivedIsFresh`
fails beside a running scan. A fast scan deletes rows that a synchronisation
indexed after the scan loaded its own (`scanner.go:424-425`). A batch whose INSERT
the index refuses is lost as a whole and reported with id 0 (`:120-124`). Two
extractions of one file may store in the wrong order. A restart between the
saving of a row and its follow-ups leaves metadata and derived data stale for
good (`app.go:83`). The removal of a folder leaves orphans
(`image_file_repo.go:50`, against `scanner.go:627`), and a running scan inserts its
rows again. A scan's `Save` resets `faces_scan_version`, the synchronisation's
keeps it. The synchronisation ignores `Enabled`.

Faces. A re-clustering and the merging of people take faces along that a user
assigned to a generated person (`faces/manager.go:989`, `reconcile.go:578`, against
`domain/faces.go:54`, "The recognition job never reassigns such a face");
`AssignmentIsKept` says so. What a user does between the job's snapshot and its
UPDATE is overridden (`reconcile.go:629`), and a disbanding then leaves faces of a
person who is gone. A crash between the two deletes of a merging (`reconcile.go:583-586`) leaves exemplars
of nobody, whom the next pass gives the faces that resemble them (`manager.go:995-997`), one between a person's creation and their exemplars somebody who is
not recognised. A pass stopped midway leaves stale covers; so does a merging
whose cover's photo is analysed anew. When the service's thresholds are not to be
had, known people are minted again. `appendFaceExemplar` cuts off the new exemplar
at the limit; `replaceFaces` deletes manual faces; a photo that changes while it is
analysed is marked as scanned; a quick stop and start runs two loops.

Accounts. `countAdmins` counts pending accounts that were made administrators, so
the last one who can log in may go (`user_service.go:374-379`, against line 237 and
`openspec/specs/account-registration/spec.md:59`); two administrators racing can
leave none. A login that read the old hash opens a session after the revocation
(`service.go:296`), a crash between password and revocation leaves the sessions, a
deleted account's are refused and not revoked. Approvals and rejections race;
`ApproveUser` accepts only pending accounts, where spec.md:282 wants rejected ones
approved again. A quick stop and start of the cleanup job leaves a loop that
cannot be stopped (`session_cleanup.go:56`).

Registry. A lost answer to a re-registration leaves the client renewing its old
lease while the key, bound to the new one, ends: a running service is out of the
list for good (`client.go:448`, against 405-407); with `Losses` TRUE `RunningIsListed`
fails. `deregisterService` looks at the owner and deletes in two calls, so a
replacement's registration may go (`server.go:297-313`, against `client.go:275-276`);
`Overlap` FALSE excludes it. The core handles no signals, so its orderly
`app.Shutdown` (`app.go:177-210`) does not run on SIGTERM. The resolved address is
passed to `NewExifAgent` once (`providers.go:513`). The faces client keeps its count
of failures after a failed re-registration, and `retryRegister` may register after
`Deregister`.

Assistant. `token_count` never falls after a summary. A message and its count are
two statements, between which `CleanupEmptyConversations` may delete the
conversation (`conversation_service.go:136`). A crash between calls and results
leaves unanswered calls, which `Sanitize` does not repair. Ollama's client gives the calls of every
reply the same ids (`ollama_client.go:176`), and `Sanitize` compares ids alone
(`conversation_service.go:393-415`): where turns overlap with a summary, or a message is not saved,
an answer whose call is gone passes because another turn's has its id, against the
comment at 386-390; `NoStrayAnswer` fails there. Concurrent first messages
leave no title; one after a summary overwrites it (`:118`). A running turn leaves
messages of a deleted conversation. The fallback at `MaxToolRounds` is not saved.
`findSafeSummarizeSplit` finds the latest split, not the "earliest" of line 368.
`ExifAgent` never renews a stale MCP session (`exif_agent.go:168-173`).

Catalogue. What is stored is read before the refresh (`llm/catalog.go:127`): of a
model that another refresh described meanwhile, a listing of names replaces the
description by a guess (`:217`, against the comment at 204-206); the run checks
requests one after the other. The leader's cancelled context fails
all who wait; a panic leaves the flight open; a request that joins a finished one
gets its old result. A change of the address keeps `models_fetched_at`, so the empty
catalogue passes for fresh; with a new alias it does not delete the models
(`handlers_llm.go:434`); a refresh of the old address lands after the change.

AI tasks. The second poller of a failed recognition finds none and polls for
ever or gets an older text (`llm_ocr.go:256`). An empty text or a failure leaves the
former text, and a success the old error message, since GORM's `Assign` skips zero
fields. A changed photo keeps its recognised text. Two tag tasks may leave both
lists, a failure between delete and insert none (`:465`). Tasks are lost at a
restart, and with a lost answer to a poll.

Enhancements. Two replacements at once, or one after the other, overwrite the
original's backup, whose name has no stamp (`handlers_enhance.go:57`). A new
enhancement during a decision replaces the image decided on. Failed backups and
copied tags are only logged. `backupOriginalImage` (`tools_image.go:387`) is dead.

Frames. Boxes are stale between a rotation in place and the next analysis.
Orientation is read of JPEG and PNG only. Boxes are `float32`, integers here.

Listings. The calendar completes a split day by id alone, so photos whose ids do
not follow their times are lost (`handlers_gallery.go:262`, against
`design.md:66` of `openspec/changes/archive/2026-08-22-trash-gallery-parity`;
`handlers_trash.go:171-173` names the cause). Completing the last day yields a
cursor to an empty page, on which the hook's `incoming[0].date` throws. A jump in
the newest order skips the rest of its day. The gallery's order has no tie-break. A
row added between count and find ends a listing early; deletions during numbered
paging skip rows. The store of clusters is one for all users, and a cluster that
lost files is read beyond its end (`:756-770`). The EXIF service's `endDate` is
exclusive, the core's inclusive.

Thumbnails. `Invalidate` does nothing while the cache is off, so what is stale
then stays after `Enable`; `UpdateCachePath` switches the cache on again. Trash and
delete handlers invalidate nothing. A restart in a write leaves a torn file, one
between a row and its invalidation a stale one. So does a write that fails
(`storage.go:205-207`), whose torn thumbnail is served from then on, and a removal that is
refused. A move goes past a thumbnail it cannot read, write or remove (`service.go:485-502`) and
switches the directory all the same, with that one missing, torn or left in both. The setting of the directory is
saved even if the move failed.

Locations. Backups of one name within a second overwrite one another
(`gps_writer.go:236`), and an empty setting puts them beside the photos. A failed
restore leaves the file without tags. The core gives up after 30 s while the
service goes on. A GPS write changes the hash, so the next synchronisation discards
tags, embeddings and classification. A failed geocoding sets the place to NULL.
Core and EXIF service each keep Nominatim's pace alone, so both may ask at once.

## What is not modelled, and why

- Numbers and pictures: decoding and scaling, the rotation of OCR boxes,
  embeddings and clusters, scores of searches. They are floating point or image
  arithmetic; faces appear as a table of similarities.
- Services the core calls: exiftool, OCR, faces, LLM, embedding and geocoding
  services are calls that answer, fail or answer late. etcd is modelled from how
  `backend/registry` uses it.
- Text: tags, names, prompts, locales, progress messages, counters for display.
- Time zones and the parsing of weekdays: the clock is the user's wall clock.
- Transactions' isolation: one statement, or one of the few transactions, is one
  step, which PostgreSQL's default isolation gives for the statements in question.
- Of modelled components: the registry's `config/` and `secrets/` values, single EXIF
  tags and their comparison, what the agent's tools do, the serving of files,
  counting of months and days, the audit log, statistics of thumbnails, deletion
  of a photo during a task; failures of the database in the accounts, of which
  `RevokeAllUserSessions` is one whose callers ignore it (`user_service.go:267`); a
  revocation between the two look-ups of `Authenticate`, which is the same as one right after them.
- Smart search and the duplicates listing, the clients of language models with the
  heuristics of `metadata.go`, retry and health checks, start-up and settings, MCP
  adapters, pages of the web application other than its listings, tools and tests:
  queries, adapters, bounded loops or views without state that another part
  depends on. `PROJECT.json` lists them with the reason.

## What could come next

The covers of `FaceRecognition`, whose rows of an older release would have to be
assumed to name looks of the right sizes; two loops beside each other there; the owner of a key in
`Registration` and the types of `Discovery`; `Once` for the cursors of `Listings`, whose pages are recursive: what `TagsAreDistinct` does for one list would have to be done for
each of them.
