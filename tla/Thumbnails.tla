----------------------------- MODULE Thumbnails -----------------------------
(***************************************************************************)
(* The cache of thumbnails (application/thumbnail/service.go, storage.go)  *)
(* and those who keep it current: the synchronisation, the callbacks of a  *)
(* scan and the handler that replaces a photo by its enhanced version.     *)
(* Thumbnails are found by the path of their photo alone, so that whoever  *)
(* changes a photo or forgets one has to remove its thumbnail.             *)
(*                                                                         *)
(* A photo's content is a number that changes with every change of it, 0   *)
(* when there is no file, and its thumbnail is the content it was made     *)
(* from.  A task is a goroutine that wants or removes one thumbnail; the   *)
(* service's lock is `holder`.  Hashing a file and saving its row are one  *)
(* step, since GallerySync takes them apart.                               *)
(***************************************************************************)
EXTENDS Integers, FiniteSets

CONSTANTS Photos,     \* paths of photos
          Dirs,       \* directories the cache has been in or is moved to
          DefaultDir, \* DefaultCacheDir()
          Tasks,      \* goroutines at work at once
          MaxContent  \* bound on contents

NoSetting == "noDir"
NoPhoto == "noPhoto"
Free == "free"
Mover == "mover"
Absent == 0
Torn == -1      \* a file that has been created and not yet written

VARIABLES file,     \* what is in the photo's file
          last,     \* history: the last content a photo has had
          row,      \* what image_files knows of it, Absent without a row
          thumbs,   \* the cache directories: directory -> photo -> what its thumbnail shows
          cacheDir, \* cfg.CacheDir
          enabled,  \* cfg.Enabled
          setting,  \* app_settings.thumbnail_cache_path
          holder,   \* who holds the service's lock for writing
          tasks,    \* the goroutines
          pass,     \* the synchronisation under way: with or without thumbnails (thumbnailEnabled)
          move      \* the request that moves the cache, with what it has yet to move

files == <<file, last, row>>
service == <<cacheDir, enabled, setting, move>>
thumbnailVars == <<files, thumbs, service, holder, tasks, pass>>

Idle == [pc |-> "idle", kind |-> "none", photo |-> NoPhoto,
         dir |-> NoSetting, content |-> Absent]
NoMove == [pc |-> "none", to |-> NoSetting, todo |-> {}]

Has(p) == thumbs[cacheDir][p] # Absent

\* A goroutine begins, goes on to another step, or ends.
Begin(t, kind, pc, p) ==
    /\ tasks[t].pc = "idle"
    /\ tasks' = [tasks EXCEPT ![t] = [Idle EXCEPT !.pc = pc, !.kind = kind, !.photo = p]]
GoTo(t, pc) == tasks' = [tasks EXCEPT ![t].pc = pc]
End(t) == tasks' = [tasks EXCEPT ![t] = Idle]

Put(d, p, thumb) == thumbs' = [thumbs EXCEPT ![d][p] = thumb]

-----------------------------------------------------------------------------
(* GetOrGenerate *)

\* What a goroutine that is about to answer with a thumbnail answers with: the
\* file whose path it has got, or what it finds under the lock.
Answer(t) ==
    CASE tasks[t].pc = "read" -> thumbs[tasks[t].dir][tasks[t].photo]
      [] tasks[t].pc = "lock" /\ holder = Free /\ enabled -> thumbs[cacheDir][tasks[t].photo]
      [] OTHER -> Absent

Request(t, p) ==
    /\ Begin(t, "request", "get", p)
    /\ UNCHANGED <<files, thumbs, service, holder, pass>>

\* Fast path: the file's path under the read lock.
Get(t) ==
    LET p == tasks[t].photo IN
    /\ tasks[t].pc = "get" /\ holder = Free
    /\ IF ~enabled THEN End(t)
       ELSE IF Has(p) THEN tasks' = [tasks EXCEPT ![t].pc = "read", ![t].dir = cacheDir]
       ELSE GoTo(t, "lock")
    /\ UNCHANGED <<files, thumbs, service, holder, pass>>

\* The file itself without it: it may have been removed, or be in the making.
Read(t) ==
    /\ tasks[t].pc = "read"
    /\ IF Answer(t) = Absent THEN GoTo(t, "drop") ELSE End(t)
    /\ UNCHANGED <<files, thumbs, service, holder, pass>>

Drop(t) ==
    /\ tasks[t].pc = "drop" /\ holder = Free
    /\ Put(cacheDir, tasks[t].photo, Absent)
    /\ GoTo(t, "lock")
    /\ UNCHANGED <<files, service, holder, pass>>

\* Slow path: the lock, a second look, and the photo is read and resized.
Lock(t) ==
    LET p == tasks[t].photo IN
    /\ tasks[t].pc = "lock" /\ holder = Free
    /\ IF enabled /\ ~Has(p) /\ file[p] # Absent
       THEN /\ holder' = t
            /\ tasks' = [tasks EXCEPT ![t].pc = "set", ![t].content = file[p]]
       ELSE End(t) /\ UNCHANGED holder
    /\ UNCHANGED <<files, thumbs, service, pass>>

\* A plausible error: the lock is given back before the file is written.
SetUnlocked(t) ==
    /\ tasks[t].pc = "set"
    /\ Put(cacheDir, tasks[t].photo, Torn)
    /\ GoTo(t, "write")
    /\ holder' = Free
    /\ UNCHANGED <<files, service, pass>>

\* storage.Set creates the file, and then writes it.
Set(t) ==
    /\ tasks[t].pc = "set"
    /\ Put(cacheDir, tasks[t].photo, Torn)
    /\ GoTo(t, "write")
    /\ UNCHANGED <<files, service, holder, pass>>

\* The photo cannot be read or resized, or the file not be created.
SetFails(t) ==
    /\ tasks[t].pc = "set"
    /\ End(t)
    /\ holder' = Free
    /\ UNCHANGED <<files, thumbs, service, pass>>

\* The disk is full: what has been written of the file stays.
WriteFails(t) ==
    /\ tasks[t].pc = "write"
    /\ End(t)
    /\ holder' = Free
    /\ UNCHANGED <<files, thumbs, service, pass>>

Write(t) ==
    /\ tasks[t].pc = "write"
    /\ Put(cacheDir, tasks[t].photo, tasks[t].content)
    /\ End(t)
    /\ holder' = Free
    /\ UNCHANGED <<files, service, pass>>

-----------------------------------------------------------------------------
(* Invalidate, and what follows it *)

Invalidated(t) ==
    IF tasks[t].kind = "forget" THEN End(t)
    ELSE GoTo(t, IF tasks[t].kind = "sync" THEN "ensure" ELSE "get")

Invalidate(t) ==
    /\ tasks[t].pc = "invalidate" /\ holder = Free
    /\ IF enabled THEN Put(cacheDir, tasks[t].photo, Absent) ELSE UNCHANGED thumbs
    /\ Invalidated(t)
    /\ UNCHANGED <<files, service, holder, pass>>

\* The file cannot be removed; those who asked for it go on all the same.
InvalidateFails(t) ==
    /\ tasks[t].pc = "invalidate" /\ holder = Free
    /\ enabled /\ Has(tasks[t].photo)
    /\ Invalidated(t)
    /\ UNCHANGED <<files, thumbs, service, holder, pass>>

\* The synchronisation makes a thumbnail only for a photo that has none.
EnsureThumbnail(t) ==
    LET p == tasks[t].photo IN
    /\ tasks[t].pc = "ensure" /\ holder = Free
    /\ IF file[p] # Absent /\ ~(enabled /\ Has(p)) THEN GoTo(t, "get") ELSE End(t)
    /\ UNCHANGED <<files, thumbs, service, holder, pass>>

\* Requests of a user: forget one thumbnail, forget all, make some.
InvalidateOne(t, p) ==
    /\ Begin(t, "forget", "invalidate", p)
    /\ UNCHANGED <<files, thumbs, service, holder, pass>>

InvalidateAll ==
    /\ holder = Free /\ enabled
    /\ thumbs' = [thumbs EXCEPT ![cacheDir] = [p \in Photos |-> Absent]]
    /\ UNCHANGED <<files, service, holder, tasks, pass>>

Warmup(t, p) ==
    /\ Begin(t, "request", "lock", p)
    /\ UNCHANGED <<files, thumbs, service, holder, pass>>

Toggle ==
    /\ holder = Free
    /\ enabled' = ~enabled
    /\ UNCHANGED <<files, thumbs, cacheDir, setting, move, holder, tasks, pass>>

-----------------------------------------------------------------------------
(* Photos come, change and go *)

\* A new file, or a file written anew.
NewContent(p) ==
    /\ last[p] < MaxContent
    /\ last' = [last EXCEPT ![p] = last[p] + 1]
    /\ file' = [file EXCEPT ![p] = last'[p]]

Change(p) ==
    /\ NewContent(p)
    /\ UNCHANGED <<row, thumbs, service, holder, tasks, pass>>

Vanish(p) ==
    /\ file[p] # Absent
    /\ file' = [file EXCEPT ![p] = Absent]
    /\ UNCHANGED <<last, row, thumbs, service, holder, tasks, pass>>

\* Deleted or moved to the trash: the row goes, the thumbnail stays.
Discard(p) ==
    /\ file[p] # Absent
    /\ file' = [file EXCEPT ![p] = Absent]
    /\ row' = [row EXCEPT ![p] = Absent]
    /\ UNCHANGED <<last, thumbs, service, holder, tasks, pass>>

Recorded(p) == row' = [row EXCEPT ![p] = file[p]]

\* A scan has found a file that is new, changed or gone, and saved it.
ScanFinds(t, p) ==
    /\ row[p] # file[p]
    /\ Recorded(p)
    /\ Begin(t, IF file[p] = Absent THEN "forget" ELSE "request",
             IF row[p] = Absent THEN "get" ELSE "invalidate", p)
    /\ UNCHANGED <<file, last, thumbs, service, holder, pass>>

\* The synchronisation asks once, when it begins, whether there is a cache.
SyncBegins ==
    /\ pass = "none" /\ holder = Free
    /\ pass' = IF enabled THEN "with" ELSE "without"
    /\ UNCHANGED <<files, thumbs, service, holder, tasks>>

SyncBusy == \E t \in Tasks : tasks[t].kind = "sync"

\* A plausible error: a changed photo is taken for one without a thumbnail.
SyncKeeps(t, p) ==
    /\ pass # "none" /\ ~SyncBusy
    /\ file[p] # Absent
    /\ Recorded(p)
    /\ IF pass = "with" THEN Begin(t, "sync", "ensure", p) ELSE UNCHANGED tasks
    /\ UNCHANGED <<file, last, thumbs, service, holder, pass>>

SyncFinds(t, p) ==
    /\ pass # "none" /\ ~SyncBusy
    /\ file[p] # Absent
    /\ Recorded(p)
    /\ CASE pass = "without" -> UNCHANGED tasks
          [] pass = "with" /\ row[p] \in {Absent, file[p]} -> Begin(t, "sync", "ensure", p)
          [] OTHER -> Begin(t, "sync", "invalidate", p)
    /\ UNCHANGED <<file, last, thumbs, service, holder, pass>>

\* Rows without a file; here the cache is not asked for.
SyncCleans(t, p) ==
    /\ pass # "none" /\ ~SyncBusy
    /\ file[p] = Absent /\ row[p] # Absent
    /\ Recorded(p)
    /\ Begin(t, "forget", "invalidate", p)
    /\ UNCHANGED <<file, last, thumbs, service, holder, pass>>

SyncEnds ==
    /\ pass # "none" /\ ~SyncBusy
    /\ pass' = "none"
    /\ UNCHANGED <<files, thumbs, service, holder, tasks>>

\* The enhanced version is renamed to the photo's path, and its row saved.
Replace(t, p) ==
    /\ file[p] # Absent
    /\ NewContent(p)
    /\ Begin(t, "request", "replaced", p)
    /\ UNCHANGED <<row, thumbs, service, holder, pass>>

SaveReplaced(t) ==
    LET p == tasks[t].photo IN
    /\ tasks[t].pc = "replaced"
    /\ row' = [row EXCEPT ![p] = IF row[p] = Absent \/ file[p] = Absent THEN row[p] ELSE file[p]]
    /\ tasks' = [tasks EXCEPT ![t].pc = "invalidate",
                             ![t].kind = IF row[p] = Absent THEN "forget" ELSE "request"]
    /\ UNCHANGED <<file, last, thumbs, service, holder, pass>>

-----------------------------------------------------------------------------
(* The cache moves: UpdateCachePath, and then the settings are saved *)

MoveTo(d) ==
    /\ move.pc = "none" /\ holder = Free
    /\ IF d = cacheDir
       THEN move' = [NoMove EXCEPT !.pc = "moved", !.to = d] /\ UNCHANGED holder
       ELSE /\ move' = [pc |-> "moving", to |-> d, todo |-> {p \in Photos : Has(p)}]
            /\ holder' = Mover
    /\ UNCHANGED <<files, thumbs, cacheDir, enabled, setting, tasks, pass>>

\* The next thumbnail has been dealt with.
Dealt(p) ==
    /\ move.pc = "moving" /\ p \in move.todo
    /\ move' = [move EXCEPT !.todo = @ \ {p}]
    /\ UNCHANGED <<files, cacheDir, enabled, setting, holder, tasks, pass>>

\* It is written where it goes and removed where it was ...
MoveThumb(p) ==
    /\ Dealt(p)
    /\ thumbs' = [thumbs EXCEPT ![move.to][p] = thumbs[cacheDir][p], ![cacheDir][p] = Absent]

\* ... or stays: it cannot be read, or not be written, not at all or not to its
\* end, or it is written and cannot be removed.
LeaveThumb(p) ==
    /\ Dealt(p)
    /\ \E copy \in {thumbs[move.to][p], Torn, thumbs[cacheDir][p]} : Put(move.to, p, copy)

EndMove ==
    /\ move.pc = "moving" /\ move.todo = {}
    /\ cacheDir' = move.to
    /\ enabled' = TRUE
    /\ move' = [move EXCEPT !.pc = "moved"]
    /\ holder' = Free
    /\ UNCHANGED <<files, thumbs, setting, tasks, pass>>

\* The new directory cannot be set up; the setting is saved all the same.
MoveFails ==
    /\ move.pc = "moving" /\ move.todo = {}
    /\ move' = [move EXCEPT !.pc = "moved"]
    /\ holder' = Free
    /\ UNCHANGED <<files, thumbs, cacheDir, enabled, setting, tasks, pass>>

\* Saved, unless another part of the request is refused.
SaveSetting ==
    /\ move.pc = "moved"
    /\ setting' \in {setting, move.to}
    /\ move' = NoMove
    /\ UNCHANGED <<files, thumbs, cacheDir, enabled, holder, tasks, pass>>

\* An empty path moves nothing.
ClearSetting ==
    /\ move.pc = "none" /\ setting # NoSetting
    /\ setting' = NoSetting
    /\ UNCHANGED <<files, thumbs, cacheDir, enabled, move, holder, tasks, pass>>

ConfiguredDir == IF setting = NoSetting THEN DefaultDir ELSE setting

\* The core stops, at any point, and starts again.
Restart ==
    /\ cacheDir' = ConfiguredDir
    /\ enabled' = TRUE
    /\ holder' = Free
    /\ move' = NoMove
    /\ tasks' = [t \in Tasks |-> Idle]
    /\ pass' = "none"
    /\ UNCHANGED <<files, thumbs, setting>>

-----------------------------------------------------------------------------
ThumbnailsInit ==
    /\ file \in [Photos -> {Absent, 1}]
    /\ last = file
    /\ row = [p \in Photos |-> Absent]
    /\ thumbs = [d \in Dirs |-> [p \in Photos |-> Absent]]
    /\ cacheDir = DefaultDir
    /\ enabled = TRUE
    /\ setting = NoSetting
    /\ holder = Free
    /\ tasks = [t \in Tasks |-> Idle]
    /\ pass = "none"
    /\ move = NoMove

TaskNext(t) ==
    \/ Get(t) \/ Read(t) \/ Drop(t) \/ Lock(t)
    \/ Set(t) \/ Write(t) \/ SetFails(t) \/ WriteFails(t)
    \/ Invalidate(t) \/ InvalidateFails(t) \/ EnsureThumbnail(t) \/ SaveReplaced(t)
    \/ \E p \in Photos :
          \/ Request(t, p) \/ InvalidateOne(t, p) \/ Warmup(t, p)
          \/ ScanFinds(t, p) \/ SyncFinds(t, p) \/ SyncCleans(t, p) \/ Replace(t, p)

ThumbnailsNext ==
    \/ \E t \in Tasks : TaskNext(t)
    \/ \E p \in Photos : Change(p) \/ Vanish(p) \/ Discard(p) \/ MoveThumb(p) \/ LeaveThumb(p)
    \/ InvalidateAll \/ Toggle \/ SyncBegins \/ SyncEnds
    \/ \E d \in Dirs : MoveTo(d)
    \/ EndMove \/ MoveFails \/ SaveSetting \/ ClearSetting \/ Restart
=============================================================================
