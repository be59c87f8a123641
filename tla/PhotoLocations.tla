--------------------------- MODULE PhotoLocations ---------------------------
(***************************************************************************)
(* Where a photo was taken: in the tags of its file, which the EXIF        *)
(* service writes with a backup and up to three attempts                   *)
(* (exif/internal/application/gps_writer.go), in image_metadata, where     *)
(* core keeps a reference to the place (handlers_geo.go,                   *)
(* background_sync.go), and in the cache of places, which is filled from   *)
(* Nominatim by core (geocoder/geolocation_service.go) and by the EXIF     *)
(* service (exif_service.go), each on its own.                             *)
(*                                                                         *)
(* Coordinates and the name they resolve to are a place.  A file's tags    *)
(* are known by the photo they belong to.  A task is a request or an       *)
(* extraction, from its beginning to its end, in core and in the EXIF      *)
(* service.                                                                *)
(***************************************************************************)
EXTENDS Naturals

CONSTANTS Photos,      \* photos in JPEG files
          BaseName,    \* their base names, which may be the same in two folders
          Places,
          Workers,     \* tasks at once
          MaxTime      \* bound on the clock, in seconds

NoTags == "noTags"
Nowhere == "nowhere"
NoRow == "noRow"
NoPhoto == "noPhoto"
Unlocked == "unlocked"
Services == {"core", "exif"}

VARIABLES image,     \* the photos' files: their tags and place
          backups,   \* the backup directory: base name and second -> what was saved
          now,       \* the clock
          known,     \* whether image_files has the hash of the file as it is
          refs,      \* image_metadata: the place a photo refers to, if any
          cached,    \* geolocation_caches
          geocoding, \* per service: who has its mutex, and when it last asked Nominatim
          asked,     \* history: how often a service has kept a place Nominatim told it
          works      \* the tasks

places == <<cached, geocoding, asked>>

NoWork == [pc |-> "idle", kind |-> "none", photo |-> NoPhoto, left |-> {},
           place |-> Nowhere, geo |-> Nowhere, hasRow |-> FALSE, second |-> 0]

InService == {"backup", "write", "restore"}

Begin(w, task) == works[w].pc = "idle" /\ works' = [works EXCEPT ![w] = task]
GoTo(w, pc) == works' = [works EXCEPT ![w].pc = pc]

\* What a write that has come to an end is followed by.
AfterWrite(w) ==
    CASE works[w].kind = "update" -> [works[w] EXCEPT !.pc = "resolve", !.second = 0]
      [] works[w].kind = "batch" -> [works[w] EXCEPT !.pc = "save", !.second = 0]
      [] OTHER -> NoWork
AfterFailure(w) ==
    IF works[w].kind = "batch" THEN [works[w] EXCEPT !.pc = "next", !.photo = NoPhoto, !.second = 0] ELSE NoWork

-----------------------------------------------------------------------------
(* Requests *)

Update(w, p, place) ==
    /\ Begin(w, [NoWork EXCEPT !.pc = "backup", !.kind = "update", !.photo = p,
                               !.place = place, !.hasRow = refs[p] # NoRow])
    /\ UNCHANGED <<image, backups, now, known, refs, places>>

\* A batch finds out the place's name first, and then goes from photo to photo.
BatchUpdate(w, S, place) ==
    /\ Begin(w, [NoWork EXCEPT !.pc = "resolve", !.kind = "batch", !.left = S, !.place = place])
    /\ UNCHANGED <<image, backups, now, known, refs, places>>

\* A photo that has a place already is skipped.
NextOfBatch(w) ==
    /\ works[w].pc = "next"
    /\ IF works[w].left = {} THEN works' = [works EXCEPT ![w] = NoWork]
       ELSE \E p \in works[w].left :
              works' = [works EXCEPT ![w].left = @ \ {p}, ![w].photo = p,
                                     ![w].hasRow = refs[p] # NoRow,
                                     ![w].pc = IF refs[p] \in Places THEN "next" ELSE "backup"]
    /\ UNCHANGED <<image, backups, now, known, refs, places>>

\* The agent's tool and the EXIF service's own handlers write the file only.
WriteDirectly(w, p, place) ==
    /\ Begin(w, [NoWork EXCEPT !.pc = "backup", !.kind = "direct", !.photo = p, !.place = place])
    /\ UNCHANGED <<image, backups, now, known, refs, places>>

\* The synchronisation or a scan has seen that the file has changed.
Index(w, p) ==
    /\ ~known[p]
    /\ known' = [known EXCEPT ![p] = TRUE]
    /\ Begin(w, [NoWork EXCEPT !.pc = "extract", !.kind = "extract", !.photo = p])
    /\ UNCHANGED <<image, backups, now, refs, places>>

\* Another program writes the photo's tags.
Edit(p, place) ==
    /\ image' = [image EXCEPT ![p].place = place]
    /\ known' = [known EXCEPT ![p] = FALSE]
    /\ UNCHANGED <<backups, now, refs, places, works>>

-----------------------------------------------------------------------------
(* The EXIF service writes a file: WriteGPS *)

BackupOf(p) == <<BaseName[p], now>>

\* A plausible error: a photo without a backup is written all the same.
BackupSkipped(w) ==
    /\ works[w].pc = "backup"
    /\ works' = [works EXCEPT ![w].pc = "write", ![w].second = now]
    /\ UNCHANGED <<image, backups, now, known, refs, places>>

Backup(w) ==
    LET p == works[w].photo IN
    /\ works[w].pc = "backup"
    /\ backups' = [b \in DOMAIN backups \cup {BackupOf(p)} |-> IF b = BackupOf(p) THEN image[p].tags ELSE backups[b]]
    /\ works' = [works EXCEPT ![w].pc = "write", ![w].second = now]
    /\ UNCHANGED <<image, now, known, refs, places>>

Wrote(w, tags, place) ==
    /\ image' = [image EXCEPT ![works[w].photo] = [tags |-> tags, place |-> place]]
    /\ known' = [known EXCEPT ![works[w].photo] = FALSE]

\* The first attempt succeeds, or the second, after a corrupt directory is gone.
WriteTags(w) ==
    /\ works[w].pc = "write"
    /\ Wrote(w, image[works[w].photo].tags, works[w].place)
    /\ works' = [works EXCEPT ![w] = AfterWrite(w)]
    /\ UNCHANGED <<backups, now, refs, places>>

\* Neither does: all tags go, to be restored from the backup.
StripTags(w) ==
    /\ works[w].pc = "write"
    /\ Wrote(w, NoTags, Nowhere)
    /\ GoTo(w, "restore")
    /\ UNCHANGED <<backups, now, refs, places>>

RestoreTags(w) ==
    /\ works[w].pc = "restore"
    /\ Wrote(w, backups[<<BaseName[works[w].photo], works[w].second>>], works[w].place)
    /\ works' = [works EXCEPT ![w] = AfterWrite(w)]
    /\ UNCHANGED <<backups, now, refs, places>>

\* No backup can be made, or a command fails for good.
WriteFails(w) ==
    /\ works[w].pc \in InService
    /\ works' = [works EXCEPT ![w] = AfterFailure(w)]
    /\ UNCHANGED <<image, backups, now, known, refs, places>>

\* Core waits thirty seconds; the service goes on by itself.
GiveUp(w) ==
    /\ works[w].pc \in InService /\ works[w].kind = "update"
    /\ works' = [works EXCEPT ![w].kind = "direct"]
    /\ UNCHANGED <<image, backups, now, known, refs, places>>

\* A batch goes on with its next photo then; v is what the service is left with.
GiveUpInBatch(w, v) ==
    /\ works[w].pc \in InService /\ works[w].kind = "batch" /\ works[v].pc = "idle"
    /\ works' = [works EXCEPT ![v] = [works[w] EXCEPT !.kind = "direct", !.left = {}, !.geo = Nowhere],
                              ![w] = AfterFailure(w)]
    /\ UNCHANGED <<image, backups, now, known, refs, places>>

-----------------------------------------------------------------------------
(* Core extracts what the file says *)

Extract(w) ==
    /\ works[w].pc = "extract"
    /\ works' = [works EXCEPT ![w] = IF image[works[w].photo].place = Nowhere
                                     THEN [@ EXCEPT !.pc = "save"]
                                     ELSE [@ EXCEPT !.pc = "resolve", !.place = image[works[w].photo].place]]
    /\ UNCHANGED <<image, backups, now, known, refs, places>>

\* The service does not answer, and nothing is saved.
ExtractFails(w) ==
    /\ works[w].pc = "extract"
    /\ works' = [works EXCEPT ![w] = NoWork]
    /\ UNCHANGED <<image, backups, now, known, refs, places>>

-----------------------------------------------------------------------------
(* The name of a place: ResolveGeolocation *)

\* The EXIF service is asked for one by its own clients.
AskNames(w, place) ==
    /\ Begin(w, [NoWork EXCEPT !.pc = "resolve", !.kind = "names", !.place = place])
    /\ UNCHANGED <<image, backups, now, known, refs, places>>

Service(w) == IF works[w].kind = "names" THEN "exif" ELSE "core"

AfterResolve(w, geo) ==
    CASE works[w].kind = "names" -> NoWork
      [] works[w].kind = "batch" -> [works[w] EXCEPT !.pc = "next", !.geo = geo]
      [] OTHER -> [works[w] EXCEPT !.pc = "save", !.geo = geo]

Resolved(w, geo) == works' = [works EXCEPT ![w] = AfterResolve(w, geo)]

LookUp(w) ==
    /\ works[w].pc = "resolve"
    /\ IF works[w].place \in cached THEN Resolved(w, works[w].place) ELSE GoTo(w, "lock")
    /\ UNCHANGED <<image, backups, now, known, refs, places>>

\* A plausible error: no second look.
LockBlindly(w) ==
    /\ works[w].pc = "lock" /\ geocoding[Service(w)].holder = Unlocked
    /\ geocoding' = [geocoding EXCEPT ![Service(w)].holder = w]
    /\ GoTo(w, "ask")
    /\ UNCHANGED <<image, backups, now, known, refs, cached, asked>>

\* The mutex, and a second look.
LockGeocoder(w) ==
    /\ works[w].pc = "lock" /\ geocoding[Service(w)].holder = Unlocked
    /\ IF works[w].place \in cached
       THEN Resolved(w, works[w].place) /\ UNCHANGED geocoding
       ELSE /\ geocoding' = [geocoding EXCEPT ![Service(w)].holder = w]
            /\ GoTo(w, "ask")
    /\ UNCHANGED <<image, backups, now, known, refs, cached, asked>>

\* Not within a second of the last time; then the place is in the cache,
\* whoever put it there, unless Nominatim or the insertion fails.
ReverseGeocode(w) ==
    /\ works[w].pc = "ask" /\ now > geocoding[Service(w)].last
    /\ geocoding' = [geocoding EXCEPT ![Service(w)] = [holder |-> Unlocked, last |-> now]]
    /\ \/ /\ cached' = cached \cup {works[w].place}
          /\ asked' = [asked EXCEPT ![Service(w)][works[w].place] = @ + 1]
          /\ Resolved(w, works[w].place)
       \/ /\ Resolved(w, Nowhere)
          /\ UNCHANGED <<cached, asked>>
    /\ UNCHANGED <<image, backups, now, known, refs>>

-----------------------------------------------------------------------------
(* The row *)

\* A request's result replaces the reference, also by none; a row that has been
\* made meanwhile stays as it is.
SaveRequest(w) ==
    LET p == works[w].photo IN
    /\ works[w].pc = "save" /\ works[w].kind \in {"update", "batch"}
    /\ refs' = [refs EXCEPT ![p] = IF works[w].hasRow \/ refs[p] = NoRow THEN works[w].geo ELSE @]
    /\ works' = [works EXCEPT ![w] = AfterFailure(w)]
    /\ UNCHANGED <<image, backups, now, known, places>>

\* A plausible error: a place that is known is kept.
SaveFirst(w) ==
    LET p == works[w].photo IN
    /\ works[w].pc = "save" /\ works[w].kind = "extract"
    /\ refs' = [refs EXCEPT ![p] = IF @ \in {NoRow, Nowhere} THEN works[w].geo ELSE @]
    /\ works' = [works EXCEPT ![w] = NoWork]
    /\ UNCHANGED <<image, backups, now, known, places>>

\* An extraction's result replaces it by a place only.
SaveExtracted(w) ==
    LET p == works[w].photo IN
    /\ works[w].pc = "save" /\ works[w].kind = "extract"
    /\ refs' = [refs EXCEPT ![p] = IF works[w].geo # Nowhere \/ refs[p] = NoRow THEN works[w].geo ELSE @]
    /\ works' = [works EXCEPT ![w] = NoWork]
    /\ UNCHANGED <<image, backups, now, known, places>>

-----------------------------------------------------------------------------
(* The clock, and the ends of the services *)

Tick ==
    /\ now < MaxTime
    /\ now' = now + 1
    /\ UNCHANGED <<image, backups, known, refs, places, works>>

Restarted(s) ==
    geocoding' = [geocoding EXCEPT ![s] = [holder |-> Unlocked, last |-> 0]]

ExifRestarts ==
    /\ works' = [w \in Workers |->
                   IF works[w].pc \in InService THEN AfterFailure(w)
                   ELSE IF works[w].kind = "names" \/ works[w].pc = "extract" THEN NoWork
                   ELSE works[w]]
    /\ Restarted("exif")
    /\ UNCHANGED <<image, backups, now, known, refs, cached, asked>>

\* What the EXIF service has been asked for goes on without core.
CoreRestarts ==
    /\ works' = [w \in Workers |->
                   IF works[w].kind \in {"direct", "names"} THEN works[w]
                   ELSE IF works[w].pc \in InService
                   THEN [works[w] EXCEPT !.kind = "direct", !.left = {}, !.geo = Nowhere]
                   ELSE NoWork]
    /\ Restarted("core")
    /\ UNCHANGED <<image, backups, now, known, refs, cached, asked>>

-----------------------------------------------------------------------------
LocationsInit ==
    /\ \E at \in [Photos -> Places \cup {Nowhere}] :
          image = [p \in Photos |-> [tags |-> p, place |-> at[p]]]
    /\ backups = [b \in {} |-> NoTags]
    /\ now = 1
    /\ known = [p \in Photos |-> TRUE]
    /\ refs = [p \in Photos |-> IF image[p].place = Nowhere THEN NoRow ELSE image[p].place]
    /\ cached = {refs[p] : p \in Photos} \cap Places
    /\ geocoding = [s \in Services |-> [holder |-> Unlocked, last |-> 0]]
    /\ asked = [s \in Services |-> [c \in Places |-> 0]]
    /\ works = [w \in Workers |-> NoWork]

WorkNext(w) ==
    \/ NextOfBatch(w) \/ Backup(w) \/ WriteTags(w) \/ StripTags(w) \/ RestoreTags(w)
    \/ WriteFails(w) \/ GiveUp(w) \/ Extract(w) \/ ExtractFails(w)
    \/ LookUp(w) \/ LockGeocoder(w) \/ ReverseGeocode(w) \/ SaveRequest(w) \/ SaveExtracted(w)
    \/ \E p \in Photos : Index(w, p)
    \/ \E c \in Places :
          \/ AskNames(w, c)
          \/ \E p \in Photos : Update(w, p, c) \/ WriteDirectly(w, p, c)
          \/ \E S \in SUBSET Photos \ {{}} : BatchUpdate(w, S, c)

LocationsNext ==
    \/ \E w \in Workers : WorkNext(w)
    \/ \E w, v \in Workers : GiveUpInBatch(w, v)
    \/ \E p \in Photos, c \in Places \cup {Nowhere} : Edit(p, c)
    \/ Tick \/ ExifRestarts \/ CoreRestarts
=============================================================================
