------------------------------ MODULE MCPhotos ------------------------------
(***************************************************************************)
(* Five parts of the system that serve photos and share nothing but them,  *)
(* checked in five scenes of one model: what readers are shown (Browsing), *)
(* the photos' files (MCTrashBin), the cache of thumbnails (MCThumbnails), *)
(* their locations (MCLocations) and the way up they are shown             *)
(* (PhotoFrames).  A scene's part moves, the others stay where they began. *)
(***************************************************************************)
EXTENDS Browsing, PhotoFrames, MCTrashBin, TLC

(* What readers are shown *)

VARIABLES steady,  \* what was listed when the reading began, and has not changed since
          sought,  \* the same of the jump under way
          origin,  \* where the reading began: None, or the cursor of a jump
          target,  \* and that jump's day
          changed  \* what has happened to the library meanwhile

vars == <<browsingVars, steady, sought, origin, target, changed>>

Unchanged(S) == {p \in S : p \in DOMAIN rows' /\ rows'[p] = rows[p]}

Newest(p, f) == \A q \in DOMAIN f \ {p} : f[q] < f[p]

Happens ==
    {"mapped" : i \in IF stored' # stored THEN {1} ELSE {}}
    \cup {"removed" : i \in IF Unchanged(DOMAIN rows) # DOMAIN rows THEN {1} ELSE {}}
    \cup {IF Newest(p, rows') THEN "appended" ELSE "inserted" : p \in DOMAIN rows' \ DOMAIN rows}

Watch ==
    IF generation' # generation
    THEN /\ steady' = IF cursor' = None THEN DOMAIN rows ELSE sought
         /\ origin' = cursor'
         /\ target' = seeking.day
         /\ changed' = {}
         /\ UNCHANGED sought
    ELSE /\ steady' = Unchanged(steady)
         /\ changed' = changed \cup Happens
         /\ sought' = IF seeking'.stage = "answered" /\ seeking.stage = "asked"
                      THEN DOMAIN rows ELSE Unchanged(sought)
         /\ UNCHANGED <<origin, target>>

\* What each listing takes for granted of the library: the times in the trash
\* are always known, the dates of photos are whole seconds, and the calendar's
\* photos are numbered in the order of their dates on every day.  One photo
\* without a date is enough, for they are alike.
WholeSeconds == \A r \in Dated : r.at % SecondTicks = 0
NumberedInOrder == \A r, s \in Dated : SameDay(r, s) /\ r.id < s.id => r.at < s.at
TimesDiffer == \A r, s \in Listed : r # s => r.at # s.at

OneUndated == Cardinality(Listed \ Dated) <= 1

Library ==
    CASE view.kind = "trash" -> Listed = Dated
      [] view.kind = "service" -> WholeSeconds /\ OneUndated
      [] view.kind = "calendar" -> WholeSeconds /\ OneUndated /\ NumberedInOrder
      [] view.kind = "gallery" -> TimesDiffer /\ Listed = Dated
      [] view.kind = "missing" -> \A r \in Dated : r.at = 0
      [] view.kind = "cluster" -> \A r \in Listed : r.at = 0

Counted == \E q \in requests : q.stage = "counted"

Init ==
    /\ BrowsingInit /\ Library
    /\ view.kind # "cluster" => stored = <<>>
    /\ steady = DOMAIN rows /\ sought = {} /\ origin = None /\ target = 0 /\ changed = {}
Next ==
    /\ BrowsingNext /\ Watch /\ Library'
    /\ view.kind # "cluster" => stored' = stored
    /\ Counted => rows' = rows

-----------------------------------------------------------------------------
\* Reading has come to an end.
Finished == (~more /\ ~loading) \/ broken

Once(S) == \A p \in S : Cardinality({i \in 1 .. Len(shown) : shown[i].id = p}) = 1
Ids(S) == {r.id : r \in S}

SteadyRows == {r \in RowsOf(view) : r.id \in steady}

\* The reader who has scrolled to the end of a listing with a cursor has seen
\* every item once that was there all the time, whatever came, went and moved
\* meanwhile, though views changed and days were completed: of the trash and of
\* the two calendars everything, after a jump everything from the place jumped
\* to, with the whole day in the order that begins with the oldest.
TrashIsShownOnce == view.kind = "trash" => Once(Ids(SteadyRows))
ServiceIsShownOnce == view.kind = "service" => Once(Ids(SteadyRows))
CalendarIsShownOnce == view.kind = "calendar" => Once(Ids(After(view.order, origin, SteadyRows)))
JumpShowsItsDay ==
    view.kind = "calendar" /\ view.order = "oldest" /\ origin # None =>
        Once(Ids({r \in SteadyRows : Day(r.at) = target}))

\* So has the reader of a listing of numbered pages, of the gallery while photos
\* come at its end at most, of the photos that lack data while none leaves them,
\* of a cluster while no photo goes and nobody else looks at the map.
GalleryIsShownOnce == view.kind = "gallery" /\ changed \subseteq {"appended"} => Once(Ids(SteadyRows))
MissingIsShownOnce == view.kind = "missing" /\ "removed" \notin changed => Once(Ids(SteadyRows))
ClusterIsShownOnce ==
    view.kind = "cluster" /\ changed \cap {"removed", "mapped"} = {} =>
        Once(steady \cap ToSet(stored[view.cluster]))

\* A reader who has come to the end has been shown everything once, as far as
\* the listing allows (handlers_trash.go, handlers_gallery.go, the exif
\* service's calendar; the web application's readers).
ListingsShowAllOnce ==
    Finished =>
        /\ TrashIsShownOnce /\ ServiceIsShownOnce /\ CalendarIsShownOnce /\ JumpShowsItsDay
        /\ GalleryIsShownOnce /\ MissingIsShownOnce /\ ClusterIsShownOnce

-----------------------------------------------------------------------------
View(kind, order, from, to, cluster) ==
    [kind |-> kind, order |-> order, from |-> from, to |-> to, cluster |-> cluster]

AllViews ==
    {View("calendar", order, 0, 1, "none") : order \in {"oldest", "newest"}}
    \cup {View("gallery", order, 0, 1, "none") : order \in {"oldest", "newest"}}
    \cup {View("service", "oldest", 0, 1, "none"),
           View("trash", "newest", 0, 1, "none"), View("missing", "newest", 0, 1, "none"),
           View("cluster", "newest", 0, 1, "c")}
AllTimes == {0, 2, 3, 6}

-----------------------------------------------------------------------------
(* The other scenes beside it *)
CONSTANTS Pictures, Dirs, DefaultDir, Tasks, MaxContent, MaxUpsets,
          Photos, Places, Workers, MaxTime, MaxClaims

VARIABLES file, last, row, thumbs, cacheDir, enabled, setting, holder, tasks, pass, move,
          excused, overtaken, upsets,
          image, backups, now, known, refs, cached, geocoding, asked, works,
          unresolved, claims,
          scene

T == INSTANCE MCThumbnails WITH Photos <- Pictures

\* All photos have the same base name, each in a folder of its own.
L == INSTANCE MCLocations WITH BaseName <- [p \in Photos |-> "name"]

\* Goroutines are none of the values that stand for nobody.
ASSUME PhotosAssumption ==
    /\ DefaultDir \in Dirs
    /\ T!Free \notin Tasks /\ T!Mover \notin Tasks
    /\ L!Unlocked \notin Workers

browsing == <<browsingVars, steady, sought, origin, target, changed>>
thumbnails == <<file, last, row, thumbs, cacheDir, enabled, setting, holder, tasks, pass, move,
                excused, overtaken, upsets>>
locations == <<image, backups, now, known, refs, cached, geocoding, asked, works,
               unresolved, claims>>

-----------------------------------------------------------------------------
(* Files of all orientations, and of headers that the reader stumbles over *)

Entry(tag, short, value) == [tag |-> tag, short |-> short, value |-> value]
Turned(o) == Entry("orientation", TRUE, o)
Exif(entries) == [kind |-> "exif", entries |-> entries]
Plain(kind) == [kind |-> kind, entries |-> <<>>]

Segments ==
    {Plain("standalone"), Plain("other"), Plain("xmp"), Plain("end")} \cup
    {Exif(<<Turned(6)>>), Exif(<<Turned(9)>>), Exif(<<Entry("other", TRUE, 3), Turned(8)>>),
     Exif(<<Entry("cut off", TRUE, 3), Turned(8)>>), Exif(<<Entry("orientation", FALSE, 8), Turned(7)>>)}

File(format, width, height, segments) ==
    [format |-> format, decodable |-> TRUE, width |-> width, height |-> height, segments |-> segments]

FewFiles ==
    {File("jpeg", w, h, <<Exif(<<Turned(o)>>)>>) : w \in 1 .. 3, h \in 1 .. 3, o \in 0 .. 9} \cup
    {File("png", 2, 3, <<s, t>>) : s \in Segments, t \in Segments} \cup
    {File("other", 3, 2, <<s>>) : s \in Segments} \cup
    {[File("jpeg", 3, 2, <<s>>) EXCEPT !.decodable = FALSE] : s \in Segments}

FewBoxes == [x : 0 .. 1, y : 0 .. 1, width : 1 .. 2, height : 1 .. 2]

-----------------------------------------------------------------------------

NothingListed == rows = <<>> /\ view.kind = "trash"
NoFiles == \A p \in DOMAIN file : file[p] = 0
NoPlaces == \A p \in Photos : refs[p] = L!NoRow
NothingTrashed == trashScenario = CHOOSE s \in TrashScenarios : TRUE

PhotosInit ==
    /\ scene \in {"browsing", "files", "thumbnails", "locations", "frames"}
    /\ Init /\ TrashScenarioInit /\ T!Init /\ L!Init /\ FramesInit
    /\ scene # "browsing" => NothingListed
    /\ scene # "files" => NothingTrashed
    /\ scene # "thumbnails" => NoFiles
    /\ scene # "locations" => NoPlaces

Browse ==
    /\ scene = "browsing" /\ Next
    /\ UNCHANGED <<trashScenarioVars, thumbnails, locations, lightbox, scene>>
HandleFiles ==
    /\ scene = "files" /\ TrashScenarioNext
    /\ UNCHANGED <<browsing, thumbnails, locations, lightbox, scene>>
Cache ==
    /\ scene = "thumbnails" /\ T!Next
    /\ UNCHANGED <<browsing, trashScenarioVars, locations, lightbox, scene>>
Locate ==
    /\ scene = "locations" /\ L!Next
    /\ UNCHANGED <<browsing, trashScenarioVars, thumbnails, lightbox, scene>>

\* One photo is shown.
Frame ==
    /\ scene = "frames" /\ lightbox = NotShown
    /\ FramesNext
    /\ UNCHANGED <<browsing, trashScenarioVars, thumbnails, locations, scene>>

PhotosNext == Browse \/ HandleFiles \/ Cache \/ Locate \/ Frame

photosVars == <<browsing, trashScenarioVars, thumbnails, locations, lightbox, scene>>

PhotosSpec == PhotosInit /\ [][PhotosNext]_photosVars

\* Goroutines, requests, photos and places are told apart by nothing but their
\* names.  Tasks and Requests are the same values as Workers.
PhotosSymmetry == Permutations(Workers) \cup Permutations(Photos) \cup Permutations(Places)

-----------------------------------------------------------------------------
\* A settled photo's thumbnail shows the photo as it is, and a request is
\* answered with a whole thumbnail, or none.
ThumbnailsAreCurrent == T!ThumbnailsAreCurrent /\ T!AnswersAreWhole

\* The tags a photo had are in its file or in a backup, a photo that core knows
\* refers to the place its file names, and no service asks Nominatim for a place
\* it has an answer for.
LocationsAreKept == L!TagsAreKept /\ L!LocationIsCurrent /\ L!AskedOnce
=============================================================================
