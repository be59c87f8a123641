---------------------------- MODULE PhotosProofs ----------------------------
(***************************************************************************)
(* What the scenes of photos keep, for any number of photos, goroutines,   *)
(* directories and places: a thumbnail is upright and the box drawn around *)
(* a face has the face's pixels; tags are kept and locations are those of  *)
(* the files; thumbnails show the photos as they are.  And whose the faces *)
(* are: somebody's who is there; and the recognition job keeps what the    *)
(* user curated between passes.                                            *)
(***************************************************************************)
EXTENDS MCPhotos, MCFaceRecognition, FiniteSetTheorems, TLAPS

-----------------------------------------------------------------------------
(* Upright photos and face boxes *)

\* What the headers are read to is an orientation, or 0 (readExifOrientation).
LEMMA OrientationInRange ==
    ASSUME NEW picture
    PROVE  ReadExifOrientation(picture) \in 0 .. 8
<1>1. ASSUME NEW entries
      PROVE  ParseTIFFOrientation(entries) = 0 \/ ParseTIFFOrientation(entries) \in 1 .. 8
  BY Zenon DEF ParseTIFFOrientation
<1>2. ReadExifOrientation(picture) = 0 \/ ReadExifOrientation(picture) \in 1 .. 8
  BY <1>1, Zenon DEF ReadExifOrientation
<1> QED
  BY <1>2

\* Where a browser shows a stored pixel, for each orientation (the standard's
\* table).
LEMMA WhereShown ==
    ASSUME NEW picture, NEW x, NEW y
    PROVE  /\ ShownX(1, picture, x, y) = x /\ ShownY(1, picture, x, y) = y
           /\ ShownX(2, picture, x, y) = picture.width - 1 - x /\ ShownY(2, picture, x, y) = y
           /\ ShownX(3, picture, x, y) = picture.width - 1 - x /\ ShownY(3, picture, x, y) = picture.height - 1 - y
           /\ ShownX(4, picture, x, y) = x /\ ShownY(4, picture, x, y) = picture.height - 1 - y
           /\ ShownX(5, picture, x, y) = y /\ ShownY(5, picture, x, y) = x
           /\ ShownX(6, picture, x, y) = picture.height - 1 - y /\ ShownY(6, picture, x, y) = x
           /\ ShownX(7, picture, x, y) = picture.height - 1 - y /\ ShownY(7, picture, x, y) = picture.width - 1 - x
           /\ ShownX(8, picture, x, y) = y /\ ShownY(8, picture, x, y) = picture.width - 1 - x
<1>1. /\ FirstRow[1] = "top" /\ FirstRow[2] = "top" /\ FirstRow[3] = "bottom" /\ FirstRow[4] = "bottom"
      /\ FirstRow[5] = "left" /\ FirstRow[6] = "right" /\ FirstRow[7] = "right" /\ FirstRow[8] = "left"
  BY DEF FirstRow
<1>2. /\ FirstColumn[1] = "left" /\ FirstColumn[2] = "right" /\ FirstColumn[3] = "right"
      /\ FirstColumn[4] = "left" /\ FirstColumn[5] = "top" /\ FirstColumn[6] = "top"
      /\ FirstColumn[7] = "bottom" /\ FirstColumn[8] = "bottom"
  BY DEF FirstColumn
<1> QED
  BY <1>1, <1>2 DEF ShownX, ShownY, From

-----------------------------------------------------------------------------
(* Turning an image, pixel by pixel *)

\* Each helper of the imaging library takes a pixel where its name says.
LEMMA Turns ==
    ASSUME NEW picture, picture.width \in Nat, picture.height \in Nat,
           NEW x \in 0 .. picture.width - 1, NEW y \in 0 .. picture.height - 1
    PROVE  /\ FlipH(Decoded(picture)).at[picture.width - 1 - x][y] = <<x, y>>
           /\ FlipV(Decoded(picture)).at[x][picture.height - 1 - y] = <<x, y>>
           /\ Rotate180(Decoded(picture)).at[picture.width - 1 - x][picture.height - 1 - y] = <<x, y>>
           /\ Rotate90(Decoded(picture)).at[y][picture.width - 1 - x] = <<x, y>>
           /\ Rotate270(Decoded(picture)).at[picture.height - 1 - y][x] = <<x, y>>
<1>1. /\ picture.width - 1 - x \in 0 .. picture.width - 1
      /\ picture.height - 1 - y \in 0 .. picture.height - 1
      /\ picture.width - 1 - (picture.width - 1 - x) = x
      /\ picture.height - 1 - (picture.height - 1 - y) = y
  OBVIOUS
<1> QED
  BY <1>1 DEF FlipH, FlipV, Rotate180, Rotate90, Rotate270, Decoded

\* The image that applyOrientation makes has each stored pixel where a browser
\* shows it.
LEMMA Upright ==
    ASSUME NEW picture, picture.width \in Nat, picture.height \in Nat,
           NEW o \in 0 .. 8,
           NEW x \in 0 .. picture.width - 1, NEW y \in 0 .. picture.height - 1
    PROVE  LET t == IF o = 0 THEN 1 ELSE o
           IN  ApplyOrientation(Decoded(picture), o).at[ShownX(t, picture, x, y)][ShownY(t, picture, x, y)] = <<x, y>>
<1> DEFINE t == IF o = 0 THEN 1 ELSE o
<1> DEFINE left == picture.width - 1 - x
<1> DEFINE up == picture.height - 1 - y
<1>1. /\ left \in 0 .. picture.width - 1 /\ up \in 0 .. picture.height - 1
      /\ picture.width - 1 - left = x /\ picture.height - 1 - up = y
  OBVIOUS
<1>2. CASE o \in {0, 1}
  BY WhereShown, <1>2 DEF ApplyOrientation, Decoded
<1>3. CASE o = 2
  <2>1. ApplyOrientation(Decoded(picture), o) = FlipH(Decoded(picture))
    BY <1>3 DEF ApplyOrientation
  <2>2. FlipH(Decoded(picture)).at[left][y] = <<x, y>>
    BY Turns
  <2> QED
    BY WhereShown, <1>3, <2>1, <2>2
<1>4. CASE o = 3
  <2>1. ApplyOrientation(Decoded(picture), o) = Rotate180(Decoded(picture))
    BY <1>4 DEF ApplyOrientation
  <2>2. Rotate180(Decoded(picture)).at[left][up] = <<x, y>>
    BY Turns
  <2> QED
    BY WhereShown, <1>4, <2>1, <2>2
<1>5. CASE o = 4
  <2>1. ApplyOrientation(Decoded(picture), o) = FlipV(Decoded(picture))
    BY <1>5 DEF ApplyOrientation
  <2>2. FlipV(Decoded(picture)).at[x][up] = <<x, y>>
    BY Turns
  <2> QED
    BY WhereShown, <1>5, <2>1, <2>2
<1>6. CASE o = 5
  <2>1. ApplyOrientation(Decoded(picture), o) = FlipH(Rotate270(Decoded(picture)))
    BY <1>6 DEF ApplyOrientation
  <2>2. FlipH(Rotate270(Decoded(picture))).at[y] = Rotate270(Decoded(picture)).at[up]
    BY <1>1 DEF FlipH, Rotate270, Decoded
  <2>3. FlipH(Rotate270(Decoded(picture))).at[y][x] = <<x, y>>
    BY <2>2, Turns
  <2> QED
    BY WhereShown, <1>6, <2>1, <2>3
<1>7. CASE o = 6
  <2>1. ApplyOrientation(Decoded(picture), o) = Rotate270(Decoded(picture))
    BY <1>7 DEF ApplyOrientation
  <2>2. Rotate270(Decoded(picture)).at[up][x] = <<x, y>>
    BY Turns
  <2> QED
    BY WhereShown, <1>7, <2>1, <2>2
<1>8. CASE o = 7
  <2>1. ApplyOrientation(Decoded(picture), o) = FlipH(Rotate90(Decoded(picture)))
    BY <1>8 DEF ApplyOrientation
  <2>2. FlipH(Rotate90(Decoded(picture))).at[up] = Rotate90(Decoded(picture)).at[y]
    BY <1>1 DEF FlipH, Rotate90, Decoded
  <2>3. FlipH(Rotate90(Decoded(picture))).at[up][left] = <<x, y>>
    BY <2>2, Turns
  <2> QED
    BY WhereShown, <1>8, <2>1, <2>3
<1>9. CASE o = 8
  <2>1. ApplyOrientation(Decoded(picture), o) = Rotate90(Decoded(picture))
    BY <1>9 DEF ApplyOrientation
  <2>2. Rotate90(Decoded(picture)).at[y][left] = <<x, y>>
    BY Turns
  <2> QED
    BY WhereShown, <1>9, <2>1, <2>2
<1> QED
  BY WhereShown, <1>2, <1>3, <1>4, <1>5, <1>6, <1>7, <1>8, <1>9

\* A pixel is in the box that NormalizeBox makes just if the stored pixel is in
\* the stored box.
LEMMA BoxTurned ==
    ASSUME NEW picture, picture.width \in Nat, picture.height \in Nat, picture.decodable,
           NEW face \in [x : Nat, y : Nat, width : Nat, height : Nat],
           NEW x \in 0 .. picture.width - 1, NEW y \in 0 .. picture.height - 1
    PROVE  LET t == Tagged(picture)
           IN  Inside(NormalizeBox(ReadImageFrame(picture), face), ShownX(t, picture, x, y), ShownY(t, picture, x, y))
               <=> Inside(face, x, y)
<1> DEFINE o == ReadExifOrientation(picture)
<1> DEFINE frame == [width |-> picture.width, height |-> picture.height,
                     orientation |-> IF o \in 2 .. 8 THEN o ELSE 1]
<1>1. o \in 0 .. 8
  BY OrientationInRange
<1>2. ReadImageFrame(picture) = frame
  BY DEF ReadImageFrame
<1>3. picture.width > 0 /\ picture.height > 0
  OBVIOUS
<1>4. face.x \in Nat /\ face.y \in Nat /\ face.width \in Nat /\ face.height \in Nat
  OBVIOUS
<1>5. CASE o \in {0, 1}
  BY WhereShown, <1>2, <1>5 DEF NormalizeBox, Tagged, Inside
<1>6. CASE o \in {2, 3, 4}
  BY WhereShown, <1>2, <1>3, <1>4, <1>6
  DEF NormalizeBox, MapPoint, Least, AbsDiff, Tagged, Inside
<1>7. CASE o \in {5, 6}
  BY WhereShown, <1>2, <1>3, <1>4, <1>7
  DEF NormalizeBox, MapPoint, Least, AbsDiff, Tagged, Inside
<1>8. CASE o \in {7, 8}
  BY WhereShown, <1>2, <1>3, <1>4, <1>8
  DEF NormalizeBox, MapPoint, Least, AbsDiff, Tagged, Inside
<1> QED
  BY <1>1, <1>5, <1>6, <1>7, <1>8

-----------------------------------------------------------------------------

\* Photos are shown upright, and the boxes drawn over them are those of their
\* faces, whatever the sizes of photos and boxes (generateThumbnail,
\* handleGetImageFaces).
THEOREM FacesFramed == FramesSpec => []FacesAreFramed
<1>1. FramesInit => FacesAreFramed
  BY DEF FramesInit, FacesAreFramed
<1>2. FacesAreFramed /\ [FramesNext]_lightbox => FacesAreFramed'
  <2> SUFFICES ASSUME FacesAreFramed, [FramesNext]_lightbox PROVE FacesAreFramed'
    OBVIOUS
  <2>1. CASE UNCHANGED lightbox
    BY <2>1 DEF FacesAreFramed
  <2>2. CASE FramesNext
    <3> PICK picture \in PhotoFiles, face \in FaceBoxes : ShowPhoto(picture, face)
      BY <2>2 DEF FramesNext
    <3>1. /\ picture.width \in Nat /\ picture.height \in Nat
          /\ face \in [x : Nat, y : Nat, width : Nat, height : Nat]
      BY PhotoFramesAssumption
    <3>2. /\ lightbox'.file = picture /\ lightbox'.face = face
          /\ lightbox'.thumbnail = ApplyOrientation(Decoded(picture), ReadExifOrientation(picture))
          /\ lightbox'.drawn = NormalizeBox(ReadImageFrame(picture), face)
      BY DEF ShowPhoto
    <3> SUFFICES ASSUME picture.decodable,
                        NEW x \in 0 .. picture.width - 1, NEW y \in 0 .. picture.height - 1
                 PROVE  LET u == ShownX(Tagged(picture), picture, x, y)
                            v == ShownY(Tagged(picture), picture, x, y)
                        IN  /\ lightbox'.thumbnail.at[u][v] = <<x, y>>
                            /\ Inside(lightbox'.drawn, u, v) <=> Inside(face, x, y)
      BY <3>2 DEF FacesAreFramed
    <3>3. lightbox'.thumbnail.at[ShownX(Tagged(picture), picture, x, y)][ShownY(Tagged(picture), picture, x, y)] = <<x, y>>
      BY <3>1, <3>2, Upright, OrientationInRange DEF Tagged
    <3>4. Inside(lightbox'.drawn, ShownX(Tagged(picture), picture, x, y), ShownY(Tagged(picture), picture, x, y))
          <=> Inside(face, x, y)
      BY <3>1, <3>2, BoxTurned
    <3> QED
      BY <3>3, <3>4
  <2> QED
    BY <2>1, <2>2
<1> QED
  BY <1>1, <1>2, PTL DEF FramesSpec

-----------------------------------------------------------------------------
(* Locations: the types, and what a task is at *)

Works == [pc : {"idle", "next", "extract", "backup", "write", "restore", "resolve", "lock", "ask", "save"},
         kind : {"none", "update", "batch", "direct", "extract", "names"},
         photo : Photos \cup {L!NoPhoto}, left : SUBSET Photos, place : Places \cup {L!Nowhere},
         geo : Places \cup {L!Nowhere}, hasRow : BOOLEAN, second : Nat]

Geocoding == {"resolve", "lock", "ask"}

\* Each kind of task has its steps; a file is written, read and recorded of a
\* photo, and a place resolved.
WorkSound(x) ==
    /\ x.pc = "idle" => x = L!NoWork
    /\ x.kind = "none" => x.pc = "idle"
    /\ x.kind = "direct" => x.pc \in L!InService
    /\ x.kind = "names" => x.pc \in Geocoding
    /\ x.kind = "extract" => x.pc \in Geocoding \cup {"extract", "save"}
    /\ x.kind = "update" => x.pc \in L!InService \cup Geocoding \cup {"save"}
    /\ x.kind = "batch" => x.pc \in L!InService \cup Geocoding \cup {"save", "next"}
    /\ x.pc \in L!InService \cup {"extract", "save"} => x.photo \in Photos
    /\ x.kind \in {"update", "extract"} => x.photo \in Photos
    /\ x.pc \in Geocoding \/ x.kind \in {"update", "batch", "direct", "names"} => x.place \in Places
    /\ x.pc = "extract" => x.place = L!Nowhere /\ x.geo = L!Nowhere

LocationsTyped ==
    /\ image \in [Photos -> [tags : Photos \cup {L!NoTags}, place : Places \cup {L!Nowhere}]]
    /\ now \in Nat
    /\ known \in [Photos -> BOOLEAN]
    /\ refs \in [Photos -> Places \cup {L!Nowhere, L!NoRow}]
    /\ cached \subseteq Places
    /\ asked \in [L!Services -> [Places -> Nat]]
    /\ geocoding \in [L!Services -> [holder : Workers \cup {L!Unlocked}, last : Nat]]
    /\ works \in [Workers -> Works]
    /\ \A w \in Workers : WorkSound(works[w])

-----------------------------------------------------------------------------
(* Locations: what is kept *)

\* A place that a service has asked for is in the cache; one that it is asking
\* for it has not, and nobody else of the service asks.
OnceAsked ==
    /\ \A s \in L!Services, c \in Places : asked[s][c] <= 1 /\ (asked[s][c] # 0 => c \in cached)
    /\ \A w \in Workers : works[w].pc = "ask" =>
          /\ geocoding[L!Service(w)].holder = w
          /\ asked[L!Service(w)][works[w].place] = 0

SavedFor(p) == \E b \in DOMAIN backups : b[1] = "name" /\ backups[b] = p

\* A file's tags are its own or none; while it is written, the backup made for
\* that has those it had.
TagsHeld(p) == image[p].tags = p \/ (image[p].tags = L!NoTags /\ SavedFor(p))

BackupHeld(w) ==
    LET b == <<"name", works[w].second>>
        p == works[w].photo
    IN  /\ works[w].pc \in {"write", "restore"} => b \in DOMAIN backups
        /\ works[w].pc = "write" => backups[b] = image[p].tags
        /\ works[w].pc = "restore" => (backups[b] \in {p, L!NoTags} /\ image[p].tags = L!NoTags)

\* A request that has written a photo's place is going to record this place, an
\* extraction the place the file has, unless it has changed since.
RecordsPlace(w) ==
    \/ works[w].kind = "update" /\ works[w].pc \in Geocoding \cup {"save"}
    \/ works[w].kind = "batch" /\ works[w].pc = "save"
WrittenPlace(w) == RecordsPlace(w) => works[w].place = image[works[w].photo].place

ReadsPlace(w) == works[w].kind = "extract" /\ works[w].pc \in Geocoding \cup {"save"}
ReadPlace(w) ==
    ReadsPlace(w) /\ known[works[w].photo] => works[w].place = image[works[w].photo].place

\* A place resolves to itself or to nothing.
KnowsGeo(w) ==
    \/ works[w].pc = "save"
    \/ works[w].kind = "batch" /\ works[w].pc \in L!InService \cup {"next"}
Geo(w) == KnowsGeo(w) => works[w].geo \in {works[w].place, L!Nowhere}

\* What core knows of a file it has read is its place.
PlaceKnown(p) ==
    known[p] /\ L!Extractors(p) = {} /\ p \notin unresolved /\ image[p].place # L!Nowhere =>
        refs[p] = image[p].place

LocationsInv ==
    /\ LocationsTyped /\ OnceAsked
    /\ \A p \in Photos : TagsHeld(p) /\ PlaceKnown(p)
    /\ \A w \in Workers : BackupHeld(w) /\ WrittenPlace(w) /\ Geo(w) /\ ReadPlace(w)
    /\ \A p \in Photos : \A v, w \in L!Writers(p) : v = w
    /\ \A p \in Photos : \A v, w \in L!Extractors(p) : v = w

-----------------------------------------------------------------------------
(* Locations: the types *)

\* A task that changes alone.
LEMMA OneTask ==
    ASSUME works \in [Workers -> Works], \A v \in Workers : WorkSound(works[v]),
           NEW w \in Workers, NEW x, x \in Works, WorkSound(x),
           works' = [works EXCEPT ![w] = x]
    PROVE  /\ works' \in [Workers -> Works] /\ \A v \in Workers : WorkSound(works'[v])
           /\ \A v \in Workers \ {w} : works'[v] = works[v]
<1>1. works' \in [Workers -> Works]
  OBVIOUS
<1>2. \A v \in Workers : works'[v] = IF v = w THEN x ELSE works[v]
  OBVIOUS
<1> QED
  BY <1>1, <1>2

\* What a task is.
LEMMA TaskTyped ==
    ASSUME LocationsTyped, NEW w \in Workers
    PROVE  /\ works \in [Workers -> Works] /\ \A v \in Workers : WorkSound(works[v])
           /\ works[w] \in Works /\ WorkSound(works[w])
           /\ works[w].photo \in Photos \cup {L!NoPhoto} /\ works[w].left \in SUBSET Photos
           /\ works[w].place \in Places \cup {L!Nowhere} /\ works[w].geo \in Places \cup {L!Nowhere}
           /\ works[w].hasRow \in BOOLEAN /\ works[w].second \in Nat
<1>1. works \in [Workers -> Works] /\ \A v \in Workers : WorkSound(works[v])
  BY DEF LocationsTyped
<1>2. works[w] \in Works
  BY <1>1
<1> QED
  BY <1>1, <1>2 DEF Works

\* Nobody's task.
LEMMA NoWorkTyped == L!NoWork \in Works /\ WorkSound(L!NoWork)
  BY DEF L!NoWork, Works, WorkSound, L!InService, Geocoding

\* A write's end is followed by a task.
LEMMA EndsTyped ==
    ASSUME LocationsTyped, NEW w \in Workers, works[w].pc \in L!InService \cup {"save"}
    PROVE  /\ L!AfterFailure(w) \in Works /\ WorkSound(L!AfterFailure(w))
           /\ works[w].pc \in L!InService => L!AfterWrite(w) \in Works /\ WorkSound(L!AfterWrite(w))
<1> DEFINE t == works[w]
<1>1. t \in Works /\ WorkSound(t)
  BY TaskTyped
<1>2. L!AfterFailure(w) \in Works
  <2>1. CASE t.kind # "batch"
    BY <2>1, NoWorkTyped DEF L!AfterFailure
  <2>2. CASE t.kind = "batch"
    <3>1. L!AfterFailure(w) = [t EXCEPT !.pc = "next", !.photo = L!NoPhoto, !.second = 0]
      BY <2>2 DEF L!AfterFailure
    <3>2. [t EXCEPT !.pc = "next", !.photo = L!NoPhoto, !.second = 0] \in Works
      BY <1>1 DEF Works
    <3> QED
      BY <3>1, <3>2
  <2> QED
    BY <2>1, <2>2
<1>3. WorkSound(L!AfterFailure(w))
  <2>1. CASE t.kind # "batch"
    BY <2>1, NoWorkTyped DEF L!AfterFailure
  <2>2. CASE t.kind = "batch"
    <3> DEFINE x == L!AfterFailure(w)
    <3>1. x.pc = "next" /\ x.kind = "batch" /\ x.place \in Places
      BY <1>1, <2>2 DEF L!AfterFailure, Works, WorkSound
    <3> QED
      BY <3>1 DEF WorkSound, L!InService, Geocoding
  <2> QED
    BY <2>1, <2>2
<1>4. ASSUME t.pc \in L!InService
      PROVE  L!AfterWrite(w) \in Works
  BY <1>1, <1>4, NoWorkTyped DEF L!AfterWrite, Works
<1>5. ASSUME t.pc \in L!InService
      PROVE  WorkSound(L!AfterWrite(w))
  BY <1>1, <1>5, NoWorkTyped DEF L!AfterWrite, Works, WorkSound, L!InService, Geocoding
<1> QED
  BY <1>2, <1>3, <1>4, <1>5

\* So is a place that has been resolved.
LEMMA ResolvedTyped ==
    ASSUME LocationsTyped, NEW w \in Workers, works[w].pc \in Geocoding,
           NEW geo \in Places \cup {L!Nowhere}
    PROVE  L!AfterResolve(w, geo) \in Works /\ WorkSound(L!AfterResolve(w, geo))
<1> DEFINE t == works[w]
<1>1. t \in Works /\ WorkSound(t)
  BY TaskTyped
<1>2. L!AfterResolve(w, geo) \in Works
  BY <1>1, NoWorkTyped DEF L!AfterResolve, Works
<1>3. WorkSound(L!AfterResolve(w, geo))
  BY <1>1, NoWorkTyped DEF L!AfterResolve, Works, WorkSound, L!InService, Geocoding
<1> QED
  BY <1>2, <1>3

\* A task that begins or goes on is one.
LEMMA TasksStep ==
    ASSUME LocationsTyped, NEW w \in Workers, L!WorkNext(w)
    PROVE  /\ works' \in [Workers -> Works] /\ \A v \in Workers : WorkSound(works'[v])
           /\ \A v \in Workers \ {w} : works'[v] = works[v]
<1> DEFINE t == works[w]
<1>0. t \in Works /\ WorkSound(t) /\ t.place \in Places \cup {L!Nowhere} /\ t.second \in Nat
  BY TaskTyped
<1> DEFINE GoesTo(x) == x \in Works /\ WorkSound(x) /\ works' = [works EXCEPT ![w] = x]
<1> SUFFICES \E x : GoesTo(x)
  BY TaskTyped, OneTask
<1>n. GoesTo(L!NoWork) <=> works' = [works EXCEPT ![w] = L!NoWork]
  BY NoWorkTyped
<1>1. CASE L!NextOfBatch(w)
  <2>1. CASE t.left = {}
    BY <1>1, <2>1, <1>n DEF L!NextOfBatch
  <2>2. CASE t.left # {}
    <3>1. PICK p \in t.left :
            works' = [works EXCEPT ![w] = [t EXCEPT !.left = @ \ {p}, !.photo = p, !.hasRow = refs[p] # L!NoRow,
                                                    !.pc = IF refs[p] \in Places THEN "next" ELSE "backup"]]
      BY <1>1, <2>2 DEF L!NextOfBatch
    <3> DEFINE x == [t EXCEPT !.left = @ \ {p}, !.photo = p, !.hasRow = refs[p] # L!NoRow,
                              !.pc = IF refs[p] \in Places THEN "next" ELSE "backup"]
    <3>2. p \in Photos
      BY TaskTyped
    <3>3. x \in Works
      BY <1>0, <3>2 DEF Works
    <3>4. x.kind = t.kind /\ x.pc \in {"next", "backup"} /\ x.photo = p /\ x.place = t.place
      BY <1>0 DEF Works
    <3>5. t.kind = "batch" /\ t.place \in Places
      BY <1>0, <1>1 DEF L!NextOfBatch, WorkSound, Works, L!InService, Geocoding
    <3>6. WorkSound(x)
      BY <3>2, <3>4, <3>5 DEF WorkSound, L!InService, Geocoding
    <3> QED
      BY <3>1, <3>3, <3>6
  <2> QED
    BY <2>1, <2>2
<1>2. CASE L!Backup(w)
  <2> DEFINE x == [t EXCEPT !.pc = "write", !.second = now]
  <2>1. now \in Nat
    BY DEF LocationsTyped
  <2>2. x \in Works /\ WorkSound(x)
    BY <1>0, <1>2, <2>1 DEF L!Backup, Works, WorkSound, L!InService, Geocoding
  <2> QED
    BY <1>2, <2>2, TaskTyped DEF L!Backup
<1>3. CASE L!WriteTags(w)
  BY <1>3, EndsTyped DEF L!WriteTags, L!InService
<1>4. CASE L!StripTags(w)
  <2> DEFINE x == [t EXCEPT !.pc = "restore"]
  <2>1. x \in Works /\ WorkSound(x)
    BY <1>0, <1>4 DEF L!StripTags, Works, WorkSound, L!InService, Geocoding
  <2> QED
    BY <1>4, <2>1, TaskTyped DEF L!StripTags, L!GoTo
<1>5. CASE L!RestoreTags(w)
  BY <1>5, EndsTyped DEF L!RestoreTags, L!InService
<1>6. CASE L!WriteFails(w)
  BY <1>6, EndsTyped DEF L!WriteFails
<1>7. CASE L!GiveUp(w)
  <2> DEFINE x == [t EXCEPT !.kind = "direct"]
  <2>1. x \in Works /\ WorkSound(x)
    BY <1>0, <1>7 DEF L!GiveUp, Works, WorkSound, L!InService, Geocoding
  <2> QED
    BY <1>7, <2>1, TaskTyped DEF L!GiveUp
<1>8. CASE L!Extract(w)
  <2> DEFINE at == image[t.photo].place
  <2>1. t.pc = "extract" /\ t.kind = "extract" /\ t.photo \in Photos
    BY <1>0, <1>8 DEF L!Extract, WorkSound, Works, L!InService, Geocoding
  <2>2. at \in Places \cup {L!Nowhere}
    BY <2>1 DEF LocationsTyped
  <2>3. CASE at = L!Nowhere
    <3> DEFINE x == [t EXCEPT !.pc = "save"]
    <3>1. x \in Works /\ WorkSound(x)
      BY <1>0, <2>1 DEF Works, WorkSound, L!InService, Geocoding
    <3> QED
      BY <1>8, <2>3, <3>1, TaskTyped DEF L!Extract
  <2>4. CASE at # L!Nowhere
    <3> DEFINE x == [t EXCEPT !.pc = "resolve", !.place = at]
    <3>1. x \in Works /\ WorkSound(x)
      BY <1>0, <2>1, <2>2, <2>4 DEF Works, WorkSound, L!InService, Geocoding
    <3> QED
      BY <1>8, <2>4, <3>1, TaskTyped DEF L!Extract
  <2> QED
    BY <2>3, <2>4
<1>9. CASE L!ExtractFails(w)
  BY <1>9, <1>n DEF L!ExtractFails
<1>10. CASE L!LookUp(w)
  <2>1. t.pc = "resolve"
    BY <1>10 DEF L!LookUp
  <2>2. CASE t.place \in cached
    BY <1>0, <1>10, <2>1, <2>2, ResolvedTyped DEF L!LookUp, L!Resolved, Geocoding
  <2>3. CASE t.place \notin cached
    <3> DEFINE x == [t EXCEPT !.pc = "lock"]
    <3>1. x \in Works /\ WorkSound(x)
      BY <1>0, <2>1 DEF Works, WorkSound, L!InService, Geocoding
    <3> QED
      BY <1>10, <2>3, <3>1, TaskTyped DEF L!LookUp, L!GoTo
  <2> QED
    BY <2>2, <2>3
<1>11. CASE L!LockGeocoder(w)
  <2>1. t.pc = "lock"
    BY <1>11 DEF L!LockGeocoder
  <2>2. CASE t.place \in cached
    BY <1>0, <1>11, <2>1, <2>2, ResolvedTyped DEF L!LockGeocoder, L!Resolved, Geocoding
  <2>3. CASE t.place \notin cached
    <3> DEFINE x == [t EXCEPT !.pc = "ask"]
    <3>1. x \in Works /\ WorkSound(x)
      BY <1>0, <2>1 DEF Works, WorkSound, L!InService, Geocoding
    <3> QED
      BY <1>11, <2>3, <3>1, TaskTyped DEF L!LockGeocoder, L!GoTo
  <2> QED
    BY <2>2, <2>3
<1>12. CASE L!ReverseGeocode(w)
  <2>1. t.pc = "ask"
    BY <1>12 DEF L!ReverseGeocode
  <2>2. \E geo \in Places \cup {L!Nowhere} : works' = [works EXCEPT ![w] = L!AfterResolve(w, geo)]
    BY <1>0, <1>12 DEF L!ReverseGeocode, L!Resolved
  <2> QED
    BY <2>1, <2>2, ResolvedTyped DEF Geocoding
<1>13. CASE L!SaveRequest(w)
  BY <1>13, EndsTyped DEF L!SaveRequest
<1>14. CASE L!SaveExtracted(w)
  BY <1>14, <1>n DEF L!SaveExtracted
<1>15. ASSUME NEW p \in Photos, L!Index(w, p)
       PROVE  \E x : GoesTo(x)
  <2> DEFINE x == [L!NoWork EXCEPT !.pc = "extract", !.kind = "extract", !.photo = p]
  <2>1. x \in Works /\ WorkSound(x)
    BY DEF L!NoWork, Works, WorkSound, L!InService, Geocoding
  <2> QED
    BY <1>15, <2>1 DEF L!Index, L!Begin
<1>16. ASSUME NEW c \in Places, L!AskNames(w, c)
       PROVE  \E x : GoesTo(x)
  <2> DEFINE x == [L!NoWork EXCEPT !.pc = "resolve", !.kind = "names", !.place = c]
  <2>1. x \in Works /\ WorkSound(x)
    BY DEF L!NoWork, Works, WorkSound, L!InService, Geocoding
  <2> QED
    BY <1>16, <2>1 DEF L!AskNames, L!Begin
<1>17. ASSUME NEW c \in Places, NEW p \in Photos, L!Update(w, p, c)
       PROVE  \E x : GoesTo(x)
  <2> DEFINE x == [L!NoWork EXCEPT !.pc = "backup", !.kind = "update", !.photo = p,
                                   !.place = c, !.hasRow = refs[p] # L!NoRow]
  <2>1. x \in Works /\ WorkSound(x)
    BY DEF L!NoWork, Works, WorkSound, L!InService, Geocoding
  <2> QED
    BY <1>17, <2>1 DEF L!Update, L!Begin
<1>18. ASSUME NEW c \in Places, NEW p \in Photos, L!WriteDirectly(w, p, c)
       PROVE  \E x : GoesTo(x)
  <2> DEFINE x == [L!NoWork EXCEPT !.pc = "backup", !.kind = "direct", !.photo = p, !.place = c]
  <2>1. x \in Works /\ WorkSound(x)
    BY DEF L!NoWork, Works, WorkSound, L!InService, Geocoding
  <2> QED
    BY <1>18, <2>1 DEF L!WriteDirectly, L!Begin
<1>19. ASSUME NEW c \in Places, NEW S \in SUBSET Photos \ {{}}, L!BatchUpdate(w, S, c)
       PROVE  \E x : GoesTo(x)
  <2> DEFINE x == [L!NoWork EXCEPT !.pc = "resolve", !.kind = "batch", !.left = S, !.place = c]
  <2>1. x \in Works /\ WorkSound(x)
    BY DEF L!NoWork, Works, WorkSound, L!InService, Geocoding
  <2> QED
    BY <1>19, <2>1 DEF L!BatchUpdate, L!Begin
<1> HIDE DEF GoesTo
<1> QED
  BY <1>1, <1>2, <1>3, <1>4, <1>5, <1>6, <1>7, <1>8, <1>9, <1>10, <1>11, <1>12, <1>13, <1>14,
     <1>15, <1>16, <1>17, <1>18, <1>19 DEF L!WorkNext

\* A batch that gives up leaves the service alone with the photo, as a task of its own.
LEMMA HandedOver ==
    ASSUME LocationsTyped, NEW w \in Workers, NEW v \in Workers, L!GiveUpInBatch(w, v)
    PROVE  /\ UNCHANGED <<image, backups, now, known, refs, cached, geocoding, asked>>
           /\ works' \in [Workers -> Works] /\ \A x \in Workers : WorkSound(works'[x])
           /\ v # w /\ works[w].pc \in L!InService /\ works[w].kind = "batch"
           /\ works[v].pc = "idle" /\ works[v].kind = "none"
           /\ \A x \in Workers \ {v, w} : works'[x] = works[x]
           /\ /\ works'[v].pc = works[w].pc /\ works'[v].kind = "direct"
              /\ works'[v].photo = works[w].photo /\ works'[v].second = works[w].second
           /\ /\ works'[w].pc = "next" /\ works'[w].kind = "batch"
              /\ works'[w].place = works[w].place /\ works'[w].geo = works[w].geo
<1> DEFINE t == works[w]
           x == [t EXCEPT !.kind = "direct", !.left = {}, !.geo = L!Nowhere]
           y == L!AfterFailure(w)
<1>1. /\ works \in [Workers -> Works] /\ \A z \in Workers : works[z] \in Works /\ WorkSound(works[z])
      /\ t.place \in Places \cup {L!Nowhere} /\ t.second \in Nat
  BY TaskTyped
<1>2. /\ UNCHANGED <<image, backups, now, known, refs, cached, geocoding, asked>>
      /\ t.pc \in L!InService /\ t.kind = "batch" /\ works[v].pc = "idle"
      /\ works' = [works EXCEPT ![v] = x, ![w] = y]
  BY DEF L!GiveUpInBatch, L!places
<1>3. v # w /\ works[v].kind = "none"
  BY <1>1, <1>2 DEF L!InService, WorkSound, L!NoWork
<1>4. /\ x \in Works /\ WorkSound(x)
      /\ x.pc = t.pc /\ x.kind = "direct" /\ x.photo = t.photo /\ x.second = t.second
  BY <1>1, <1>2 DEF Works, WorkSound, L!InService, Geocoding
<1>5. y \in Works /\ WorkSound(y)
  BY <1>2, EndsTyped
<1>6. y.pc = "next" /\ y.kind = "batch" /\ y.place = t.place /\ y.geo = t.geo
  BY <1>1, <1>2 DEF L!AfterFailure, Works
<1> HIDE DEF x, y
<1>7. works'[v] = x /\ works'[w] = y /\ \A z \in Workers \ {v, w} : works'[z] = works[z]
  BY <1>1, <1>2, <1>3
<1>8. works' \in [Workers -> Works]
  BY <1>1, <1>2, <1>4, <1>5
<1> QED
  BY <1>1, <1>2, <1>3, <1>4, <1>5, <1>6, <1>7, <1>8

\* All tasks are ones again when a service has restarted.
LEMMA TasksRestarted ==
    ASSUME LocationsTyped, L!ExifRestarts \/ L!CoreRestarts
    PROVE  works' \in [Workers -> Works] /\ \A v \in Workers : WorkSound(works'[v])
<1>1. CASE L!ExifRestarts
  <2>1. ASSUME NEW v \in Workers
        PROVE  works'[v] \in Works /\ WorkSound(works'[v])
    <3>1. \/ works[v].pc \in L!InService /\ works'[v] = L!AfterFailure(v)
          \/ works'[v] \in {L!NoWork, works[v]}
      BY <1>1 DEF L!ExifRestarts
    <3> QED
      BY <3>1, TaskTyped, NoWorkTyped, EndsTyped
  <2>2. works' = [v \in Workers |-> works'[v]]
    BY <1>1 DEF L!ExifRestarts
  <2> QED
    BY <2>1, <2>2
<1>2. CASE L!CoreRestarts
  <2>1. ASSUME NEW v \in Workers
        PROVE  works'[v] \in Works /\ WorkSound(works'[v])
    <3> DEFINE x == [works[v] EXCEPT !.kind = "direct", !.left = {}, !.geo = L!Nowhere]
    <3>1. \/ works[v].pc \in L!InService /\ works[v].kind \notin {"direct", "names"} /\ works'[v] = x
          \/ works'[v] \in {L!NoWork, works[v]}
      BY <1>2 DEF L!CoreRestarts
    <3>2. ASSUME works[v].pc \in L!InService, works[v].kind \notin {"direct", "names"}
          PROVE  x \in Works /\ WorkSound(x)
      <4>1. works[v] \in Works /\ WorkSound(works[v])
        BY TaskTyped
      <4>2. x \in Works
        BY <4>1 DEF Works
      <4>3. x.pc = works[v].pc /\ x.kind = "direct" /\ x.photo = works[v].photo /\ x.place = works[v].place
        BY <4>1 DEF Works
      <4>4. works[v].kind \in {"update", "batch"} /\ works[v].place \in Places /\ works[v].photo \in Photos
        BY <3>2, <4>1 DEF Works, WorkSound, L!InService, Geocoding
      <4> QED
        BY <3>2, <4>2, <4>3, <4>4 DEF WorkSound, L!InService, Geocoding
    <3> QED
      BY <3>1, <3>2, TaskTyped, NoWorkTyped
  <2>2. works' = [v \in Workers |-> works'[v]]
    BY <1>2 DEF L!CoreRestarts
  <2> QED
    BY <2>1, <2>2
<1> QED
  BY <1>1, <1>2

\* A photo's file, its row, and the places, after a task's step.
LEMMA FilesStep ==
    ASSUME LocationsTyped, NEW w \in Workers, BackupHeld(w), L!WorkNext(w)
    PROVE  /\ image' \in [Photos -> [tags : Photos \cup {L!NoTags}, place : Places \cup {L!Nowhere}]]
           /\ known' \in [Photos -> BOOLEAN]
           /\ refs' \in [Photos -> Places \cup {L!Nowhere, L!NoRow}]
<1> DEFINE p == works[w].photo
           Image == [tags : Photos \cup {L!NoTags}, place : Places \cup {L!Nowhere}]
<1>1. /\ image \in [Photos -> Image] /\ known \in [Photos -> BOOLEAN]
      /\ refs \in [Photos -> Places \cup {L!Nowhere, L!NoRow}]
  BY DEF LocationsTyped
<1>2. /\ works[w].place \in Places \cup {L!Nowhere} /\ works[w].geo \in Places \cup {L!Nowhere}
      /\ works[w].pc \in L!InService \cup {"save"} => p \in Photos
  BY TaskTyped DEF WorkSound
<1>3. ASSUME NEW tags \in Photos \cup {L!NoTags}, NEW place \in Places \cup {L!Nowhere},
             p \in Photos, L!Wrote(w, tags, place)
      PROVE  image' \in [Photos -> Image] /\ known' \in [Photos -> BOOLEAN]
  BY <1>1, <1>3 DEF L!Wrote
<1>4. CASE L!WriteTags(w)
  BY <1>1, <1>2, <1>3, <1>4 DEF L!WriteTags, L!InService
<1>5. CASE L!StripTags(w)
  BY <1>1, <1>2, <1>3, <1>5 DEF L!StripTags, L!InService
<1>6. CASE L!RestoreTags(w)
  <2>1. backups[<<"name", works[w].second>>] \in Photos \cup {L!NoTags} /\ p \in Photos
    BY <1>2, <1>6 DEF BackupHeld, L!RestoreTags, L!InService
  <2> QED
    BY <1>1, <1>2, <1>3, <1>6, <2>1 DEF L!RestoreTags
<1>7. CASE L!SaveRequest(w) \/ L!SaveExtracted(w)
  BY <1>1, <1>2, <1>7 DEF L!SaveRequest, L!SaveExtracted
<1>8. CASE \E q \in Photos : L!Index(w, q)
  BY <1>1, <1>8 DEF L!Index
<1>9. CASE \/ L!NextOfBatch(w) \/ L!Backup(w) \/ L!WriteFails(w) \/ L!GiveUp(w) \/ L!Extract(w)
           \/ L!ExtractFails(w) \/ L!LookUp(w) \/ L!LockGeocoder(w) \/ L!ReverseGeocode(w)
           \/ \E c \in Places :
                 \/ L!AskNames(w, c)
                 \/ \E q \in Photos : L!Update(w, q, c) \/ L!WriteDirectly(w, q, c)
                 \/ \E S \in SUBSET Photos \ {{}} : L!BatchUpdate(w, S, c)
  <2>1. UNCHANGED <<image, known, refs>>
    BY <1>9 DEF L!NextOfBatch, L!Backup, L!WriteFails, L!GiveUp, L!Extract, L!ExtractFails, L!LookUp,
                L!LockGeocoder, L!ReverseGeocode, L!AskNames, L!Update, L!WriteDirectly, L!BatchUpdate
  <2> QED
    BY <1>1, <2>1
<1> QED
  BY <1>4, <1>5, <1>6, <1>7, <1>8, <1>9 DEF L!WorkNext

\* A step that has nothing to do with places' names.
LEMMA PlacesStay ==
    ASSUME LocationsTyped, NEW w \in Workers, L!WorkNext(w),
           ~L!LockGeocoder(w), ~L!ReverseGeocode(w)
    PROVE  /\ UNCHANGED <<cached, geocoding, asked>>
           /\ works'[w].pc # "ask"
<1>1. works \in [Workers -> Works] /\ works[w] \in Works
  BY TaskTyped
<1>2. CASE L!Backup(w) \/ L!StripTags(w) \/ L!GiveUp(w) \/ L!Extract(w) \/ L!ExtractFails(w)
  <2>1. UNCHANGED <<cached, geocoding, asked>>
    BY <1>2 DEF L!Backup, L!StripTags, L!GiveUp, L!Extract, L!ExtractFails, L!places
  <2>2. CASE L!Backup(w)
    BY <1>1, <2>1, <2>2 DEF L!Backup, Works
  <2>3. CASE L!StripTags(w)
    BY <1>1, <2>1, <2>3 DEF L!StripTags, L!GoTo, Works
  <2>4. CASE L!GiveUp(w)
    BY <1>1, <2>1, <2>4 DEF L!GiveUp, L!InService, Works
  <2>5. CASE L!Extract(w)
    BY <1>1, <2>1, <2>5 DEF L!Extract, Works
  <2>6. CASE L!ExtractFails(w)
    BY <1>1, <2>1, <2>6 DEF L!ExtractFails, L!NoWork
  <2> QED
    BY <1>2, <2>2, <2>3, <2>4, <2>5, <2>6
<1>7. CASE L!NextOfBatch(w)
  <2>1. UNCHANGED <<cached, geocoding, asked>>
    BY <1>7 DEF L!NextOfBatch, L!places
  <2>2. CASE works[w].left = {}
    BY <1>1, <1>7, <2>1, <2>2 DEF L!NextOfBatch, L!NoWork
  <2>3. CASE works[w].left # {}
    <3>1. PICK p \in works[w].left :
            works' = [works EXCEPT ![w].left = @ \ {p}, ![w].photo = p, ![w].hasRow = refs[p] # L!NoRow,
                                   ![w].pc = IF refs[p] \in Places THEN "next" ELSE "backup"]
      BY <1>7, <2>3 DEF L!NextOfBatch
    <3> QED
      BY <1>1, <2>1, <3>1 DEF Works
  <2> QED
    BY <2>2, <2>3
<1>3. CASE L!WriteTags(w) \/ L!RestoreTags(w)
  <2>1. works'[w] = L!AfterWrite(w) /\ works[w].pc \in L!InService /\ UNCHANGED <<cached, geocoding, asked>>
    BY <1>1, <1>3 DEF L!WriteTags, L!RestoreTags, L!places, L!InService
  <2>2. L!AfterWrite(w).pc \in {"resolve", "save", "idle"}
    BY <1>1 DEF L!AfterWrite, L!NoWork, Works
  <2> QED
    BY <2>1, <2>2
<1>4. CASE L!WriteFails(w) \/ L!SaveRequest(w) \/ L!SaveExtracted(w)
  <2>1. works'[w] \in {L!AfterFailure(w), L!NoWork} /\ UNCHANGED <<cached, geocoding, asked>>
    BY <1>1, <1>4 DEF L!WriteFails, L!SaveRequest, L!SaveExtracted, L!places
  <2>2. L!AfterFailure(w).pc \in {"next", "idle"} /\ L!NoWork.pc = "idle"
    BY <1>1 DEF L!AfterFailure, L!NoWork, Works
  <2> QED
    BY <2>1, <2>2
<1>5. CASE L!LookUp(w)
  <2>1. /\ works'[w] \in {L!AfterResolve(w, works[w].place), [works[w] EXCEPT !.pc = "lock"]}
        /\ UNCHANGED <<cached, geocoding, asked>>
    BY <1>1, <1>5 DEF L!LookUp, L!Resolved, L!GoTo, L!places
  <2>2. /\ L!AfterResolve(w, works[w].place).pc \in {"next", "save", "idle"}
        /\ [works[w] EXCEPT !.pc = "lock"].pc = "lock"
    BY <1>1 DEF L!AfterResolve, L!NoWork, Works
  <2> QED
    BY <2>1, <2>2
<1>6. CASE \/ \E p \in Photos : L!Index(w, p)
           \/ \E c \in Places :
                 \/ L!AskNames(w, c)
                 \/ \E p \in Photos : L!Update(w, p, c) \/ L!WriteDirectly(w, p, c)
                 \/ \E S \in SUBSET Photos \ {{}} : L!BatchUpdate(w, S, c)
  BY <1>1, <1>6 DEF L!Index, L!AskNames, L!Update, L!WriteDirectly, L!BatchUpdate, L!Begin, L!NoWork, L!places
<1> QED
  BY <1>2, <1>3, <1>4, <1>5, <1>6, <1>7 DEF L!WorkNext

\* Locks, the cache and what has been asked after a task's step.
LEMMA AskedStep ==
    ASSUME LocationsTyped, OnceAsked, NEW w \in Workers, L!WorkNext(w)
    PROVE  /\ OnceAsked'
           /\ cached' \subseteq Places
           /\ asked' \in [L!Services -> [Places -> Nat]]
           /\ geocoding' \in [L!Services -> [holder : Workers \cup {L!Unlocked}, last : Nat]]
<1> DEFINE s == L!Service(w)
           t == works[w]
           Lock == [holder : Workers \cup {L!Unlocked}, last : Nat]
<1>0. /\ now \in Nat /\ cached \subseteq Places /\ asked \in [L!Services -> [Places -> Nat]]
      /\ geocoding \in [L!Services -> Lock]
  BY DEF LocationsTyped
<1>1. \A v \in Workers \ {w} : works'[v] = works[v] /\ L!Service(v)' = L!Service(v)
  BY TasksStep DEF L!Service
<1>2. \A v \in Workers : L!Service(v) \in L!Services
  BY DEF L!Service, L!Services
<1>3. CASE ~L!LockGeocoder(w) /\ ~L!ReverseGeocode(w)
  BY <1>0, <1>1, <1>3, PlacesStay DEF OnceAsked
<1>4. t \in Works /\ works \in [Workers -> Works] /\ WorkSound(t)
  BY TaskTyped
<1>5. CASE L!LockGeocoder(w)
  <2>1. UNCHANGED <<cached, asked>> /\ t.pc = "lock" /\ geocoding[s].holder = L!Unlocked
    BY <1>5 DEF L!LockGeocoder
  <2>2. CASE t.place \in cached
    <3>1. UNCHANGED geocoding /\ works'[w] = L!AfterResolve(w, t.place)
      BY <1>4, <1>5, <2>2 DEF L!LockGeocoder, L!Resolved
    <3>2. L!AfterResolve(w, t.place).pc \in {"next", "save", "idle"}
      BY <1>4 DEF L!AfterResolve, L!NoWork, Works
    <3> QED
      BY <1>0, <1>1, <2>1, <3>1, <3>2 DEF OnceAsked
  <2>3. CASE t.place \notin cached
    <3>1. /\ geocoding' = [geocoding EXCEPT ![s].holder = w]
          /\ works' = [works EXCEPT ![w].pc = "ask"]
      BY <1>5, <2>3 DEF L!LockGeocoder, L!GoTo
    <3>2. works'[w].kind = t.kind /\ works'[w].place = t.place
      BY <1>4, <3>1 DEF Works
    <3>3. L!Service(w)' = s
      BY <3>2 DEF L!Service
    <3>4. t.place \in Places
      BY <1>4, <2>1 DEF WorkSound, Geocoding
    <3>5. asked[s][t.place] = 0
      BY <1>2, <2>3, <3>4 DEF OnceAsked
    <3>6. geocoding' \in [L!Services -> Lock] /\ geocoding'[s].holder = w
          /\ \A r \in L!Services \ {s} : geocoding'[r] = geocoding[r]
      BY <1>0, <1>2, <3>1
    <3>7. ASSUME NEW v \in Workers, works'[v].pc = "ask"
          PROVE  /\ geocoding'[L!Service(v)'].holder = v
                 /\ asked[L!Service(v)'][works'[v].place] = 0
      <4>1. CASE v = w
        BY <3>2, <3>3, <3>5, <3>6, <4>1
      <4>2. CASE v # w
        <5>1. /\ works'[v] = works[v] /\ L!Service(v)' = L!Service(v)
              /\ geocoding[L!Service(v)].holder = v /\ asked[L!Service(v)][works[v].place] = 0
          BY <1>1, <3>7, <4>2 DEF OnceAsked
        <5>2. L!Service(v) # s
          BY <2>1, <5>1, PhotosAssumption
        <5> QED
          BY <1>2, <3>6, <5>1, <5>2
      <4> QED
        BY <4>1, <4>2
    <3>8. OnceAsked'
      BY <2>1, <3>7 DEF OnceAsked
    <3> QED
      BY <1>0, <2>1, <3>6, <3>8
  <2> QED
    BY <2>2, <2>3
<1>6. CASE L!ReverseGeocode(w)
  <2>1. t.pc = "ask" /\ geocoding' = [geocoding EXCEPT ![s] = [holder |-> L!Unlocked, last |-> now]]
    BY <1>6 DEF L!ReverseGeocode
  <2>2. /\ geocoding[s].holder = w /\ asked[s][t.place] = 0 /\ t.place \in Places
    BY <1>4, <2>1 DEF OnceAsked, WorkSound, Geocoding
  <2>3. /\ geocoding' \in [L!Services -> Lock]
        /\ \A r \in L!Services \ {s} : geocoding'[r] = geocoding[r]
    BY <1>0, <1>2, <2>1
  <2>4. works'[w].pc # "ask"
    <3>1. \E geo : works'[w] = L!AfterResolve(w, geo)
      BY <1>4, <1>6 DEF L!ReverseGeocode, L!Resolved
    <3>2. \A geo : L!AfterResolve(w, geo).pc \in {"next", "save", "idle"}
      BY <1>4 DEF L!AfterResolve, L!NoWork, Works
    <3> QED
      BY <3>1, <3>2
  <2>5. \/ cached' = cached \cup {t.place} /\ asked' = [asked EXCEPT ![s][t.place] = @ + 1]
        \/ UNCHANGED <<cached, asked>>
    BY <1>6 DEF L!ReverseGeocode
  <2>6. /\ asked' \in [L!Services -> [Places -> Nat]] /\ cached \subseteq cached' /\ cached' \subseteq Places
        /\ \A r \in L!Services \ {s} : asked'[r] = asked[r]
        /\ \A c \in Places \ {t.place} : asked'[s][c] = asked[s][c]
        /\ asked'[s][t.place] <= 1 /\ (asked'[s][t.place] # 0 => t.place \in cached')
    <3>1. CASE UNCHANGED <<cached, asked>>
      BY <1>0, <2>2, <3>1
    <3>2. CASE cached' = cached \cup {t.place} /\ asked' = [asked EXCEPT ![s][t.place] = @ + 1]
      <4>1. s \in L!Services /\ asked[s] \in [Places -> Nat]
        BY <1>0, <1>2
      <4>2. asked' = [asked EXCEPT ![s] = [asked[s] EXCEPT ![t.place] = 1]]
        BY <2>2, <3>2
      <4>3. asked'[s] = [asked[s] EXCEPT ![t.place] = 1]
        BY <1>0, <4>1, <4>2
      <4>4. asked'[s] \in [Places -> Nat] /\ asked'[s][t.place] = 1
            /\ \A c \in Places \ {t.place} : asked'[s][c] = asked[s][c]
        BY <2>2, <4>1, <4>3
      <4>5. asked' \in [L!Services -> [Places -> Nat]] /\ \A r \in L!Services \ {s} : asked'[r] = asked[r]
        BY <1>0, <4>1, <4>2, <4>3, <4>4
      <4> QED
        BY <1>0, <2>2, <3>2, <4>4, <4>5
    <3> QED
      BY <2>5, <3>1, <3>2
  <2>7. ASSUME NEW v \in Workers, works'[v].pc = "ask"
        PROVE  /\ geocoding'[L!Service(v)'].holder = v
               /\ asked'[L!Service(v)'][works'[v].place] = 0
    <3>1. /\ v # w /\ works'[v] = works[v] /\ L!Service(v)' = L!Service(v)
          /\ geocoding[L!Service(v)].holder = v /\ asked[L!Service(v)][works[v].place] = 0
      BY <1>1, <2>4, <2>7 DEF OnceAsked
    <3>2. L!Service(v) # s
      BY <2>2, <3>1
    <3> QED
      BY <1>2, <2>3, <2>6, <3>1, <3>2
  <2>8. ASSUME NEW r \in L!Services, NEW c \in Places
        PROVE  asked'[r][c] <= 1 /\ (asked'[r][c] # 0 => c \in cached')
    <3>1. asked[r][c] <= 1 /\ (asked[r][c] # 0 => c \in cached)
      BY DEF OnceAsked
    <3> QED
      BY <2>6, <3>1
  <2>9. OnceAsked'
    BY <2>7, <2>8 DEF OnceAsked
  <2> QED
    BY <2>3, <2>6, <2>9
<1> QED
  BY <1>3, <1>5, <1>6

\* A task takes no time.
LEMMA ClockStays ==
    ASSUME NEW w, L!WorkNext(w)
    PROVE  now' = now
<1>1. CASE L!NextOfBatch(w) \/ L!Backup(w) \/ L!WriteTags(w) \/ L!StripTags(w) \/ L!RestoreTags(w)
           \/ L!WriteFails(w) \/ L!GiveUp(w) \/ L!Extract(w) \/ L!ExtractFails(w)
  BY <1>1 DEF L!NextOfBatch, L!Backup, L!WriteTags, L!StripTags, L!RestoreTags, L!WriteFails, L!GiveUp,
              L!Extract, L!ExtractFails
<1>2. CASE L!LookUp(w) \/ L!LockGeocoder(w) \/ L!ReverseGeocode(w) \/ L!SaveRequest(w) \/ L!SaveExtracted(w)
  BY <1>2 DEF L!LookUp, L!LockGeocoder, L!ReverseGeocode, L!SaveRequest, L!SaveExtracted
<1>3. CASE \/ \E p \in Photos : L!Index(w, p)
           \/ \E c \in Places :
                 \/ L!AskNames(w, c)
                 \/ \E p \in Photos : L!Update(w, p, c) \/ L!WriteDirectly(w, p, c)
                 \/ \E S \in SUBSET Photos \ {{}} : L!BatchUpdate(w, S, c)
  BY <1>3 DEF L!Index, L!AskNames, L!Update, L!WriteDirectly, L!BatchUpdate
<1> QED
  BY <1>1, <1>2, <1>3 DEF L!WorkNext

\* Types are kept, and what has been asked for is not asked again.
LEMMA TypedStep ==
    ASSUME LocationsTyped, OnceAsked, \A w \in Workers : BackupHeld(w), L!LocationsNext
    PROVE  LocationsTyped' /\ OnceAsked'
<1> DEFINE Image == [tags : Photos \cup {L!NoTags}, place : Places \cup {L!Nowhere}]
           Lock == [holder : Workers \cup {L!Unlocked}, last : Nat]
<1>0. /\ image \in [Photos -> Image] /\ known \in [Photos -> BOOLEAN]
      /\ refs \in [Photos -> Places \cup {L!Nowhere, L!NoRow}]
      /\ now \in Nat /\ cached \subseteq Places /\ asked \in [L!Services -> [Places -> Nat]]
      /\ geocoding \in [L!Services -> Lock]
      /\ works \in [Workers -> Works] /\ \A v \in Workers : WorkSound(works[v])
  BY DEF LocationsTyped
<1>1. ASSUME NEW w \in Workers, L!WorkNext(w)
      PROVE  LocationsTyped' /\ OnceAsked'
  <2>1. BackupHeld(w)
    OBVIOUS
  <2> QED
    BY <1>0, <1>1, <2>1, TasksStep, FilesStep, AskedStep, ClockStays DEF LocationsTyped
<1>2. ASSUME NEW p \in Photos, NEW c \in Places \cup {L!Nowhere}, L!Edit(p, c)
      PROVE  LocationsTyped' /\ OnceAsked'
  <2>1. /\ image' \in [Photos -> Image] /\ known' \in [Photos -> BOOLEAN]
        /\ UNCHANGED <<now, refs, cached, geocoding, asked, works>>
    BY <1>0, <1>2 DEF L!Edit, L!places
  <2>2. OnceAsked'
    BY <2>1 DEF OnceAsked, L!Service
  <2> QED
    BY <1>0, <2>1, <2>2 DEF LocationsTyped
<1>3. CASE L!Tick
  <2>1. now' \in Nat /\ UNCHANGED <<image, known, refs, cached, geocoding, asked, works>>
    BY <1>0, <1>3 DEF L!Tick, L!places
  <2>2. OnceAsked'
    BY <2>1 DEF OnceAsked, L!Service
  <2> QED
    BY <1>0, <2>1, <2>2 DEF LocationsTyped
<1>4. CASE L!ExifRestarts \/ L!CoreRestarts
  <2>1. UNCHANGED <<image, now, known, refs, cached, asked>>
    BY <1>4 DEF L!ExifRestarts, L!CoreRestarts
  <2>2. works' \in [Workers -> Works] /\ \A v \in Workers : WorkSound(works'[v])
    BY <1>4, TasksRestarted
  <2>3. PICK s \in L!Services :
           /\ geocoding' = [geocoding EXCEPT ![s] = [holder |-> L!Unlocked, last |-> 0]]
           /\ (s = "exif" /\ L!ExifRestarts) \/ (s = "core" /\ L!CoreRestarts)
    BY <1>4 DEF L!ExifRestarts, L!CoreRestarts, L!Restarted, L!Services
  <2>4. /\ geocoding' \in [L!Services -> Lock]
        /\ \A r \in L!Services \ {s} : geocoding'[r] = geocoding[r]
    BY <1>0, <2>3
  <2>5. ASSUME NEW v \in Workers, works'[v].pc = "ask"
        PROVE  works'[v] = works[v] /\ L!Service(v) # s
    <3>1. L!NoWork.pc # "ask" /\ L!AfterFailure(v).pc \in {"next", "idle"}
      BY <1>0 DEF L!NoWork, L!AfterFailure, Works
    <3>2. CASE s = "exif" /\ L!ExifRestarts
      BY <2>5, <3>1, <3>2 DEF L!ExifRestarts, L!Service
    <3>3. CASE s = "core" /\ L!CoreRestarts
      <4>1. CASE works[v].kind \in {"direct", "names"}
        <5>1. works'[v] = works[v]
          BY <3>3, <4>1 DEF L!CoreRestarts
        <5>2. works[v].kind # "direct"
          BY <1>0, <2>5, <5>1 DEF WorkSound, L!InService
        <5> QED
          BY <3>3, <4>1, <5>1, <5>2 DEF L!Service
      <4>2. CASE works[v].kind \notin {"direct", "names"} /\ works[v].pc \in L!InService
        <5>1. works'[v] = [works[v] EXCEPT !.kind = "direct", !.left = {}, !.geo = L!Nowhere]
          BY <3>3, <4>2 DEF L!CoreRestarts
        <5>2. works'[v].pc = works[v].pc
          BY <1>0, <5>1 DEF Works
        <5> QED
          BY <2>5, <4>2, <5>2 DEF L!InService
      <4>3. CASE works[v].kind \notin {"direct", "names"} /\ works[v].pc \notin L!InService
        BY <2>5, <3>1, <3>3, <4>3 DEF L!CoreRestarts
      <4> QED
        BY <4>1, <4>2, <4>3
    <3> QED
      BY <2>3, <3>2, <3>3
  <2>6. ASSUME NEW v \in Workers, works'[v].pc = "ask"
        PROVE  /\ geocoding'[L!Service(v)'].holder = v
               /\ asked'[L!Service(v)'][works'[v].place] = 0
    <3>1. works'[v] = works[v] /\ L!Service(v) # s /\ L!Service(v)' = L!Service(v) /\ L!Service(v) \in L!Services
      BY <2>5, <2>6 DEF L!Service, L!Services
    <3>2. geocoding[L!Service(v)].holder = v /\ asked[L!Service(v)][works[v].place] = 0
      BY <2>6, <3>1 DEF OnceAsked
    <3> QED
      BY <2>1, <2>4, <3>1, <3>2
  <2>7. OnceAsked'
    BY <2>1, <2>6 DEF OnceAsked
  <2> QED
    BY <1>0, <2>1, <2>2, <2>4, <2>7 DEF LocationsTyped
<1>5. ASSUME NEW w \in Workers, NEW v \in Workers, L!GiveUpInBatch(w, v)
      PROVE  LocationsTyped' /\ OnceAsked'
  <2>1. LocationsTyped'
    BY <1>0, <1>5, HandedOver DEF LocationsTyped
  <2>2. ASSUME NEW x \in Workers, works'[x].pc = "ask"
        PROVE  /\ geocoding'[L!Service(x)'].holder = x
               /\ asked'[L!Service(x)'][works'[x].place] = 0
    <3>1. works'[x] = works[x]
      BY <1>5, <2>2, HandedOver DEF L!InService
    <3>2. L!Service(x)' = L!Service(x)
      BY <3>1 DEF L!Service
    <3> QED
      BY <1>5, <2>2, <3>1, <3>2, HandedOver DEF OnceAsked
  <2>3. OnceAsked'
    BY <1>5, <2>2, HandedOver DEF OnceAsked
  <2> QED
    BY <2>1, <2>3
<1> QED
  BY <1>1, <1>2, <1>3, <1>4, <1>5 DEF L!LocationsNext

\* What a task goes on with.
GoesOn(w) ==
    /\ works'[w].pc \in {"write", "restore"} =>
          \/ L!Backup(w) \/ L!StripTags(w)
          \/ /\ works'[w].pc = works[w].pc /\ works'[w].photo = works[w].photo
             /\ works'[w].second = works[w].second
          \/ \E u \in Workers : L!GiveUpInBatch(u, w)
    /\ RecordsPlace(w)' =>
          /\ L!WriteTags(w) \/ L!RestoreTags(w) \/ RecordsPlace(w)
          /\ works'[w].photo = works[w].photo /\ works'[w].place = works[w].place
    /\ ReadsPlace(w)' =>
          /\ works'[w].photo = works[w].photo /\ works[w].kind = "extract"
          /\ \/ works'[w].place = image[works[w].photo].place
             \/ ReadsPlace(w) /\ works'[w].place = works[w].place
    /\ Geo(w) => Geo(w)'
    /\ works[w].kind = "extract" =>
          \/ works'[w].kind = "extract" /\ works'[w].photo = works[w].photo
          \/ works'[w].pc = "idle"

\* A task's step is one of its own, and leaves the others alone.
LEMMA TaskStep ==
    ASSUME LocationsTyped, NEW w \in Workers, L!WorkNext(w)
    PROVE  GoesOn(w)
<1> DEFINE t == works[w]
           u == works'[w]
<1>1. works \in [Workers -> Works] /\ t \in Works /\ WorkSound(t) /\ u \in Works
  BY TaskTyped, TasksStep
<1>2. /\ t.pc \in {"idle", "next", "extract", "backup", "write", "restore", "resolve", "lock", "ask", "save"}
      /\ t.kind \in {"none", "update", "batch", "direct", "extract", "names"}
  BY <1>1 DEF Works
<1>3. L!NoWork.pc = "idle" /\ L!NoWork.kind = "none"
  BY DEF L!NoWork
<1>n. ASSUME u = L!NoWork
      PROVE  GoesOn(w)
  BY <1>3, <1>n DEF GoesOn, RecordsPlace, ReadsPlace, Geo, KnowsGeo, L!InService
<1>4. CASE L!NextOfBatch(w)
  <2>1. CASE t.left = {}
    BY <1>1, <1>4, <1>n, <2>1 DEF L!NextOfBatch
  <2>2. CASE t.left # {}
    <3>1. PICK p \in t.left :
            works' = [works EXCEPT ![w].left = @ \ {p}, ![w].photo = p, ![w].hasRow = refs[p] # L!NoRow,
                                   ![w].pc = IF refs[p] \in Places THEN "next" ELSE "backup"]
      BY <1>4, <2>2 DEF L!NextOfBatch
    <3>2. /\ u.kind = t.kind /\ u.place = t.place /\ u.geo = t.geo /\ u.pc \in {"next", "backup"}
          /\ t.kind = "batch" /\ t.pc = "next"
      <4>1. /\ u.kind = t.kind /\ u.place = t.place /\ u.geo = t.geo /\ u.pc \in {"next", "backup"}
        BY <1>1, <3>1 DEF Works
      <4>2. t.pc = "next"
        BY <1>4 DEF L!NextOfBatch
      <4>3. t.kind = "batch"
        BY <1>1, <1>2, <4>2 DEF WorkSound, Geocoding, L!InService
      <4> QED
        BY <4>1, <4>2, <4>3
    <3> QED
      BY <3>2 DEF GoesOn, RecordsPlace, ReadsPlace, Geo, KnowsGeo, L!InService, Geocoding
  <2> QED
    BY <2>1, <2>2
<1>5. CASE L!Backup(w)
  <2>1. /\ u.pc = "write" /\ u.kind = t.kind /\ u.place = t.place /\ u.geo = t.geo /\ u.photo = t.photo
        /\ t.pc = "backup" /\ t.kind # "extract"
    BY <1>1, <1>5 DEF L!Backup, Works, WorkSound, Geocoding
  <2> QED
    BY <1>5, <2>1 DEF GoesOn, RecordsPlace, ReadsPlace, Geo, KnowsGeo, L!InService, Geocoding
<1>6. CASE L!StripTags(w)
  <2>1. /\ u.pc = "restore" /\ u.kind = t.kind /\ u.place = t.place /\ u.geo = t.geo /\ u.photo = t.photo
        /\ t.pc = "write" /\ t.kind # "extract"
    BY <1>1, <1>6 DEF L!StripTags, L!GoTo, Works, WorkSound, Geocoding
  <2> QED
    BY <1>6, <2>1 DEF GoesOn, RecordsPlace, ReadsPlace, Geo, KnowsGeo, L!InService, Geocoding
<1>7. CASE L!WriteTags(w) \/ L!RestoreTags(w)
  <2>1. u = L!AfterWrite(w) /\ t.pc \in {"write", "restore"}
    BY <1>1, <1>7 DEF L!WriteTags, L!RestoreTags
  <2>2. CASE t.kind = "update"
    <3>1. u.pc = "resolve" /\ u.kind = "update" /\ u.photo = t.photo /\ u.place = t.place
      BY <1>1, <2>1, <2>2 DEF L!AfterWrite, Works
    <3> QED
      BY <1>7, <2>2, <3>1 DEF GoesOn, RecordsPlace, ReadsPlace, Geo, KnowsGeo, L!InService, Geocoding
  <2>3. CASE t.kind = "batch"
    <3>1. u.pc = "save" /\ u.kind = "batch" /\ u.photo = t.photo /\ u.place = t.place /\ u.geo = t.geo
      BY <1>1, <2>1, <2>3 DEF L!AfterWrite, Works
    <3> QED
      BY <1>7, <2>1, <2>3, <3>1 DEF GoesOn, RecordsPlace, ReadsPlace, Geo, KnowsGeo, L!InService, Geocoding
  <2>4. CASE t.kind \notin {"update", "batch"}
    BY <1>n, <2>1, <2>4 DEF L!AfterWrite
  <2> QED
    BY <2>2, <2>3, <2>4
<1>8. CASE L!WriteFails(w) \/ L!SaveRequest(w)
  <2>1. u = L!AfterFailure(w) /\ t.pc \in L!InService \cup {"save"}
    BY <1>1, <1>8 DEF L!WriteFails, L!SaveRequest
  <2>2. CASE t.kind = "batch"
    <3>1. u.pc = "next" /\ u.kind = "batch" /\ u.place = t.place /\ u.geo = t.geo
      BY <1>1, <2>1, <2>2 DEF L!AfterFailure, Works
    <3> QED
      BY <2>1, <2>2, <3>1 DEF GoesOn, RecordsPlace, ReadsPlace, Geo, KnowsGeo, L!InService, Geocoding
  <2>3. CASE t.kind # "batch"
    BY <1>n, <2>1, <2>3 DEF L!AfterFailure
  <2> QED
    BY <2>2, <2>3
<1>9. CASE L!GiveUp(w)
  <2>1. /\ u.pc = t.pc /\ u.kind = "direct" /\ u.place = t.place /\ u.geo = t.geo /\ u.photo = t.photo
        /\ u.second = t.second /\ t.pc \in L!InService /\ t.kind = "update"
    BY <1>1, <1>9 DEF L!GiveUp, Works
  <2> QED
    BY <2>1 DEF GoesOn, RecordsPlace, ReadsPlace, Geo, KnowsGeo, L!InService, Geocoding
<1>10. CASE L!Extract(w)
  <2>1. t.pc = "extract" /\ t.kind = "extract" /\ t.place = L!Nowhere /\ t.geo = L!Nowhere
    BY <1>1, <1>2, <1>10 DEF L!Extract, WorkSound, Geocoding, L!InService
  <2>2. CASE image[t.photo].place = L!Nowhere
    <3>1. u.pc = "save" /\ u.kind = t.kind /\ u.place = t.place /\ u.geo = t.geo /\ u.photo = t.photo
      BY <1>1, <1>10, <2>2 DEF L!Extract, Works
    <3> QED
      BY <2>1, <2>2, <3>1 DEF GoesOn, RecordsPlace, ReadsPlace, Geo, KnowsGeo, L!InService, Geocoding
  <2>3. CASE image[t.photo].place # L!Nowhere
    <3>1. u.pc = "resolve" /\ u.kind = t.kind /\ u.place = image[t.photo].place /\ u.photo = t.photo
      BY <1>1, <1>10, <2>3 DEF L!Extract, Works
    <3> QED
      BY <2>1, <2>3, <3>1 DEF GoesOn, RecordsPlace, ReadsPlace, Geo, KnowsGeo, L!InService, Geocoding
  <2> QED
    BY <2>2, <2>3
<1>11. CASE L!ExtractFails(w) \/ L!SaveExtracted(w)
  BY <1>1, <1>11, <1>n DEF L!ExtractFails, L!SaveExtracted
<1>a. ASSUME t.pc \in Geocoding, NEW pc \in Geocoding, works' = [works EXCEPT ![w].pc = pc]
      PROVE  GoesOn(w)
  <2>1. u.pc = pc /\ u.kind = t.kind /\ u.place = t.place /\ u.geo = t.geo /\ u.photo = t.photo
    BY <1>1, <1>a DEF Works
  <2> QED
    BY <1>a, <2>1 DEF GoesOn, RecordsPlace, ReadsPlace, Geo, KnowsGeo, L!InService, Geocoding
<1>b. ASSUME t.pc \in Geocoding, NEW geo \in {t.place, L!Nowhere}, u = L!AfterResolve(w, geo)
      PROVE  GoesOn(w)
  <2>1. CASE t.kind = "names"
    BY <1>b, <1>n, <2>1 DEF L!AfterResolve
  <2>2. CASE t.kind = "batch"
    <3>1. u.pc = "next" /\ u.kind = "batch" /\ u.place = t.place /\ u.geo = geo
      BY <1>1, <1>b, <2>2 DEF L!AfterResolve, Works
    <3> QED
      BY <1>b, <2>2, <3>1 DEF GoesOn, RecordsPlace, ReadsPlace, Geo, KnowsGeo, L!InService, Geocoding
  <2>3. CASE t.kind \notin {"names", "batch"}
    <3>1. u.pc = "save" /\ u.kind = t.kind /\ u.place = t.place /\ u.geo = geo /\ u.photo = t.photo
      BY <1>1, <1>b, <2>3 DEF L!AfterResolve, Works
    <3> QED
      BY <1>b, <2>3, <3>1 DEF GoesOn, RecordsPlace, ReadsPlace, Geo, KnowsGeo, L!InService, Geocoding
  <2> QED
    BY <2>1, <2>2, <2>3
<1>12. CASE L!LookUp(w) \/ L!LockGeocoder(w)
  BY <1>1, <1>12, <1>a, <1>b DEF L!LookUp, L!LockGeocoder, L!Resolved, L!GoTo, Geocoding
<1>13. CASE L!ReverseGeocode(w)
  BY <1>1, <1>13, <1>b DEF L!ReverseGeocode, L!Resolved, Geocoding
<1>c. ASSUME t.pc = "idle",
             \/ u.kind = "extract" /\ u.pc = "extract"
             \/ u.kind \in {"names", "batch"} /\ u.pc = "resolve"
             \/ u.kind \in {"update", "direct"} /\ u.pc = "backup"
      PROVE  GoesOn(w)
  <2>1. t.kind = "none"
    BY <1>1, <1>3, <1>c DEF WorkSound
  <2> QED
    BY <1>c, <2>1 DEF GoesOn, RecordsPlace, ReadsPlace, Geo, KnowsGeo, L!InService, Geocoding
<1>14. CASE \E p \in Photos : L!Index(w, p)
  <2>1. t.pc = "idle" /\ u.kind = "extract" /\ u.pc = "extract"
    BY <1>1, <1>14 DEF L!Index, L!Begin, L!NoWork
  <2> QED
    BY <1>c, <2>1
<1>15. CASE \E c \in Places : L!AskNames(w, c) \/ \E S \in SUBSET Photos \ {{}} : L!BatchUpdate(w, S, c)
  <2>1. t.pc = "idle" /\ u.kind \in {"names", "batch"} /\ u.pc = "resolve"
    BY <1>1, <1>15 DEF L!AskNames, L!BatchUpdate, L!Begin, L!NoWork
  <2> QED
    BY <1>c, <2>1
<1>16. CASE \E c \in Places, p \in Photos : L!Update(w, p, c) \/ L!WriteDirectly(w, p, c)
  <2>1. t.pc = "idle" /\ u.kind \in {"update", "direct"} /\ u.pc = "backup"
    BY <1>1, <1>16 DEF L!Update, L!WriteDirectly, L!Begin, L!NoWork
  <2> QED
    BY <1>c, <2>1
<1> QED
  BY <1>4, <1>5, <1>6, <1>7, <1>8, <1>9, <1>10, <1>11, <1>12, <1>13, <1>14,
     <1>15, <1>16 DEF L!WorkNext

\* Every task goes on, stays where it is, or ends with its service.
LEMMA TasksGoOn ==
    ASSUME LocationsTyped, L!LocationsNext, NEW v \in Workers
    PROVE  GoesOn(v)
<1> DEFINE t == works[v]
           u == works'[v]
<1>1. works \in [Workers -> Works] /\ t \in Works /\ WorkSound(t)
  BY TaskTyped
<1>s. ASSUME u = t
      PROVE  GoesOn(v)
  <2>1. /\ RecordsPlace(v)' <=> RecordsPlace(v)
        /\ ReadsPlace(v)' <=> ReadsPlace(v)
        /\ Geo(v)' <=> Geo(v)
    BY <1>s DEF RecordsPlace, ReadsPlace, Geo, KnowsGeo
  <2>2. ReadsPlace(v) => t.kind = "extract"
    BY DEF ReadsPlace
  <2> QED
    BY <1>s, <2>1, <2>2 DEF GoesOn
<1>n. ASSUME u = L!NoWork
      PROVE  GoesOn(v)
  BY <1>n DEF GoesOn, RecordsPlace, ReadsPlace, Geo, KnowsGeo, L!InService, L!NoWork
<1>2. ASSUME NEW w \in Workers, L!WorkNext(w)
      PROVE  GoesOn(v)
  BY <1>2, <1>s, TaskStep, TasksStep
<1>3. CASE L!Tick \/ \E p \in Photos, c \in Places \cup {L!Nowhere} : L!Edit(p, c)
  BY <1>3, <1>s DEF L!Tick, L!Edit
<1>4. CASE L!ExifRestarts
  <2>1. CASE t.pc \in L!InService /\ t.kind = "batch"
    <3>1. u = L!AfterFailure(v)
      BY <1>4, <2>1 DEF L!ExifRestarts
    <3>2. u.pc = "next" /\ u.kind = "batch" /\ u.place = t.place /\ u.geo = t.geo
      BY <1>1, <2>1, <3>1 DEF L!AfterFailure, Works
    <3> QED
      BY <2>1, <3>2 DEF GoesOn, RecordsPlace, ReadsPlace, Geo, KnowsGeo, L!InService, Geocoding
  <2>2. CASE ~(t.pc \in L!InService /\ t.kind = "batch")
    BY <1>4, <1>s, <1>n, <2>2 DEF L!ExifRestarts, L!AfterFailure
  <2> QED
    BY <2>1, <2>2
<1>5. CASE L!CoreRestarts
  <2>1. CASE t.pc \in L!InService /\ t.kind \notin {"direct", "names"}
    <3>1. u = [t EXCEPT !.kind = "direct", !.left = {}, !.geo = L!Nowhere]
      BY <1>5, <2>1 DEF L!CoreRestarts
    <3>2. u.pc = t.pc /\ u.kind = "direct" /\ u.photo = t.photo /\ u.second = t.second
      BY <1>1, <3>1 DEF Works
    <3>3. t.kind # "extract"
      BY <1>1, <2>1 DEF WorkSound, L!InService, Geocoding
    <3> QED
      BY <2>1, <3>2, <3>3 DEF GoesOn, RecordsPlace, ReadsPlace, Geo, KnowsGeo, L!InService, Geocoding
  <2>2. CASE ~(t.pc \in L!InService /\ t.kind \notin {"direct", "names"})
    BY <1>5, <1>s, <1>n, <2>2 DEF L!CoreRestarts
  <2> QED
    BY <2>1, <2>2
<1>6. ASSUME NEW w \in Workers, NEW x \in Workers, L!GiveUpInBatch(w, x)
      PROVE  GoesOn(v)
  <2>1. CASE v \notin {w, x}
    BY <1>6, <1>s, <2>1, HandedOver
  <2>2. CASE v = w
    <3>1. /\ u.pc = "next" /\ u.kind = "batch" /\ u.place = t.place /\ u.geo = t.geo /\ t.kind = "batch"
      BY <1>6, <2>2, HandedOver
    <3>2. t.pc \in L!InService
      BY <1>6, <2>2, HandedOver
    <3> QED
      BY <3>1, <3>2 DEF GoesOn, RecordsPlace, ReadsPlace, Geo, KnowsGeo, L!InService, Geocoding
  <2>3. CASE v = x
    <3>1. u.pc \in L!InService /\ u.kind = "direct" /\ t.kind = "none"
      BY <1>6, <2>3, HandedOver
    <3>2. \E z \in Workers : L!GiveUpInBatch(z, v)
      BY <1>6, <2>3
    <3> QED
      BY <3>1, <3>2 DEF GoesOn, RecordsPlace, ReadsPlace, Geo, KnowsGeo, L!InService, Geocoding
  <2> QED
    BY <2>1, <2>2, <2>3
<1> QED
  BY <1>2, <1>3, <1>4, <1>5, <1>6 DEF L!LocationsNext

\* Only a task that makes a backup does.
LEMMA BackupsChange ==
    ASSUME L!LocationsNext
    PROVE  backups' = backups \/ \E w \in Workers : L!Backup(w)
<1>1. ASSUME NEW w \in Workers,
             L!NextOfBatch(w) \/ L!WriteTags(w) \/ L!StripTags(w) \/ L!RestoreTags(w)
             \/ L!WriteFails(w) \/ L!GiveUp(w) \/ L!Extract(w) \/ L!ExtractFails(w)
      PROVE  backups' = backups
  BY <1>1 DEF L!NextOfBatch, L!WriteTags, L!StripTags, L!RestoreTags, L!WriteFails, L!GiveUp, L!Extract, L!ExtractFails
<1>2. ASSUME NEW w \in Workers,
             L!LookUp(w) \/ L!LockGeocoder(w) \/ L!ReverseGeocode(w) \/ L!SaveRequest(w) \/ L!SaveExtracted(w)
      PROVE  backups' = backups
  BY <1>2 DEF L!LookUp, L!LockGeocoder, L!ReverseGeocode, L!SaveRequest, L!SaveExtracted
<1>3. ASSUME NEW w \in Workers,
             \/ \E p \in Photos : L!Index(w, p)
             \/ \E c \in Places :
                   \/ L!AskNames(w, c)
                   \/ \E p \in Photos : L!Update(w, p, c) \/ L!WriteDirectly(w, p, c)
                   \/ \E S \in SUBSET Photos \ {{}} : L!BatchUpdate(w, S, c)
      PROVE  backups' = backups
  BY <1>3 DEF L!Index, L!AskNames, L!Update, L!WriteDirectly, L!BatchUpdate
<1>4. ASSUME \/ \E p \in Photos, c \in Places \cup {L!Nowhere} : L!Edit(p, c)
             \/ L!Tick \/ L!ExifRestarts \/ L!CoreRestarts
      PROVE  backups' = backups
  BY <1>4 DEF L!Edit, L!Tick, L!ExifRestarts, L!CoreRestarts
<1>5. ASSUME NEW w \in Workers, NEW v \in Workers, L!GiveUpInBatch(w, v)
      PROVE  backups' = backups
  BY <1>5 DEF L!GiveUpInBatch
<1> QED
  BY <1>1, <1>2, <1>3, <1>4, <1>5 DEF L!LocationsNext, L!WorkNext

\* Who writes a file's tags and its place, and a row.
LEMMA FilesChange ==
    ASSUME LocationsTyped, L!LocationsNext, NEW p \in Photos
    PROVE  /\ image'[p].tags = image[p].tags
              \/ \E w \in Workers : works[w].photo = p /\ (L!StripTags(w) \/ L!RestoreTags(w))
           /\ \/ image'[p].place = image[p].place
              \/ \E c \in Places \cup {L!Nowhere} : L!Edit(p, c)
              \/ \E w \in Workers : works[w].photo = p /\ (L!WriteTags(w) \/ L!StripTags(w) \/ L!RestoreTags(w))
           /\ image'[p].place = image[p].place \/ ~known'[p]
           /\ known'[p] => known[p] \/ \E w \in Workers : L!Index(w, p)
           /\ refs'[p] = refs[p]
              \/ \E w \in Workers : works[w].photo = p /\ (L!SaveRequest(w) \/ L!SaveExtracted(w))
<1>1. /\ image \in [Photos -> [tags : Photos \cup {L!NoTags}, place : Places \cup {L!Nowhere}]]
      /\ known \in [Photos -> BOOLEAN]
      /\ refs \in [Photos -> Places \cup {L!Nowhere, L!NoRow}]
  BY DEF LocationsTyped
<1>2. ASSUME NEW w \in Workers, L!WriteTags(w) \/ L!StripTags(w) \/ L!RestoreTags(w)
      PROVE  /\ UNCHANGED <<backups, refs>>
             /\ \/ works[w].photo # p /\ image'[p] = image[p] /\ known'[p] = known[p]
                \/ works[w].photo = p /\ ~known'[p] /\ (L!WriteTags(w) => image'[p].tags = image[p].tags)
  <2>1. UNCHANGED <<backups, refs>>
    BY <1>2 DEF L!WriteTags, L!StripTags, L!RestoreTags
  <2>2. \E tags, place : L!Wrote(w, tags, place) /\ (L!WriteTags(w) => tags = image[works[w].photo].tags)
    <3>1. CASE L!WriteTags(w)
      BY <3>1 DEF L!WriteTags
    <3>2. CASE ~L!WriteTags(w)
      BY <1>2, <3>2 DEF L!StripTags, L!RestoreTags
    <3> QED
      BY <3>1, <3>2
  <2>3. PICK tags, place : L!Wrote(w, tags, place) /\ (L!WriteTags(w) => tags = image[works[w].photo].tags)
    BY <2>2
  <2>4. CASE works[w].photo # p
    BY <1>1, <2>1, <2>3, <2>4 DEF L!Wrote
  <2>5. CASE works[w].photo = p
    BY <1>1, <2>1, <2>3, <2>5 DEF L!Wrote
  <2> QED
    BY <2>4, <2>5
<1>3. ASSUME NEW w \in Workers, L!SaveRequest(w) \/ L!SaveExtracted(w)
      PROVE  UNCHANGED <<image, backups, known>> /\ (works[w].photo # p => refs'[p] = refs[p])
  BY <1>1, <1>3 DEF L!SaveRequest, L!SaveExtracted
<1>4. ASSUME NEW w \in Workers, NEW q \in Photos, L!Index(w, q)
      PROVE  UNCHANGED <<image, backups, refs>> /\ (q # p => known'[p] = known[p])
  BY <1>1, <1>4 DEF L!Index
<1>5. ASSUME NEW q \in Photos, NEW c, L!Edit(q, c)
      PROVE  /\ UNCHANGED <<backups, refs>> /\ image'[p].tags = image[p].tags
             /\ q # p => image'[p] = image[p] /\ known'[p] = known[p]
             /\ q = p => ~known'[p]
  <2>1. UNCHANGED <<backups, refs>>
    BY <1>5 DEF L!Edit
  <2>2. CASE q = p
    BY <1>1, <1>5, <2>1, <2>2 DEF L!Edit
  <2>3. CASE q # p
    BY <1>1, <1>5, <2>1, <2>3 DEF L!Edit
  <2> QED
    BY <2>2, <2>3
<1>6. CASE L!Tick \/ L!ExifRestarts \/ L!CoreRestarts
  BY <1>6 DEF L!Tick, L!ExifRestarts, L!CoreRestarts
<1>16. CASE \E w, v \in Workers : L!GiveUpInBatch(w, v)
  BY <1>16 DEF L!GiveUpInBatch
<1>7. ASSUME NEW w \in Workers,
             \/ L!NextOfBatch(w) \/ L!WriteFails(w) \/ L!GiveUp(w) \/ L!Extract(w)
             \/ L!ExtractFails(w) \/ L!LookUp(w) \/ L!LockGeocoder(w) \/ L!ReverseGeocode(w)
             \/ \E c \in Places :
                   \/ L!AskNames(w, c)
                   \/ \E q \in Photos : L!Update(w, q, c) \/ L!WriteDirectly(w, q, c)
                   \/ \E S \in SUBSET Photos \ {{}} : L!BatchUpdate(w, S, c)
      PROVE  UNCHANGED <<image, backups, known, refs>>
  BY <1>7 DEF L!NextOfBatch, L!WriteFails, L!GiveUp, L!Extract, L!ExtractFails, L!LookUp,
              L!LockGeocoder, L!ReverseGeocode, L!AskNames, L!Update, L!WriteDirectly, L!BatchUpdate
<1>8. ASSUME NEW w \in Workers, L!Backup(w)
      PROVE  UNCHANGED <<image, known, refs>>
  BY <1>8 DEF L!Backup
<1>9. ASSUME NEW w \in Workers, L!WorkNext(w)
      PROVE  \/ L!WriteTags(w) \/ L!StripTags(w) \/ L!RestoreTags(w)
             \/ L!SaveRequest(w) \/ L!SaveExtracted(w)
             \/ \E q \in Photos : L!Index(w, q)
             \/ UNCHANGED <<image, backups, known, refs>>
             \/ L!Backup(w)
  BY <1>7, <1>9 DEF L!WorkNext
<1>10. CASE \E w \in Workers : L!WriteTags(w) \/ L!StripTags(w) \/ L!RestoreTags(w)
  BY <1>2, <1>10
<1>11. CASE \E w \in Workers : L!SaveRequest(w) \/ L!SaveExtracted(w)
  BY <1>3, <1>11
<1>12. CASE \E w \in Workers : \E q \in Photos : L!Index(w, q)
  BY <1>4, <1>12
<1>13. CASE UNCHANGED <<image, backups, known, refs>>
  BY <1>13
<1>14. CASE \E w \in Workers : L!Backup(w)
  BY <1>8, <1>14
<1>15. CASE \E q \in Photos, c \in Places \cup {L!Nowhere} : L!Edit(q, c)
  BY <1>5, <1>15
<1> QED
  BY <1>6, <1>9, <1>10, <1>11, <1>12, <1>13, <1>14, <1>15, <1>16 DEF L!LocationsNext

OneWriter == \A p \in Photos : \A v, w \in L!Writers(p) : v = w
OneExtractor == \A p \in Photos : \A v, w \in L!Extractors(p) : v = w

\* A task that writes a photo's file or is going to record its place is its writer.
LEMMA WritersWrite ==
    ASSUME LocationsTyped, NEW w \in Workers, works[w].pc \in L!InService \/ RecordsPlace(w)
    PROVE  works[w].photo \in Photos /\ w \in L!Writers(works[w].photo)
<1>1. works[w] \in Works /\ WorkSound(works[w])
  BY TaskTyped
<1>2. works[w].kind \in {"none", "update", "batch", "direct", "extract", "names"}
  BY <1>1 DEF Works
<1>3. works[w].photo \in Photos
  BY <1>1 DEF RecordsPlace, WorkSound, L!InService
<1>4. works[w].pc \notin {"idle", "next"} /\ works[w].kind \in {"update", "batch", "direct"}
  BY <1>1, <1>2 DEF RecordsPlace, WorkSound, L!InService, Geocoding
<1> QED
  BY <1>3, <1>4 DEF L!Writers

\* Tags stay in a file or in a backup.
LEMMA WritesStep ==
    ASSUME LocationsTyped, \A p \in Photos : TagsHeld(p), \A w \in Workers : BackupHeld(w),
           OneWriter, L!LocationsNext, L!OneBackupPerSecond
    PROVE  (\A p \in Photos : TagsHeld(p)') /\ (\A v \in Workers : BackupHeld(v)')
<1>1. works \in [Workers -> Works]
  BY TaskTyped DEF LocationsTyped
<1>2. \A b \in DOMAIN backups : b \in DOMAIN backups' /\ backups'[b] = backups[b]
  <2>1. CASE backups' = backups
    BY <2>1
  <2>2. ASSUME NEW w \in Workers, L!Backup(w)
        PROVE  \A b \in DOMAIN backups : b \in DOMAIN backups' /\ backups'[b] = backups[b]
    <3> DEFINE new == L!BackupOf(works[w].photo)
    <3>1. new \notin DOMAIN backups
      BY <2>2 DEF L!OneBackupPerSecond
    <3>2. backups' = [b \in DOMAIN backups \cup {new} |->
                        IF b = new THEN image[works[w].photo].tags ELSE backups[b]]
      BY <2>2 DEF L!Backup
    <3> HIDE DEF new
    <3> QED
      BY <3>1, <3>2
  <2> QED
    BY <2>1, <2>2, BackupsChange
<1>3. ASSUME NEW p \in Photos, SavedFor(p)
      PROVE  SavedFor(p)'
  BY <1>2, <1>3 DEF SavedFor
<1>4. ASSUME NEW v \in Workers, L!RestoreTags(v)
      PROVE  /\ works[v].photo \in Photos /\ v \in L!Writers(works[v].photo)
             /\ image'[works[v].photo].tags = backups[<<"name", works[v].second>>]
             /\ works'[v].pc \notin {"write", "restore"}
  <2>1. works[v].pc = "restore"
    BY <1>4 DEF L!RestoreTags
  <2>2. works[v].photo \in Photos /\ v \in L!Writers(works[v].photo)
    BY <2>1, WritersWrite DEF L!InService
  <2>3. image'[works[v].photo].tags = backups[<<"name", works[v].second>>]
    BY <1>4, <2>2 DEF L!RestoreTags, L!Wrote, LocationsTyped
  <2>4. works'[v] = L!AfterWrite(v)
    BY <1>1, <1>4 DEF L!RestoreTags
  <2>5. L!AfterWrite(v).pc \in {"resolve", "save", "idle"}
    BY TaskTyped DEF L!AfterWrite, L!NoWork, Works
  <2> QED
    BY <2>2, <2>3, <2>4, <2>5
<1>5. ASSUME NEW v \in Workers, L!StripTags(v)
      PROVE  /\ works[v].photo \in Photos /\ v \in L!Writers(works[v].photo)
             /\ image'[works[v].photo].tags = L!NoTags
             /\ works[v].pc = "write" /\ works'[v].pc = "restore"
             /\ works'[v].photo = works[v].photo /\ works'[v].second = works[v].second
  <2>1. works[v].pc = "write"
    BY <1>5 DEF L!StripTags
  <2>2. works[v].photo \in Photos /\ v \in L!Writers(works[v].photo)
    BY <2>1, WritersWrite DEF L!InService
  <2>3. image'[works[v].photo].tags = L!NoTags
    BY <1>5, <2>2 DEF L!StripTags, L!Wrote, LocationsTyped
  <2>4. works[v] \in Works /\ works' = [works EXCEPT ![v].pc = "restore"]
    BY <1>5, TaskTyped DEF L!StripTags, L!GoTo
  <2>5. /\ works'[v].pc = "restore" /\ works'[v].photo = works[v].photo
        /\ works'[v].second = works[v].second
    BY <1>1, <2>4 DEF Works
  <2> QED
    BY <2>1, <2>2, <2>3, <2>5
<1>6. ASSUME NEW p \in Photos
      PROVE  TagsHeld(p)'
  <2>1. CASE image'[p].tags = image[p].tags
    BY <1>3, <2>1 DEF TagsHeld
  <2>2. ASSUME NEW w \in Workers, works[w].photo = p, L!StripTags(w)
        PROVE  TagsHeld(p)'
    <3>1. <<"name", works[w].second>> \in DOMAIN backups /\ backups[<<"name", works[w].second>>] = image[p].tags
      BY <1>5, <2>2 DEF BackupHeld
    <3>2. SavedFor(p)
      BY <3>1 DEF TagsHeld, SavedFor
    <3> QED
      BY <1>3, <1>5, <2>2, <3>2 DEF TagsHeld
  <2>3. ASSUME NEW w \in Workers, works[w].photo = p, L!RestoreTags(w)
        PROVE  TagsHeld(p)'
    <3>1. works[w].pc = "restore"
      BY <2>3 DEF L!RestoreTags
    <3>2. image'[p].tags \in {p, L!NoTags} /\ image[p].tags = L!NoTags
      BY <1>4, <2>3, <3>1 DEF BackupHeld
    <3> QED
      BY <1>3, <3>2 DEF TagsHeld
  <2> QED
    BY <2>1, <2>2, <2>3, FilesChange
<1>7. ASSUME NEW v \in Workers
      PROVE  BackupHeld(v)'
  <2> DEFINE p == works[v].photo
             b == <<"name", works[v].second>>
  <2> SUFFICES ASSUME works'[v].pc \in {"write", "restore"}
               PROVE  BackupHeld(v)'
    BY DEF BackupHeld
  <2>1. CASE L!Backup(v)
    <3>1. works[v].pc = "backup" /\ works[v] \in Works
      BY <2>1, TaskTyped DEF L!Backup
    <3>2. p \in Photos
      BY <3>1, WritersWrite DEF L!InService
    <3>3. works'[v].pc = "write" /\ works'[v].photo = p /\ works'[v].second = now /\ image' = image
      BY <1>1, <2>1, <3>1 DEF L!Backup, Works
    <3>4. <<"name", now>> \in DOMAIN backups' /\ backups'[<<"name", now>>] = image[p].tags
      BY <2>1, <3>2 DEF L!Backup, L!BackupOf
    <3> QED
      BY <3>3, <3>4 DEF BackupHeld
  <2>2. CASE L!StripTags(v)
    <3>1. b \in DOMAIN backups /\ backups[b] = image[p].tags
      BY <1>5, <2>2 DEF BackupHeld
    <3>2. backups[b] \in {p, L!NoTags}
      BY <1>5, <2>2, <3>1 DEF TagsHeld
    <3> QED
      BY <1>2, <1>5, <2>2, <3>1, <3>2 DEF BackupHeld
  <2>4. ASSUME NEW u \in Workers, L!GiveUpInBatch(u, v)
        PROVE  BackupHeld(v)'
    <3>1. /\ image' = image /\ backups' = backups
          /\ works'[v].pc = works[u].pc /\ works'[v].photo = works[u].photo
          /\ works'[v].second = works[u].second
      BY <2>4, HandedOver
    <3>2. BackupHeld(u)
      OBVIOUS
    <3> QED
      BY <3>1, <3>2 DEF BackupHeld
  <2>3. CASE ~L!Backup(v) /\ ~L!StripTags(v) /\ ~\E u \in Workers : L!GiveUpInBatch(u, v)
    <3>1. works'[v].pc = works[v].pc /\ works'[v].photo = p /\ works'[v].second = works[v].second
      BY <2>3, TasksGoOn DEF GoesOn
    <3>2. p \in Photos /\ v \in L!Writers(p)
      BY <3>1, WritersWrite DEF L!InService
    <3>3. image'[p].tags = image[p].tags
      <4> SUFFICES ASSUME NEW w \in Workers, works[w].photo = p, L!StripTags(w) \/ L!RestoreTags(w)
                   PROVE  FALSE
        BY <3>2, FilesChange
      <4>1. v = w
        BY <1>4, <1>5, <3>2 DEF OneWriter
      <4> QED
        BY <1>4, <2>3, <4>1
    <3> QED
      BY <1>2, <3>1, <3>3 DEF BackupHeld
  <2> QED
    BY <2>1, <2>2, <2>3, <2>4
<1> QED
  BY <1>6, <1>7

\* What a task is going to record is what the file says.
LEMMA PlacesStep ==
    ASSUME LocationsTyped, OneWriter, OneExtractor', L!LocationsNext, L!Serial,
           \A w \in Workers : WrittenPlace(w) /\ ReadPlace(w) /\ Geo(w),
           NEW v \in Workers
    PROVE  WrittenPlace(v)' /\ ReadPlace(v)' /\ Geo(v)'
<1> DEFINE p == works[v].photo
<1>0. GoesOn(v)
  BY TasksGoOn
<1>1. WrittenPlace(v)'
  <2> SUFFICES ASSUME RecordsPlace(v)'
               PROVE  works'[v].place = image'[works'[v].photo].place
    BY DEF WrittenPlace
  <2>1. works'[v].photo = p /\ works'[v].place = works[v].place
    BY <1>0 DEF GoesOn
  <2>2. CASE L!WriteTags(v) \/ L!RestoreTags(v)
    <3>1. works[v].pc \in L!InService
      BY <2>2 DEF L!WriteTags, L!RestoreTags, L!InService
    <3>2. p \in Photos
      BY <3>1, WritersWrite
    <3>3. image'[p].place = works[v].place
      BY <2>2, <3>2 DEF L!WriteTags, L!RestoreTags, L!Wrote, LocationsTyped
    <3> QED
      BY <2>1, <3>3
  <2>3. CASE ~L!WriteTags(v) /\ ~L!RestoreTags(v)
    <3>1. RecordsPlace(v)
      BY <1>0, <2>3 DEF GoesOn
    <3>2. p \in Photos /\ v \in L!Writers(p) /\ works[v].place = image[p].place
      BY <3>1, WritersWrite DEF WrittenPlace
    <3>3. \A c \in Places \cup {L!Nowhere} : ~L!Edit(p, c)
      BY <3>2 DEF L!Serial
    <3>4. ASSUME NEW w \in Workers, works[w].photo = p, L!WriteTags(w) \/ L!StripTags(w) \/ L!RestoreTags(w)
          PROVE  FALSE
      <4>1. works[w].pc \in {"write", "restore"}
        BY <3>4 DEF L!WriteTags, L!StripTags, L!RestoreTags
      <4>2. w \in L!Writers(p)
        BY <3>4, <4>1, WritersWrite DEF L!InService
      <4>3. w = v
        BY <3>2, <4>2 DEF OneWriter
      <4> QED
        BY <3>1, <4>1, <4>3 DEF RecordsPlace, Geocoding
    <3> QED
      BY <2>1, <3>2, <3>3, <3>4, FilesChange
  <2> QED
    BY <2>2, <2>3
<1>2. ReadPlace(v)'
  <2> SUFFICES ASSUME ReadsPlace(v)', known'[works'[v].photo]
               PROVE  works'[v].place = image'[works'[v].photo].place
    BY DEF ReadPlace
  <2>1. works'[v].photo = p /\ works[v].kind = "extract"
    BY <1>0 DEF GoesOn
  <2>2. p \in Photos
    BY <2>1, TaskTyped DEF WorkSound
  <2>3. image'[p].place = image[p].place
    BY <2>1, <2>2, FilesChange
  <2>4. CASE works'[v].place = image[p].place
    BY <2>1, <2>3, <2>4
  <2>5. CASE ReadsPlace(v) /\ works'[v].place = works[v].place
    <3>1. CASE known[p]
      BY <2>1, <2>3, <2>5, <3>1 DEF ReadPlace
    <3>2. CASE ~known[p]
      <4>1. PICK q \in Photos : q = p
        BY <2>2
      <4>2. PICK w \in Workers : L!Index(w, q)
        BY <2>1, <2>2, <3>2, <4>1, FilesChange
      <4>3. works[w].pc = "idle" /\ works'[w].kind = "extract" /\ works'[w].photo = q
        BY <4>2 DEF L!Index, L!Begin, L!NoWork, LocationsTyped
      <4>4. v \in L!Extractors(q)' /\ w \in L!Extractors(q)'
        BY <2>1, <4>1, <4>3 DEF L!Extractors, ReadsPlace
      <4>5. v = w
        BY <4>4 DEF OneExtractor
      <4> QED
        BY <2>5, <4>3, <4>5 DEF ReadsPlace, Geocoding
    <3> QED
      BY <3>1, <3>2
  <2> QED
    BY <1>0, <2>1, <2>4, <2>5 DEF GoesOn
<1>3. Geo(v)'
  BY <1>0 DEF GoesOn
<1> QED
  BY <1>1, <1>2, <1>3

\* What core knows of a file it has read is its place.
LEMMA KnownStep ==
    ASSUME LocationsTyped, L!LocationsNext, L!LocationWatch,
           \A w \in Workers : WrittenPlace(w) /\ ReadPlace(w) /\ Geo(w),
           NEW p \in Photos, PlaceKnown(p)
    PROVE  PlaceKnown(p)'
<1> SUFFICES ASSUME known'[p], L!Extractors(p)' = {}, p \notin unresolved', image'[p].place # L!Nowhere
             PROVE  refs'[p] = image'[p].place
  BY DEF PlaceKnown
<1>1. image'[p].place = image[p].place
  BY FilesChange
<1>2. works \in [Workers -> Works]
  BY DEF LocationsTyped
<1>3. known[p]
  <2> SUFFICES ASSUME NEW w \in Workers, L!Index(w, p)
               PROVE  FALSE
    BY FilesChange
  <2>1. works'[w].kind = "extract" /\ works'[w].photo = p
    BY <1>2 DEF L!Index, L!Begin, L!NoWork
  <2> QED
    BY <2>1 DEF L!Extractors
<1>4. ASSUME NEW w \in Workers, L!Succeeded(w), works[w].photo = p
      PROVE  refs'[p] = image'[p].place
  <2>1. /\ works[w].pc = "save" /\ works[w].kind \in {"update", "batch", "extract"}
        /\ works[w].geo # L!Nowhere /\ refs'[p] = works[w].geo
    BY <1>4 DEF L!Succeeded, L!Saving, L!SaveRequest, L!SaveExtracted
  <2>2. works[w].geo = works[w].place
    BY <2>1 DEF Geo, KnowsGeo
  <2>3. RecordsPlace(w) \/ ReadsPlace(w)
    BY <2>1 DEF RecordsPlace, ReadsPlace
  <2>4. works[w].place = image[p].place
    BY <1>3, <1>4, <2>3 DEF WrittenPlace, ReadPlace
  <2> QED
    BY <1>1, <2>1, <2>2, <2>4
<1>5. CASE \E w \in Workers : L!Succeeded(w) /\ works[w].photo = p
  BY <1>4, <1>5
<1>6. CASE ~\E w \in Workers : L!Succeeded(w) /\ works[w].photo = p
  <2>1. p \notin unresolved /\ \A w \in Workers : works[w].photo = p => ~L!Failed(w)
    BY <1>6 DEF L!LocationWatch
  <2>2. ASSUME NEW w \in Workers, works[w].photo = p, L!Saving(w)
        PROVE  refs'[p] = refs[p] /\ works[w].kind # "extract"
    <3>1. works[w].geo # L!Nowhere
      BY <2>1, <2>2 DEF L!Failed
    <3>2. refs'[p] # works[w].geo
      BY <1>6, <2>2, <3>1 DEF L!Succeeded
    <3>3. ~L!SaveExtracted(w)
      BY <2>2, <3>1, <3>2 DEF L!SaveExtracted, LocationsTyped
    <3>4. L!SaveRequest(w)
      BY <2>2, <3>3 DEF L!Saving
    <3> QED
      BY <2>2, <3>2, <3>4 DEF L!SaveRequest, LocationsTyped
  <2>3. refs'[p] = refs[p]
    BY <2>2, FilesChange DEF L!Saving
  <2>4. L!Extractors(p) = {}
    <3> SUFFICES ASSUME NEW w \in Workers, works[w].kind = "extract", works[w].photo = p
                 PROVE  FALSE
      BY DEF L!Extractors
    <3>1. works'[w].kind # "extract" \/ works'[w].photo # p
      BY DEF L!Extractors
    <3>2. works'[w].pc = "idle"
      BY <3>1, TasksGoOn DEF GoesOn
    <3>3. works[w].pc # "idle"
      BY TaskTyped DEF WorkSound, L!NoWork
    <3>4. ~L!Saving(w)
      BY <2>2
    <3>5. L!Failed(w)
      BY <3>2, <3>3, <3>4 DEF L!Failed, L!Ended
    <3> QED
      BY <2>1, <3>5
  <2> QED
    BY <1>1, <1>3, <2>1, <2>3, <2>4 DEF PlaceKnown
<1> QED
  BY <1>5, <1>6

-----------------------------------------------------------------------------
(* Locations: the invariant *)

\* The invariant of locations holds when the scene begins.
LEMMA LocationsBegin == PhotosInit => LocationsInv
<1> SUFFICES ASSUME PhotosInit PROVE LocationsInv
  OBVIOUS
<1>1. PICK at \in [Photos -> Places \cup {L!Nowhere}] :
        image = [p \in Photos |-> [tags |-> p, place |-> at[p]]]
  BY DEF PhotosInit, L!Init, L!LocationsInit
<1>2. /\ backups = [b \in {} |-> L!NoTags]
      /\ now = 1
      /\ known = [p \in Photos |-> TRUE]
      /\ refs = [p \in Photos |-> IF image[p].place = L!Nowhere THEN L!NoRow ELSE image[p].place]
      /\ cached = {refs[p] : p \in Photos} \cap Places
      /\ geocoding = [s \in L!Services |-> [holder |-> L!Unlocked, last |-> 0]]
      /\ asked = [s \in L!Services |-> [c \in Places |-> 0]]
      /\ works = [w \in Workers |-> L!NoWork]
  BY DEF PhotosInit, L!Init, L!LocationsInit
<1>3. \A w \in Workers : works[w] = L!NoWork /\ works[w].pc = "idle" /\ works[w].kind = "none"
  BY <1>2 DEF L!NoWork
<1>4. LocationsTyped
  BY <1>1, <1>2, NoWorkTyped DEF LocationsTyped
<1>5. OnceAsked
  BY <1>2, <1>3 DEF OnceAsked
<1>6. ASSUME NEW p \in Photos
      PROVE  TagsHeld(p) /\ PlaceKnown(p)
  BY <1>1, <1>2 DEF TagsHeld, PlaceKnown
<1>7. ASSUME NEW w \in Workers
      PROVE  BackupHeld(w) /\ WrittenPlace(w) /\ Geo(w) /\ ReadPlace(w)
  BY <1>3 DEF BackupHeld, WrittenPlace, RecordsPlace, Geo, KnowsGeo, ReadPlace, ReadsPlace, L!InService
<1>8. OneWriter /\ OneExtractor
  BY <1>3 DEF OneWriter, OneExtractor, L!Writers, L!Extractors
<1> QED
  BY <1>4, <1>5, <1>6, <1>7, <1>8 DEF LocationsInv, OneWriter, OneExtractor

\* Every step of the scene keeps it.
LEMMA LocationsStep == LocationsInv /\ L!Next => LocationsInv'
<1> SUFFICES ASSUME LocationsInv, L!Next PROVE LocationsInv'
  OBVIOUS
<1>1. /\ LocationsTyped /\ OnceAsked /\ OneWriter /\ OneExtractor
      /\ \A p \in Photos : TagsHeld(p) /\ PlaceKnown(p)
      /\ \A w \in Workers : BackupHeld(w) /\ WrittenPlace(w) /\ Geo(w) /\ ReadPlace(w)
  BY DEF LocationsInv, OneWriter, OneExtractor
<1>2. L!LocationsNext /\ L!Serial /\ L!OneBackupPerSecond /\ L!LocationWatch
  BY DEF L!Next
<1>3. OneWriter' /\ OneExtractor'
  BY <1>2 DEF L!Serial, OneWriter, OneExtractor
<1>4. LocationsTyped' /\ OnceAsked'
  BY <1>1, <1>2, TypedStep
<1>5. (\A p \in Photos : TagsHeld(p)') /\ (\A v \in Workers : BackupHeld(v)')
  BY <1>1, <1>2, WritesStep
<1>6. \A v \in Workers : WrittenPlace(v)' /\ ReadPlace(v)' /\ Geo(v)'
  BY <1>1, <1>2, <1>3, PlacesStep
<1>7. \A p \in Photos : PlaceKnown(p)'
  BY <1>1, <1>2, KnownStep
<1> QED
  BY <1>3, <1>4, <1>5, <1>6, <1>7 DEF LocationsInv, OneWriter, OneExtractor

\* The other scenes leave the locations alone.
LEMMA LocationsStill == LocationsInv /\ UNCHANGED locations => LocationsInv'
<1> SUFFICES ASSUME LocationsInv, UNCHANGED locations PROVE LocationsInv'
  OBVIOUS
<1>1. UNCHANGED <<image, backups, now, known, refs, cached, geocoding, asked, works, unresolved>>
  BY DEF locations
<1>2. LocationsTyped' /\ OnceAsked'
  BY <1>1 DEF LocationsInv, LocationsTyped, OnceAsked, L!Service
<1>3. \A p \in Photos : TagsHeld(p)' /\ PlaceKnown(p)'
  BY <1>1 DEF LocationsInv, TagsHeld, SavedFor, PlaceKnown, L!Extractors
<1>4. \A w \in Workers : BackupHeld(w)' /\ WrittenPlace(w)' /\ Geo(w)' /\ ReadPlace(w)'
  BY <1>1 DEF LocationsInv, BackupHeld, WrittenPlace, RecordsPlace, Geo, KnowsGeo, ReadPlace, ReadsPlace
<1>5. OneWriter' /\ OneExtractor'
  BY <1>1 DEF LocationsInv, OneWriter, OneExtractor, L!Writers, L!Extractors
<1> QED
  BY <1>2, <1>3, <1>4, <1>5 DEF LocationsInv, OneWriter, OneExtractor

\* What it says of tags, of the rows of photos and of requests to Nominatim.
LEMMA LocationsSound == LocationsInv => LocationsAreKept
<1> SUFFICES ASSUME LocationsInv PROVE LocationsAreKept
  OBVIOUS
<1>1. L!TagsAreKept
  BY DEF LocationsInv, TagsHeld, SavedFor, L!TagsAreKept
<1>2. L!LocationIsCurrent
  BY DEF LocationsInv, PlaceKnown, L!LocationIsCurrent, L!Quiet
<1>3. L!AskedOnce
  BY DEF LocationsInv, OnceAsked, L!AskedOnce
<1> QED
  BY <1>1, <1>2, <1>3 DEF LocationsAreKept

\* Tags are kept, what core knows of a photo's place is what its file says, and
\* no service asks for a place twice, for any number of photos, places and tasks
\* (LocationsAreKept).
THEOREM LocationsKept == PhotosSpec => []LocationsAreKept
<1>1. LocationsInv /\ [PhotosNext]_photosVars => LocationsInv'
  <2>1. LocationsInv /\ PhotosNext => LocationsInv'
    BY LocationsStep, LocationsStill DEF PhotosNext, Browse, HandleFiles, Cache, Locate, Frame
  <2>2. LocationsInv /\ UNCHANGED photosVars => LocationsInv'
    BY LocationsStill DEF photosVars
  <2> QED
    BY <2>1, <2>2
<1> QED
  BY <1>1, LocationsBegin, LocationsSound, PTL DEF PhotosSpec

-----------------------------------------------------------------------------
(* Thumbnails: the types, and who holds the lock *)

Task == [pc : {"idle", "get", "read", "drop", "lock", "set", "write", "invalidate", "ensure", "replaced"},
         kind : {"none", "request", "forget", "sync"},
         photo : Pictures \cup {T!NoPhoto}, dir : Dirs \cup {T!NoSetting}, content : Nat]

TaskSound(t) ==
    /\ tasks[t].pc # "idle" => tasks[t].photo \in Pictures
    /\ tasks[t].pc = "read" => tasks[t].dir \in Dirs
    /\ tasks[t].pc \in {"set", "write"} =>
          /\ holder = t
          /\ tasks[t].content \in 1 .. last[tasks[t].photo]
    /\ tasks[t].pc = "set" => thumbs[cacheDir][tasks[t].photo] = T!Absent

ShownOf(p) == {T!Torn} \cup 0 .. last[p]

CacheMoves == [pc : {"none", "moving", "moved"}, to : Dirs \cup {T!NoSetting}, todo : SUBSET Pictures]

ThumbnailsTyped ==
    /\ file \in [Pictures -> Nat] /\ last \in [Pictures -> Nat] /\ row \in [Pictures -> Nat]
    /\ \A p \in Pictures : file[p] \in {T!Absent, last[p]} /\ row[p] <= last[p]
    /\ thumbs \in [Dirs -> [Pictures -> Nat \cup {T!Torn}]]
    /\ \A d \in Dirs, p \in Pictures : thumbs[d][p] \in ShownOf(p)
    /\ cacheDir \in Dirs
    /\ setting \in Dirs \cup {T!NoSetting}
    /\ holder \in Tasks \cup {T!Free, T!Mover}
    /\ move \in CacheMoves
    /\ move.pc # "none" => move.to \in Dirs
    /\ move.pc = "moving" => holder = T!Mover /\ move.to # cacheDir
    /\ move.pc = "moving" => \A p \in move.todo : thumbs[cacheDir][p] # T!Absent
    /\ tasks \in [Tasks -> Task]
    /\ \A t \in Tasks : TaskSound(t)

-----------------------------------------------------------------------------
(* Thumbnails: what they show *)

Removing(p) == \E t \in Tasks : tasks[t].photo = p /\ tasks[t].pc = "invalidate"

NoThumbs(p) ==
    /\ \A d \in Dirs : thumbs[d][p] = T!Absent
    /\ \A t \in Tasks : tasks[t].photo = p => tasks[t].pc \notin {"set", "write"}

\* A photo without a row has no thumbnail, or it is going to be removed.
Gone(p) == row[p] = T!Absent => NoThumbs(p) \/ Removing(p)

\* A thumbnail that nobody is going to remove is not older than the photo's row,
\* nor is one in the making.
Fresh(p) ==
    ~Removing(p) =>
        /\ \A d \in Dirs : thumbs[d][p] \notin {T!Absent, T!Torn} => thumbs[d][p] >= row[p]
        /\ \A t \in Tasks :
              tasks[t].photo = p /\ tasks[t].pc \in {"set", "write"} => tasks[t].content >= row[p]

\* Elsewhere than in the cache's directory is only what a move has taken there.
InPlace(p) ==
    \A d \in Dirs \ {cacheDir} : thumbs[d][p] # T!Absent =>
        move.pc = "moving" /\ d = move.to /\ p \notin move.todo

\* Half a thumbnail is in the cache, with one who writes it, or where a move has
\* tried to take one that has stayed where it was.
Whole(p) ==
    \A d \in Dirs : thumbs[d][p] = T!Torn =>
        \/ d = cacheDir /\ \E t \in Tasks : tasks[t].photo = p /\ tasks[t].pc = "write" /\ holder = t
        \/ d # cacheDir /\ move.pc = "moving" /\ thumbs[cacheDir][p] # T!Absent

\* One who has found a thumbnail's path still finds it there, and whole.
ReadsWhole(t) ==
    tasks[t].pc = "read" /\ t \notin overtaken /\ tasks[t].photo \notin excused =>
        thumbs[tasks[t].dir][tasks[t].photo] \notin {T!Absent, T!Torn}

ThumbnailsInv ==
    /\ ThumbnailsTyped
    /\ \A p \in Pictures \ excused : Gone(p) /\ Fresh(p) /\ InPlace(p) /\ Whole(p)
    /\ \A t \in Tasks : ReadsWhole(t)

-----------------------------------------------------------------------------

\* What a goroutine is.
LEMMA GoroutineTyped ==
    ASSUME ThumbnailsTyped, NEW t \in Tasks
    PROVE  /\ tasks \in [Tasks -> Task] /\ tasks[t] \in Task /\ TaskSound(t)
           /\ tasks[t].photo \in Pictures \cup {T!NoPhoto} /\ tasks[t].dir \in Dirs \cup {T!NoSetting}
           /\ tasks[t].content \in Nat
<1>1. tasks \in [Tasks -> Task] /\ TaskSound(t)
  BY DEF ThumbnailsTyped
<1>2. tasks[t] \in Task
  BY <1>1
<1> QED
  BY <1>1, <1>2 DEF Task

\* What a goroutine goes on with.
Proceeds(t) ==
    /\ tasks' \in [Tasks -> Task]
    /\ \A v \in Tasks \ {t} : tasks'[v] = tasks[v]
    /\ tasks'[t].pc # "idle" => tasks'[t].photo \in Pictures
    /\ tasks'[t].pc # "idle" => tasks'[t].photo = tasks[t].photo \/ tasks[t].pc = "idle"
    /\ tasks'[t].pc = "read" => T!Get(t) /\ tasks'[t].dir = cacheDir
    /\ tasks'[t].pc = "set" => T!Lock(t)
    /\ tasks'[t].pc = "write" => T!Set(t)
    /\ tasks[t].pc = "set" => T!Set(t) \/ T!SetFails(t)
    /\ tasks[t].pc = "write" => T!Write(t) \/ T!WriteFails(t)
    /\ tasks[t].pc = "invalidate" => T!Invalidate(t) \/ T!InvalidateFails(t)

\* A goroutine's step is one of its own.
LEMMA GoroutineStep ==
    ASSUME ThumbnailsTyped, NEW t \in Tasks, T!TaskNext(t), tasks' # tasks
    PROVE  Proceeds(t)
<1> DEFINE g == tasks[t]
           u == tasks'[t]
<1>0. tasks \in [Tasks -> Task] /\ g \in Task /\ TaskSound(t)
  BY GoroutineTyped
<1>i. T!Idle \in Task /\ T!Idle.pc = "idle"
  BY DEF T!Idle, Task, T!Absent
\* A goroutine that becomes another.
<1>x. ASSUME NEW x \in Task, tasks' = [tasks EXCEPT ![t] = x]
      PROVE  tasks' \in [Tasks -> Task] /\ u = x /\ \A v \in Tasks \ {t} : tasks'[v] = tasks[v]
  BY <1>0, <1>x
<1>e. ASSUME T!End(t), g.pc = "set" => T!SetFails(t), g.pc = "write" => T!Write(t) \/ T!WriteFails(t),
             g.pc = "invalidate" => T!Invalidate(t) \/ T!InvalidateFails(t)
      PROVE  Proceeds(t)
  BY <1>i, <1>x, <1>e DEF T!End, Proceeds
<1>g. ASSUME NEW pc \in {"get", "drop", "lock", "write", "ensure"}, T!GoTo(t, pc), g.pc \notin {"idle", "write"},
             pc = "write" => T!Set(t), g.pc = "set" => T!Set(t),
             g.pc = "invalidate" => T!Invalidate(t) \/ T!InvalidateFails(t)
      PROVE  Proceeds(t)
  <2> DEFINE x == [g EXCEPT !.pc = pc]
  <2>1. x \in Task /\ x.pc = pc /\ x.photo = g.photo /\ g.photo \in Pictures
    BY <1>0, <1>g DEF Task, TaskSound
  <2>2. tasks' = [tasks EXCEPT ![t] = x]
    BY <1>0, <1>g DEF T!GoTo
  <2>3. tasks' \in [Tasks -> Task] /\ u = x /\ \A v \in Tasks \ {t} : tasks'[v] = tasks[v]
    BY <1>x, <2>1, <2>2
  <2> QED
    BY <1>g, <2>1, <2>3 DEF Proceeds
<1>b. ASSUME NEW p \in Pictures, NEW kind \in {"request", "forget", "sync"},
             NEW pc \in {"get", "lock", "invalidate", "ensure", "replaced"}, T!Begin(t, kind, pc, p)
      PROVE  Proceeds(t)
  <2> DEFINE x == [T!Idle EXCEPT !.pc = pc, !.kind = kind, !.photo = p]
  <2>1. x \in Task /\ x.pc = pc /\ x.photo = p
    BY <1>b DEF T!Idle, Task, T!Absent
  <2>2. tasks' \in [Tasks -> Task] /\ u = x /\ \A v \in Tasks \ {t} : tasks'[v] = tasks[v]
    BY <1>b, <1>x, <2>1 DEF T!Begin
  <2> QED
    BY <1>b, <2>1, <2>2 DEF Proceeds, T!Begin
<1>1. CASE T!Get(t)
  <2>1. g.pc = "get"
    BY <1>1 DEF T!Get
  <2>2. CASE enabled /\ T!Has(g.photo)
    <3> DEFINE x == [g EXCEPT !.pc = "read", !.dir = cacheDir]
    <3>1. cacheDir \in Dirs
      BY DEF ThumbnailsTyped
    <3>2. x \in Task /\ x.pc = "read" /\ x.photo = g.photo /\ g.photo \in Pictures /\ x.dir = cacheDir
      BY <1>0, <2>1, <3>1 DEF Task, TaskSound
    <3>3. tasks' = [tasks EXCEPT ![t] = x]
      BY <1>0, <1>1, <2>2 DEF T!Get
    <3>4. tasks' \in [Tasks -> Task] /\ u = x /\ \A v \in Tasks \ {t} : tasks'[v] = tasks[v]
      BY <1>x, <3>2, <3>3
    <3> QED
      BY <1>1, <2>1, <3>2, <3>4 DEF Proceeds
  <2>3. CASE ~(enabled /\ T!Has(g.photo))
    BY <1>1, <1>e, <1>g, <2>1, <2>3 DEF T!Get
  <2> QED
    BY <2>2, <2>3
<1>2. CASE T!Read(t)
  BY <1>2, <1>e, <1>g DEF T!Read
<1>3. CASE T!Drop(t)
  BY <1>3, <1>g DEF T!Drop
<1>4. CASE T!Lock(t)
  <2>1. g.pc = "lock"
    BY <1>4 DEF T!Lock
  <2>2. CASE T!End(t)
    BY <1>e, <2>1, <2>2
  <2>3. CASE ~T!End(t)
    <3> DEFINE x == [g EXCEPT !.pc = "set", !.content = file[g.photo]]
    <3>1. g.photo \in Pictures
      BY <1>0, <2>1 DEF TaskSound
    <3>2. file[g.photo] \in Nat
      BY <3>1 DEF ThumbnailsTyped
    <3>3. x \in Task /\ x.pc = "set" /\ x.photo = g.photo
      BY <1>0, <3>2 DEF Task
    <3>4. tasks' = [tasks EXCEPT ![t] = x]
      BY <1>0, <1>4, <2>3 DEF T!Lock
    <3>5. tasks' \in [Tasks -> Task] /\ u = x /\ \A v \in Tasks \ {t} : tasks'[v] = tasks[v]
      BY <1>x, <3>3, <3>4
    <3> QED
      BY <1>4, <2>1, <3>1, <3>3, <3>5 DEF Proceeds
  <2> QED
    BY <2>2, <2>3
<1>5. CASE T!Set(t)
  BY <1>5, <1>g DEF T!Set
<1>6. CASE T!Write(t) \/ T!SetFails(t) \/ T!WriteFails(t)
  BY <1>6, <1>e DEF T!Write, T!SetFails, T!WriteFails
<1>7. CASE T!Invalidate(t) \/ T!InvalidateFails(t)
  BY <1>7, <1>e, <1>g DEF T!Invalidate, T!InvalidateFails, T!Invalidated
<1>8. CASE T!EnsureThumbnail(t)
  BY <1>8, <1>e, <1>g DEF T!EnsureThumbnail
<1>9. CASE T!SaveReplaced(t)
  <2> DEFINE x == [g EXCEPT !.pc = "invalidate", !.kind = IF row[g.photo] = T!Absent THEN "forget" ELSE "request"]
  <2>1. g.pc = "replaced" /\ g.photo \in Pictures
    BY <1>0, <1>9 DEF T!SaveReplaced, TaskSound
  <2>2. x \in Task /\ x.pc = "invalidate" /\ x.photo = g.photo
    BY <1>0 DEF Task
  <2>3. tasks' = [tasks EXCEPT ![t] = x]
    BY <1>0, <1>9 DEF T!SaveReplaced
  <2>4. tasks' \in [Tasks -> Task] /\ u = x /\ \A v \in Tasks \ {t} : tasks'[v] = tasks[v]
    BY <1>x, <2>2, <2>3
  <2> QED
    BY <2>1, <2>2, <2>4 DEF Proceeds
<1>10. ASSUME NEW p \in Pictures,
              T!Request(t, p) \/ T!InvalidateOne(t, p) \/ T!Warmup(t, p) \/
              T!SyncCleans(t, p) \/ T!Replace(t, p)
       PROVE  Proceeds(t)
  BY <1>10, <1>b DEF T!Request, T!InvalidateOne, T!Warmup, T!SyncCleans, T!Replace
<1>11. ASSUME NEW p \in Pictures, T!ScanFinds(t, p)
       PROVE  Proceeds(t)
  BY <1>11, <1>b DEF T!ScanFinds
<1>12. ASSUME NEW p \in Pictures, T!SyncFinds(t, p)
       PROVE  Proceeds(t)
  BY <1>12, <1>b DEF T!SyncFinds
<1> QED
  BY <1>1, <1>2, <1>3, <1>4, <1>5, <1>6, <1>7, <1>8, <1>9, <1>10, <1>11, <1>12 DEF T!TaskNext

\* Photos' contents and rows.
LEMMA ContentsStep ==
    ASSUME ThumbnailsTyped, T!ThumbnailsNext
    PROVE  /\ file' \in [Pictures -> Nat] /\ last' \in [Pictures -> Nat] /\ row' \in [Pictures -> Nat]
           /\ \A p \in Pictures : /\ file'[p] \in {T!Absent, last'[p]} /\ row'[p] <= last'[p]
                                  /\ last'[p] >= last[p]
<1> DEFINE FilesStay == UNCHANGED <<file, last, row>>
<1>0. /\ file \in [Pictures -> Nat] /\ last \in [Pictures -> Nat] /\ row \in [Pictures -> Nat]
      /\ \A p \in Pictures : file[p] \in {T!Absent, last[p]} /\ row[p] <= last[p]
  BY DEF ThumbnailsTyped
<1>1. CASE FilesStay
  BY <1>0, <1>1
<1>2. ASSUME NEW p \in Pictures, T!NewContent(p), UNCHANGED row
      PROVE  /\ file' \in [Pictures -> Nat] /\ last' \in [Pictures -> Nat] /\ row' \in [Pictures -> Nat]
             /\ \A q \in Pictures : /\ file'[q] \in {T!Absent, last'[q]} /\ row'[q] <= last'[q]
                                    /\ last'[q] >= last[q]
  <2>1. /\ last' = [last EXCEPT ![p] = last[p] + 1]
        /\ file' = [file EXCEPT ![p] = last'[p]]
    BY <1>2 DEF T!NewContent
  <2>2. last'[p] = last[p] + 1 /\ file'[p] = last'[p] /\ last[p] \in Nat
    BY <1>0, <2>1
  <2>3. \A q \in Pictures \ {p} : last'[q] = last[q] /\ file'[q] = file[q] /\ last[q] \in Nat
    BY <1>0, <2>1
  <2>4. last' \in [Pictures -> Nat] /\ file' \in [Pictures -> Nat]
    BY <1>0, <2>1, <2>2
  <2>5. row[p] \in Nat
    BY <1>0
  <2> QED
    BY <1>0, <1>2, <2>2, <2>3, <2>4, <2>5
<1>3. ASSUME NEW p \in Pictures, NEW f \in {file[p], T!Absent}, NEW r \in {row[p], file[p], T!Absent},
             file' = [file EXCEPT ![p] = f], row' = [row EXCEPT ![p] = r], UNCHANGED last
      PROVE  /\ file' \in [Pictures -> Nat] /\ last' \in [Pictures -> Nat] /\ row' \in [Pictures -> Nat]
             /\ \A q \in Pictures : /\ file'[q] \in {T!Absent, last'[q]} /\ row'[q] <= last'[q]
                                    /\ last'[q] >= last[q]
  BY <1>0, <1>3 DEF T!Absent
<1>4. ASSUME NEW p \in Pictures, T!Vanish(p) \/ T!Discard(p)
      PROVE  \E f \in {file[p], T!Absent}, r \in {row[p], file[p], T!Absent} :
                file' = [file EXCEPT ![p] = f] /\ row' = [row EXCEPT ![p] = r] /\ UNCHANGED last
  BY <1>0, <1>4 DEF T!Vanish, T!Discard
<1>5. ASSUME NEW t \in Tasks, NEW p \in Pictures, T!ScanFinds(t, p) \/ T!SyncFinds(t, p) \/ T!SyncCleans(t, p)
      PROVE  \E f \in {file[p], T!Absent}, r \in {row[p], file[p], T!Absent} :
                file' = [file EXCEPT ![p] = f] /\ row' = [row EXCEPT ![p] = r] /\ UNCHANGED last
  BY <1>0, <1>5 DEF T!ScanFinds, T!SyncFinds, T!SyncCleans, T!Recorded
<1>6. ASSUME NEW t \in Tasks, T!SaveReplaced(t)
      PROVE  \E p \in Pictures : \E f \in {file[p], T!Absent}, r \in {row[p], file[p], T!Absent} :
                file' = [file EXCEPT ![p] = f] /\ row' = [row EXCEPT ![p] = r] /\ UNCHANGED last
  <2>1. tasks[t].photo \in Pictures
    BY <1>6, GoroutineTyped DEF T!SaveReplaced, TaskSound
  <2> QED
    BY <1>0, <1>6, <2>1 DEF T!SaveReplaced
<1>7. ASSUME NEW p \in Pictures, T!Change(p) \/ \E t \in Tasks : T!Replace(t, p)
      PROVE  T!NewContent(p) /\ UNCHANGED row
  BY <1>7 DEF T!Change, T!Replace
<1>8. ASSUME NEW t \in Tasks,
             \/ T!Get(t) \/ T!Read(t) \/ T!Drop(t) \/ T!Lock(t) \/ T!Set(t) \/ T!Write(t) \/ T!SetFails(t) \/ T!WriteFails(t)
             \/ T!Invalidate(t) \/ T!InvalidateFails(t) \/ T!EnsureThumbnail(t)
             \/ \E p \in Pictures : T!Request(t, p) \/ T!InvalidateOne(t, p) \/ T!Warmup(t, p)
      PROVE  FilesStay
  BY <1>8
  DEF T!Get, T!Read, T!Drop, T!Lock, T!Set, T!Write, T!SetFails, T!WriteFails,
      T!Invalidate, T!InvalidateFails, T!Invalidated, T!EnsureThumbnail,
              T!Request, T!InvalidateOne, T!Warmup, T!files
<1>9. ASSUME \/ \E p \in Pictures : T!MoveThumb(p) \/ T!LeaveThumb(p)
             \/ T!InvalidateAll \/ T!Toggle \/ T!SyncBegins \/ T!SyncEnds
             \/ \E d \in Dirs : T!MoveTo(d)
             \/ T!EndMove \/ T!MoveFails \/ T!SaveSetting \/ T!ClearSetting \/ T!Restart
      PROVE  FilesStay
  BY <1>9
  DEF T!MoveThumb, T!LeaveThumb, T!Dealt, T!InvalidateAll, T!Toggle, T!SyncBegins,
      T!SyncEnds, T!MoveTo, T!EndMove,
              T!MoveFails, T!SaveSetting, T!ClearSetting, T!Restart, T!files
<1>10. CASE \E p \in Pictures : T!Change(p) \/ \E t \in Tasks : T!Replace(t, p)
  BY <1>2, <1>7, <1>10
<1>11. CASE \E p \in Pictures : \E f \in {file[p], T!Absent}, r \in {row[p], file[p], T!Absent} :
              file' = [file EXCEPT ![p] = f] /\ row' = [row EXCEPT ![p] = r] /\ UNCHANGED last
  BY <1>3, <1>11
<1> HIDE DEF FilesStay
<1> QED
  BY <1>1, <1>4, <1>5, <1>6, <1>8, <1>9, <1>10, <1>11 DEF T!ThumbnailsNext, T!TaskNext

\* Who writes thumbnails.
LEMMA ThumbsChange ==
    ASSUME ThumbnailsTyped, T!ThumbnailsNext
    PROVE  /\ thumbs' \in [Dirs -> [Pictures -> Nat \cup {T!Torn}]]
           /\ \A d \in Dirs, p \in Pictures :
                \/ thumbs'[d][p] = thumbs[d][p]
                \/ thumbs'[d][p] = T!Absent /\ d = cacheDir /\ holder = T!Free
                \/ /\ thumbs'[d][p] = T!Torn /\ d = cacheDir
                   /\ \E t \in Tasks : tasks[t].photo = p /\ T!Set(t)
                \/ /\ d = cacheDir
                   /\ \E t \in Tasks : tasks[t].photo = p /\ T!Write(t) /\ thumbs'[d][p] = tasks[t].content
                \/ /\ T!MoveThumb(p)
                   /\ \/ d = cacheDir /\ thumbs'[d][p] = T!Absent
                      \/ d = move.to /\ thumbs'[d][p] = thumbs[cacheDir][p] /\ thumbs'[cacheDir][p] = T!Absent
                \/ /\ T!LeaveThumb(p)
                   /\ d = move.to /\ thumbs'[d][p] \in {T!Torn, thumbs[cacheDir][p]}
                   /\ thumbs'[cacheDir][p] = thumbs[cacheDir][p]
<1>0. /\ thumbs \in [Dirs -> [Pictures -> Nat \cup {T!Torn}]] /\ cacheDir \in Dirs
  BY DEF ThumbnailsTyped
<1>p. ASSUME NEW c \in Dirs, NEW q \in Pictures, NEW x \in Nat \cup {T!Torn}, T!Put(c, q, x)
      PROVE  /\ thumbs' \in [Dirs -> [Pictures -> Nat \cup {T!Torn}]]
             /\ \A d \in Dirs, p \in Pictures :
                   thumbs'[d][p] = IF d = c /\ p = q THEN x ELSE thumbs[d][p]
  BY <1>0, <1>p DEF T!Put
<1>a. T!Absent \in Nat
  BY DEF T!Absent
<1>1. CASE UNCHANGED thumbs
  BY <1>0, <1>1
<1>2. ASSUME NEW t \in Tasks, T!Drop(t) \/ (T!Invalidate(t) /\ enabled)
      PROVE  tasks[t].photo \in Pictures /\ holder = T!Free /\ T!Put(cacheDir, tasks[t].photo, T!Absent)
  BY <1>2, GoroutineTyped DEF T!Drop, T!Invalidate, T!InvalidateFails, T!Invalidated, TaskSound
<1>b. ASSUME NEW t \in Tasks, T!Drop(t) \/ (T!Invalidate(t) /\ enabled)
      PROVE  /\ thumbs' \in [Dirs -> [Pictures -> Nat \cup {T!Torn}]]
             /\ \A d \in Dirs, p \in Pictures :
                   thumbs'[d][p] = IF d = cacheDir /\ p = tasks[t].photo THEN T!Absent ELSE thumbs[d][p]
  BY <1>0, <1>a, <1>2, <1>b, <1>p
<1>3. CASE \E t \in Tasks : T!Drop(t) \/ (T!Invalidate(t) /\ enabled)
  <2> PICK t \in Tasks : T!Drop(t) \/ (T!Invalidate(t) /\ enabled)
    BY <1>3
  <2>1. holder = T!Free
    BY <1>2
  <2>2. /\ thumbs' \in [Dirs -> [Pictures -> Nat \cup {T!Torn}]]
        /\ \A d \in Dirs, p \in Pictures :
              thumbs'[d][p] = IF d = cacheDir /\ p = tasks[t].photo THEN T!Absent ELSE thumbs[d][p]
    BY <1>b
  <2>3. \A d \in Dirs, p \in Pictures :
           \/ thumbs'[d][p] = thumbs[d][p]
           \/ thumbs'[d][p] = T!Absent /\ d = cacheDir /\ holder = T!Free
    BY <2>1, <2>2
  <2> QED
    BY <2>2, <2>3
<1>4. ASSUME NEW t \in Tasks, T!Set(t)
      PROVE  tasks[t].photo \in Pictures /\ T!Put(cacheDir, tasks[t].photo, T!Torn)
  BY <1>4, GoroutineTyped DEF T!Set, TaskSound
<1>5. ASSUME NEW t \in Tasks, T!Set(t)
      PROVE  /\ thumbs' \in [Dirs -> [Pictures -> Nat \cup {T!Torn}]]
             /\ \A d \in Dirs, p \in Pictures :
                   thumbs'[d][p] = IF d = cacheDir /\ p = tasks[t].photo THEN T!Torn ELSE thumbs[d][p]
  <2>1. T!Torn \in Nat \cup {T!Torn} /\ cacheDir \in Dirs
    BY <1>0
  <2>2. PICK q \in Pictures : q = tasks[t].photo /\ T!Put(cacheDir, q, T!Torn)
    BY <1>4, <1>5
  <2>3. /\ thumbs' \in [Dirs -> [Pictures -> Nat \cup {T!Torn}]]
        /\ \A d \in Dirs, p \in Pictures :
              thumbs'[d][p] = IF d = cacheDir /\ p = q THEN T!Torn ELSE thumbs[d][p]
    BY <1>0, <2>1, <2>2 DEF T!Put
  <2> QED
    BY <2>2, <2>3
<1>6. ASSUME NEW t \in Tasks, T!Write(t)
      PROVE  /\ tasks[t].photo \in Pictures /\ T!Put(cacheDir, tasks[t].photo, tasks[t].content)
             /\ tasks[t].content \in Nat
  BY <1>6, GoroutineTyped DEF T!Write, TaskSound
<1>7. CASE \E t \in Tasks : T!Write(t)
  BY <1>0, <1>6, <1>7, <1>p
<1>8. CASE T!InvalidateAll
  <2>1. holder = T!Free /\ thumbs' = [thumbs EXCEPT ![cacheDir] = [p \in Pictures |-> T!Absent]]
    BY <1>8 DEF T!InvalidateAll
  <2> QED
    BY <1>0, <1>a, <2>1
<1>9. ASSUME NEW q \in Pictures, T!MoveThumb(q)
      PROVE  /\ thumbs' \in [Dirs -> [Pictures -> Nat \cup {T!Torn}]]
             /\ \A d \in Dirs, p \in Pictures :
                   \/ thumbs'[d][p] = thumbs[d][p]
                   \/ p = q /\ d = cacheDir /\ thumbs'[d][p] = T!Absent
                   \/ p = q /\ d = move.to /\ thumbs'[d][p] = thumbs[cacheDir][p] /\ thumbs'[cacheDir][p] = T!Absent
  <2>1. /\ thumbs' = [thumbs EXCEPT ![move.to][q] = thumbs[cacheDir][q], ![cacheDir][q] = T!Absent]
        /\ move.to \in Dirs /\ move.to # cacheDir
    BY <1>9 DEF T!MoveThumb, T!Dealt, ThumbnailsTyped
  <2>2. thumbs[cacheDir][q] \in Nat \cup {T!Torn}
    BY <1>0
  <2>3. thumbs' = [thumbs EXCEPT ![move.to] = [thumbs[move.to] EXCEPT ![q] = thumbs[cacheDir][q]],
                                 ![cacheDir] = [thumbs[cacheDir] EXCEPT ![q] = T!Absent]]
    BY <1>0, <2>1
  <2>4. /\ thumbs'[move.to] = [thumbs[move.to] EXCEPT ![q] = thumbs[cacheDir][q]]
        /\ thumbs'[cacheDir] = [thumbs[cacheDir] EXCEPT ![q] = T!Absent]
        /\ \A d \in Dirs \ {cacheDir, move.to} : thumbs'[d] = thumbs[d]
        /\ DOMAIN thumbs' = Dirs
    BY <1>0, <2>1, <2>3
  <2>5. \A d \in Dirs : thumbs[d] \in [Pictures -> Nat \cup {T!Torn}]
    BY <1>0
  <2>6. \A d \in Dirs : thumbs'[d] \in [Pictures -> Nat \cup {T!Torn}]
    BY <1>a, <2>2, <2>4, <2>5
  <2>7. thumbs' \in [Dirs -> [Pictures -> Nat \cup {T!Torn}]]
    BY <1>0, <2>3, <2>6
  <2> QED
    BY <1>0, <2>1, <2>4, <2>5, <2>7
<1>10. CASE \E q \in Pictures : T!MoveThumb(q)
  BY <1>9, <1>10
<1>l. ASSUME NEW q \in Pictures, T!LeaveThumb(q)
      PROVE  /\ thumbs' \in [Dirs -> [Pictures -> Nat \cup {T!Torn}]]
             /\ \A d \in Dirs, p \in Pictures :
                   \/ thumbs'[d][p] = thumbs[d][p]
                   \/ /\ p = q /\ d = move.to /\ thumbs'[d][p] \in {T!Torn, thumbs[cacheDir][p]}
                      /\ thumbs'[cacheDir][p] = thumbs[cacheDir][p]
  <2>1. move.to \in Dirs /\ move.to # cacheDir
    BY <1>l DEF T!LeaveThumb, T!Dealt, ThumbnailsTyped
  <2>2. PICK copy \in {thumbs[move.to][q], T!Torn, thumbs[cacheDir][q]} : T!Put(move.to, q, copy)
    BY <1>l DEF T!LeaveThumb
  <2>3. copy \in Nat \cup {T!Torn}
    BY <1>0, <2>1, <2>2
  <2>4. /\ thumbs' \in [Dirs -> [Pictures -> Nat \cup {T!Torn}]]
        /\ \A d \in Dirs, p \in Pictures :
              thumbs'[d][p] = IF d = move.to /\ p = q THEN copy ELSE thumbs[d][p]
    BY <1>p, <2>1, <2>2, <2>3
  <2> QED
    BY <1>0, <2>1, <2>2, <2>4
<1>l1. CASE \E q \in Pictures : T!LeaveThumb(q)
  BY <1>l, <1>l1
<1>11. ASSUME NEW t \in Tasks,
              \/ T!Get(t) \/ T!Read(t) \/ T!Lock(t) \/ (T!Invalidate(t) /\ ~enabled) \/ T!EnsureThumbnail(t)
              \/ T!SaveReplaced(t) \/ T!InvalidateFails(t) \/ T!SetFails(t) \/ T!WriteFails(t)
              \/ \E p \in Pictures :
                    \/ T!Request(t, p) \/ T!InvalidateOne(t, p) \/ T!Warmup(t, p)
                    \/ T!ScanFinds(t, p) \/ T!SyncFinds(t, p) \/ T!SyncCleans(t, p) \/ T!Replace(t, p)
       PROVE  UNCHANGED thumbs
  BY <1>11
  DEF T!SetFails, T!WriteFails, T!Get, T!Read, T!Lock, T!Invalidate, T!InvalidateFails,
      T!Invalidated, T!EnsureThumbnail, T!SaveReplaced, T!Request, T!InvalidateOne,
               T!Warmup, T!ScanFinds, T!SyncFinds, T!SyncCleans, T!Replace
<1>12. ASSUME \/ \E p \in Pictures : T!Change(p) \/ T!Vanish(p) \/ T!Discard(p)
              \/ T!Toggle \/ T!SyncBegins \/ T!SyncEnds
              \/ \E d \in Dirs : T!MoveTo(d)
              \/ T!EndMove \/ T!MoveFails \/ T!SaveSetting \/ T!ClearSetting \/ T!Restart
       PROVE  UNCHANGED thumbs
  BY <1>12
  DEF T!Change, T!Vanish, T!Discard, T!Toggle, T!SyncBegins, T!SyncEnds, T!MoveTo,
      T!EndMove,
               T!MoveFails, T!SaveSetting, T!ClearSetting, T!Restart
<1> QED
  BY <1>1, <1>3, <1>5, <1>7, <1>8, <1>10, <1>l1, <1>11, <1>12 DEF T!ThumbnailsNext, T!TaskNext

\* While a goroutine makes a thumbnail, nobody else touches the cache.
LEMMA LockedStep ==
    ASSUME ThumbnailsTyped, T!ThumbnailsNext, NEW v \in Tasks, tasks[v].pc \in {"set", "write"}
    PROVE  \/ T!Set(v) \/ T!Write(v) \/ T!SetFails(v) \/ T!WriteFails(v) \/ T!Restart
           \/ UNCHANGED <<thumbs, cacheDir, holder>> /\ tasks'[v] = tasks[v]
<1>0. /\ holder = v /\ v # T!Free /\ v # T!Mover
      /\ move.pc # "moving"
  BY GoroutineTyped, PhotosAssumption DEF TaskSound, ThumbnailsTyped
<1>1. ASSUME NEW t \in Tasks, T!TaskNext(t), t = v
      PROVE  \/ T!Set(v) \/ T!Write(v) \/ T!SetFails(v) \/ T!WriteFails(v)
             \/ UNCHANGED <<thumbs, cacheDir, holder>> /\ tasks'[v] = tasks[v]
  <2>1. CASE tasks' # tasks
    BY <1>1, <2>1, GoroutineStep DEF Proceeds
  <2>2. CASE tasks' = tasks
    <3>1. CASE \E p \in Pictures : T!SyncFinds(t, p)
      BY <2>2, <3>1 DEF T!SyncFinds, T!service
    <3>2. CASE ~\E p \in Pictures : T!SyncFinds(t, p)
      BY <1>1, <3>2
      DEF T!TaskNext, T!Get, T!Read, T!Drop, T!Lock, T!Invalidate, T!InvalidateFails,
          T!Invalidated, T!EnsureThumbnail, T!SaveReplaced,
          T!Request, T!InvalidateOne, T!Warmup, T!ScanFinds, T!SyncCleans, T!Replace, T!Begin
    <3> QED
      BY <3>1, <3>2
  <2> QED
    BY <2>1, <2>2
<1>2. ASSUME NEW t \in Tasks, T!TaskNext(t), t # v
      PROVE  UNCHANGED <<thumbs, cacheDir, holder>> /\ tasks'[v] = tasks[v]
  <2>1. tasks'[v] = tasks[v]
    <3>1. CASE tasks' # tasks
      BY <1>2, <3>1, GoroutineStep DEF Proceeds
    <3>2. CASE tasks' = tasks
      BY <3>2
    <3> QED
      BY <3>1, <3>2
  <2>2. tasks[t].pc \notin {"set", "write"}
    BY <1>0, <1>2, GoroutineTyped DEF TaskSound
  <2>3. CASE T!Get(t) \/ T!Read(t) \/ T!Drop(t) \/ T!Lock(t) \/ T!Set(t) \/ T!Write(t) \/ T!SetFails(t) \/ T!WriteFails(t)
             \/ T!Invalidate(t) \/ T!InvalidateFails(t) \/ T!EnsureThumbnail(t) \/ T!SaveReplaced(t)
    BY <1>0, <2>1, <2>2, <2>3
    DEF T!Get, T!Read, T!Drop, T!Lock, T!Set, T!Write, T!SetFails, T!WriteFails,
        T!Invalidate, T!InvalidateFails, T!Invalidated, T!EnsureThumbnail,
        T!SaveReplaced, T!service
  <2>4. CASE \E p \in Pictures :
               \/ T!Request(t, p) \/ T!InvalidateOne(t, p) \/ T!Warmup(t, p)
               \/ T!ScanFinds(t, p) \/ T!SyncFinds(t, p) \/ T!SyncCleans(t, p) \/ T!Replace(t, p)
    BY <2>1, <2>4
    DEF T!Request, T!InvalidateOne, T!Warmup, T!ScanFinds, T!SyncFinds, T!SyncCleans,
        T!Replace, T!service
  <2> QED
    BY <1>2, <2>3, <2>4 DEF T!TaskNext
<1>3. CASE \/ \E p \in Pictures : T!Change(p) \/ T!Vanish(p) \/ T!Discard(p) \/ T!MoveThumb(p) \/ T!LeaveThumb(p)
           \/ T!InvalidateAll \/ T!Toggle \/ T!SyncBegins \/ T!SyncEnds
           \/ \E d \in Dirs : T!MoveTo(d)
           \/ T!EndMove \/ T!MoveFails \/ T!SaveSetting \/ T!ClearSetting
  BY <1>0, <1>3
  DEF T!Change, T!Vanish, T!Discard, T!MoveThumb, T!LeaveThumb, T!Dealt,
      T!InvalidateAll, T!Toggle, T!SyncBegins, T!SyncEnds, T!MoveTo,
      T!EndMove, T!MoveFails, T!SaveSetting, T!ClearSetting, T!service
<1> QED
  BY <1>1, <1>2, <1>3 DEF T!ThumbnailsNext

\* The goroutines after a step.
LEMMA GoroutinesStep ==
    ASSUME ThumbnailsTyped, T!ThumbnailsNext
    PROVE  /\ tasks' \in [Tasks -> Task]
           /\ \A v \in Tasks : TaskSound(v)'
<1>0. tasks \in [Tasks -> Task] /\ cacheDir \in Dirs
  BY DEF ThumbnailsTyped
<1>1. CASE UNCHANGED tasks \/ T!Restart \/ \E t \in Tasks : Proceeds(t)
  <2>1. tasks' \in [Tasks -> Task]
    <3>1. T!Idle \in Task
      BY DEF T!Idle, Task, T!Absent
    <3> QED
      BY <1>0, <1>1, <3>1 DEF Proceeds, T!Restart
  <2>2. ASSUME NEW v \in Tasks
        PROVE  TaskSound(v)'
    <3> DEFINE u == tasks'[v]
    <3>0. TaskSound(v)
      BY GoroutineTyped
    <3>1. u = tasks[v] \/ Proceeds(v) \/ u = T!Idle
      BY <1>1 DEF Proceeds, T!Restart
    <3>i. T!Idle.pc = "idle"
      BY DEF T!Idle
    <3>2. u.pc # "idle" => u.photo \in Pictures
      BY <3>0, <3>1, <3>i DEF TaskSound, Proceeds
    <3>3. u.pc = "read" => u.dir \in Dirs
      BY <1>0, <3>0, <3>1, <3>i DEF TaskSound, Proceeds
    <3>4. ASSUME u.pc \in {"set", "write"}
          PROVE  /\ holder' = v /\ u.content \in 1 .. last'[u.photo]
                 /\ (u.pc = "set" => thumbs'[cacheDir'][u.photo] = T!Absent)
      <4> DEFINE p == u.photo
      <4>p. p \in Pictures
        BY <3>2, <3>4
      <4>1. CASE Proceeds(v) /\ u.pc = "set"
        <5>1. T!Lock(v)
          BY <4>1 DEF Proceeds
        <5>2. ~T!End(v)
          BY <1>0, <3>4, <3>i DEF T!End
        <5>3. tasks[v] \in Task /\ tasks' = [tasks EXCEPT ![v].pc = "set", ![v].content = file[tasks[v].photo]]
          BY <1>0, <5>1, <5>2 DEF T!Lock
        <5>4. u.photo = tasks[v].photo /\ u.content = file[u.photo]
          BY <1>0, <5>3 DEF Task
        <5>5. /\ holder' = v /\ ~T!Has(p) /\ file[p] # T!Absent
              /\ UNCHANGED <<last, thumbs, cacheDir>>
          BY <5>1, <5>2, <5>4 DEF T!Lock, T!files, T!service
        <5>6. file[p] = last[p] /\ last[p] \in Nat
          BY <4>p, <5>5 DEF ThumbnailsTyped
        <5>7. u.content \in 1 .. last'[p]
          BY <5>4, <5>5, <5>6 DEF T!Absent
        <5> QED
          BY <5>5, <5>7 DEF T!Has
      <4>2. CASE Proceeds(v) /\ u.pc = "write"
        <5>1. T!Set(v)
          BY <4>2 DEF Proceeds
        <5>2. tasks[v] \in Task /\ tasks' = [tasks EXCEPT ![v].pc = "write"] /\ UNCHANGED <<holder, last>> /\ tasks[v].pc = "set"
          BY <1>0, <5>1 DEF T!Set, T!GoTo, T!files
        <5>3. u.photo = tasks[v].photo /\ u.content = tasks[v].content
          BY <1>0, <5>2 DEF Task
        <5> QED
          BY <3>0, <4>2, <5>2, <5>3 DEF TaskSound
      <4>3. CASE u = tasks[v]
        <5>1. tasks[v].pc \in {"set", "write"} /\ p = tasks[v].photo
          BY <3>4, <4>3
        <5>2. ~T!Set(v) /\ ~T!Write(v) /\ ~T!SetFails(v) /\ ~T!WriteFails(v) /\ ~T!Restart
          <6>1. ~T!Set(v)
            <7>1. tasks[v] \in Task
              BY <1>0
            <7> QED
              BY <1>0, <4>3, <7>1 DEF T!Set, T!GoTo, Task
          <6>2. ~T!Write(v) /\ ~T!SetFails(v) /\ ~T!WriteFails(v)
            BY <1>0, <3>i, <4>3, <5>1 DEF T!Write, T!SetFails, T!WriteFails, T!End
          <6>3. ~T!Restart
            BY <3>i, <4>3, <5>1 DEF T!Restart
          <6> QED
            BY <6>1, <6>2, <6>3
        <5>3. UNCHANGED <<thumbs, cacheDir, holder>>
          BY <5>1, <5>2, LockedStep
        <5>4. last'[p] >= last[p] /\ last[p] \in Nat /\ last'[p] \in Nat
          BY <4>p, ContentsStep DEF ThumbnailsTyped
        <5> QED
          BY <3>0, <4>3, <5>1, <5>3, <5>4 DEF TaskSound
      <4> QED
        BY <3>1, <3>4, <3>i, <4>1, <4>2, <4>3
    <3> QED
      BY <3>2, <3>3, <3>4 DEF TaskSound
  <2> QED
    BY <2>1, <2>2
<1>2. ASSUME NEW t \in Tasks, T!TaskNext(t)
      PROVE  UNCHANGED tasks \/ Proceeds(t)
  BY <1>2, GoroutineStep
<1>3. CASE \/ \E p \in Pictures : T!Change(p) \/ T!Vanish(p) \/ T!Discard(p) \/ T!MoveThumb(p) \/ T!LeaveThumb(p)
           \/ T!InvalidateAll \/ T!Toggle \/ T!SyncBegins \/ T!SyncEnds
           \/ \E d \in Dirs : T!MoveTo(d)
           \/ T!EndMove \/ T!MoveFails \/ T!SaveSetting \/ T!ClearSetting
  <2>1. UNCHANGED tasks
    BY <1>3
    DEF T!Change, T!Vanish, T!Discard, T!MoveThumb, T!LeaveThumb, T!Dealt,
        T!InvalidateAll, T!Toggle, T!SyncBegins, T!SyncEnds, T!MoveTo,
        T!EndMove, T!MoveFails, T!SaveSetting, T!ClearSetting
  <2> QED
    BY <1>1, <2>1
<1> QED
  BY <1>1, <1>2, <1>3 DEF T!ThumbnailsNext

\* Where the cache is, and what a move does next.
LEMMA CacheStays ==
    ASSUME T!ThumbnailsNext, ~T!EndMove, ~T!Restart
    PROVE  /\ cacheDir' = cacheDir
           /\ \/ move' = move
              \/ \E p \in Pictures : /\ T!MoveThumb(p) \/ T!LeaveThumb(p)
                                     /\ move' = [move EXCEPT !.todo = @ \ {p}]
              \/ T!MoveFails \/ T!SaveSetting \/ \E d \in Dirs : T!MoveTo(d)
<1>1. ASSUME NEW t \in Tasks, T!TaskNext(t)
      PROVE  UNCHANGED <<cacheDir, move>>
  BY <1>1
  DEF T!TaskNext, T!Get, T!Read, T!Drop, T!Lock, T!Set, T!Write, T!SetFails, T!WriteFails,
      T!Invalidate, T!InvalidateFails, T!EnsureThumbnail, T!SaveReplaced,
      T!Request, T!InvalidateOne, T!Warmup, T!ScanFinds, T!SyncFinds, T!SyncCleans,
      T!Replace, T!service
<1>2. CASE \/ \E p \in Pictures : T!Change(p) \/ T!Vanish(p) \/ T!Discard(p)
           \/ T!InvalidateAll \/ T!Toggle \/ T!SyncBegins \/ T!SyncEnds
  BY <1>2
  DEF T!Change, T!Vanish, T!Discard, T!InvalidateAll, T!Toggle, T!SyncBegins, T!SyncEnds, T!service
<1>3. CASE \E p \in Pictures : T!MoveThumb(p) \/ T!LeaveThumb(p)
  BY <1>3 DEF T!MoveThumb, T!LeaveThumb, T!Dealt
<1>4. CASE \E d \in Dirs : T!MoveTo(d)
  BY <1>4 DEF T!MoveTo
<1>5. CASE T!MoveFails \/ T!SaveSetting \/ T!ClearSetting
  BY <1>5 DEF T!MoveFails, T!SaveSetting, T!ClearSetting
<1> QED
  BY <1>1, <1>2, <1>3, <1>4, <1>5 DEF T!ThumbnailsNext

\* A move under way goes on, thumbnail by thumbnail.
LEMMA MoveGoesOn ==
    ASSUME T!ThumbnailsNext, move \in CacheMoves, move'.pc = "moving", ~\E d \in Dirs : T!MoveTo(d)
    PROVE  /\ move.pc = "moving" /\ cacheDir' = cacheDir /\ move'.to = move.to
           /\ move'.todo \subseteq move.todo
           /\ \A p \in Pictures : T!MoveThumb(p) \/ T!LeaveThumb(p) => p \notin move'.todo
<1>1. ~T!EndMove /\ ~T!Restart /\ ~T!MoveFails /\ ~T!SaveSetting
  BY DEF T!EndMove, T!Restart, T!MoveFails, T!SaveSetting, T!NoMove, CacheMoves
<1>2. ASSUME NEW p \in Pictures, T!MoveThumb(p) \/ T!LeaveThumb(p)
      PROVE  p \notin move'.todo
  BY <1>2 DEF T!MoveThumb, T!LeaveThumb, T!Dealt, CacheMoves
<1> QED
  BY <1>1, <1>2, CacheStays DEF CacheMoves

\* Types are kept.
LEMMA ThumbnailsTypedStep ==
    ASSUME ThumbnailsTyped, T!ThumbnailsNext
    PROVE  ThumbnailsTyped'
<1>0. /\ cacheDir \in Dirs /\ setting \in Dirs \cup {T!NoSetting} /\ holder \in Tasks \cup {T!Free, T!Mover}
      /\ move \in CacheMoves
      /\ move.pc # "none" => move.to \in Dirs
      /\ move.pc = "moving" => holder = T!Mover /\ move.to # cacheDir
      /\ T!Mover \notin Tasks /\ T!Free # T!Mover
  BY PhotosAssumption DEF ThumbnailsTyped, T!Free, T!Mover
<1>n. T!NoMove \in CacheMoves /\ T!NoMove.pc = "none"
  BY DEF T!NoMove, CacheMoves
<1>1. ASSUME NEW d \in Dirs, NEW p \in Pictures
      PROVE  thumbs'[d][p] \in ShownOf(p)'
  <2>1. last'[p] >= last[p] /\ last[p] \in Nat /\ last'[p] \in Nat
    BY ContentsStep DEF ThumbnailsTyped
  <2>2. \A x \in ShownOf(p) : x \in ShownOf(p)'
    BY <2>1 DEF ShownOf
  <2>3. thumbs[d][p] \in ShownOf(p) /\ thumbs[cacheDir][p] \in ShownOf(p)
    BY DEF ThumbnailsTyped
  <2>4. T!Absent \in ShownOf(p) /\ T!Torn \in ShownOf(p)
    BY <2>1 DEF ShownOf, T!Absent
  <2>5. ASSUME NEW t \in Tasks, tasks[t].photo = p, T!Write(t)
        PROVE  tasks[t].content \in ShownOf(p)
    <3>1. tasks[t].content \in 1 .. last[p]
      BY <2>5, GoroutineTyped DEF T!Write, TaskSound
    <3> QED
      BY <2>1, <3>1 DEF ShownOf
  <2>6. thumbs'[d][p] \in ShownOf(p)
    BY <2>3, <2>4, <2>5, ThumbsChange
  <2> QED
    BY <2>2, <2>6
<1>2. /\ cacheDir' \in Dirs /\ setting' \in Dirs \cup {T!NoSetting} /\ holder' \in Tasks \cup {T!Free, T!Mover}
      /\ move' \in CacheMoves
      /\ move'.pc # "none" => move'.to \in Dirs
      /\ move'.pc = "moving" => holder' = T!Mover /\ move'.to # cacheDir'
  <2>1. ASSUME NEW t \in Tasks, T!TaskNext(t)
        PROVE  /\ UNCHANGED <<cacheDir, setting, move>>
               /\ holder' = holder \/ (holder' = t /\ holder = T!Free) \/ (holder' = T!Free /\ holder = t)
    <3>1. CASE T!Get(t) \/ T!Read(t) \/ T!Drop(t) \/ T!Lock(t) \/ T!Set(t)
               \/ T!Invalidate(t) \/ T!InvalidateFails(t) \/ T!EnsureThumbnail(t) \/ T!SaveReplaced(t)
      BY <3>1
      DEF T!Get, T!Read, T!Drop, T!Lock, T!Set, T!Invalidate, T!InvalidateFails,
          T!Invalidated, T!EnsureThumbnail, T!SaveReplaced, T!service
    <3>2. CASE T!Write(t) \/ T!SetFails(t) \/ T!WriteFails(t)
      <4>1. holder = t
        BY <3>2, GoroutineTyped DEF T!Write, T!SetFails, T!WriteFails, TaskSound
      <4> QED
        BY <3>2, <4>1 DEF T!Write, T!SetFails, T!WriteFails, T!service
    <3>3. CASE \E p \in Pictures :
                 \/ T!Request(t, p) \/ T!InvalidateOne(t, p) \/ T!Warmup(t, p)
                 \/ T!ScanFinds(t, p) \/ T!SyncFinds(t, p) \/ T!SyncCleans(t, p) \/ T!Replace(t, p)
      BY <3>3
      DEF T!Request, T!InvalidateOne, T!Warmup, T!ScanFinds, T!SyncFinds, T!SyncCleans,
          T!Replace, T!service
    <3> QED
      BY <2>1, <3>1, <3>2, <3>3 DEF T!TaskNext
  <2>2. CASE \E t \in Tasks : T!TaskNext(t)
    BY <1>0, <2>1, <2>2
  <2>3. CASE \/ \E p \in Pictures : T!Change(p) \/ T!Vanish(p) \/ T!Discard(p)
             \/ T!InvalidateAll \/ T!Toggle \/ T!SyncBegins \/ T!SyncEnds
    <3>1. UNCHANGED <<cacheDir, setting, move, holder>>
      BY <2>3
      DEF T!Change, T!Vanish, T!Discard, T!InvalidateAll, T!Toggle, T!SyncBegins,
          T!SyncEnds, T!service
    <3> QED
      BY <1>0, <3>1
  <2>m. CASE \E p \in Pictures : T!MoveThumb(p) \/ T!LeaveThumb(p)
    <3>1. PICK p \in Pictures : UNCHANGED <<cacheDir, setting, holder>> /\ move' = [move EXCEPT !.todo = @ \ {p}]
      BY <2>m DEF T!MoveThumb, T!LeaveThumb, T!Dealt
    <3> QED
      BY <1>0, <3>1 DEF CacheMoves
  <2>4. CASE \E d \in Dirs : T!MoveTo(d)
    <3> PICK d \in Dirs : T!MoveTo(d)
      BY <2>4
    <3>1. UNCHANGED <<cacheDir, setting>>
          /\ \/ move' = [pc |-> "moved", to |-> d, todo |-> {}] /\ UNCHANGED holder
             \/ /\ move' = [pc |-> "moving", to |-> d, todo |-> {p \in Pictures : T!Has(p)}]
                /\ holder' = T!Mover /\ d # cacheDir
      BY DEF T!MoveTo, T!NoMove
    <3> QED
      BY <1>0, <3>1 DEF CacheMoves
  <2>5. CASE T!EndMove
    <3>1. /\ cacheDir' = move.to /\ move' = [move EXCEPT !.pc = "moved"] /\ move.pc = "moving"
          /\ holder' = T!Free /\ UNCHANGED setting
      BY <2>5 DEF T!EndMove
    <3> QED
      BY <1>0, <3>1 DEF CacheMoves
  <2>6. CASE T!MoveFails
    <3>1. /\ UNCHANGED <<cacheDir, setting>> /\ move' = [move EXCEPT !.pc = "moved"] /\ move.pc = "moving"
          /\ holder' = T!Free
      BY <2>6 DEF T!MoveFails
    <3> QED
      BY <1>0, <3>1 DEF CacheMoves
  <2>7. CASE T!SaveSetting
    <3>1. move.pc = "moved" /\ setting' \in {setting, move.to} /\ move' = T!NoMove /\ UNCHANGED <<cacheDir, holder>>
      BY <2>7 DEF T!SaveSetting
    <3> QED
      BY <1>0, <1>n, <3>1
  <2>8. CASE T!ClearSetting
    <3>1. setting' = T!NoSetting /\ UNCHANGED <<cacheDir, move, holder>>
      BY <2>8 DEF T!ClearSetting
    <3> QED
      BY <1>0, <3>1
  <2>9. CASE T!Restart
    <3>1. /\ cacheDir' = T!ConfiguredDir /\ move' = T!NoMove /\ holder' = T!Free /\ UNCHANGED setting
      BY <2>9 DEF T!Restart
    <3>2. T!ConfiguredDir \in Dirs
      BY <1>0, PhotosAssumption DEF T!ConfiguredDir
    <3> QED
      BY <1>0, <1>n, <3>1, <3>2
  <2> QED
    BY <2>2, <2>3, <2>m, <2>4, <2>5, <2>6, <2>7, <2>8, <2>9 DEF T!ThumbnailsNext
<1>4. ASSUME move'.pc = "moving", NEW p \in move'.todo
      PROVE  thumbs'[cacheDir'][p] # T!Absent
  <2>0. p \in Pictures /\ move \in CacheMoves
    BY <1>2, <1>4 DEF CacheMoves, ThumbnailsTyped
  <2>1. CASE \E d \in Dirs : T!MoveTo(d)
    <3>1. PICK d \in Dirs : T!MoveTo(d)
      BY <2>1
    <3>2. move' = [pc |-> "moving", to |-> d, todo |-> {q \in Pictures : T!Has(q)}]
      BY <1>4, <3>1 DEF T!MoveTo, T!NoMove
    <3>3. T!Has(p) /\ UNCHANGED <<thumbs, cacheDir>>
      BY <1>4, <3>1, <3>2 DEF T!MoveTo
    <3> QED
      BY <3>3 DEF T!Has
  <2>2. CASE ~\E d \in Dirs : T!MoveTo(d)
    <3>1. /\ move.pc = "moving" /\ move'.todo \subseteq move.todo /\ cacheDir' = cacheDir
          /\ ~T!MoveThumb(p)
      BY <1>4, <2>0, <2>2, MoveGoesOn
    <3>2. holder = T!Mover /\ thumbs[cacheDir][p] # T!Absent /\ cacheDir \in Dirs
      BY <1>0, <1>4, <3>1 DEF ThumbnailsTyped
    <3>3. \A t \in Tasks : ~T!Set(t) /\ ~T!Write(t)
      BY <3>2, GoroutineTyped, PhotosAssumption
      DEF T!Set, T!Write, T!SetFails, T!WriteFails, TaskSound
    <3>4. T!LeaveThumb(p) => move.to # cacheDir
      BY <1>0 DEF T!LeaveThumb, T!Dealt
    <3> QED
      BY <1>0, <2>0, <3>1, <3>2, <3>3, <3>4, ThumbsChange
  <2> QED
    BY <2>1, <2>2
<1>3. /\ thumbs' \in [Dirs -> [Pictures -> Nat \cup {T!Torn}]]
      /\ tasks' \in [Tasks -> Task] /\ \A t \in Tasks : TaskSound(t)'
  BY ThumbsChange, GoroutinesStep
<1> QED
  BY <1>1, <1>2, <1>3, <1>4, ContentsStep DEF ThumbnailsTyped

\* A goroutine goes on, or stays where it is.
LEMMA GoroutineGoesOn ==
    ASSUME ThumbnailsTyped, T!ThumbnailsNext, NEW v \in Tasks
    PROVE  tasks'[v] = tasks[v] \/ (Proceeds(v) /\ T!TaskNext(v)) \/ (T!Restart /\ tasks'[v] = T!Idle)
<1>1. ASSUME NEW t \in Tasks, T!TaskNext(t)
      PROVE  tasks'[v] = tasks[v] \/ (Proceeds(v) /\ T!TaskNext(v))
  BY <1>1, GoroutineStep DEF Proceeds
<1>2. CASE \/ \E p \in Pictures : T!Change(p) \/ T!Vanish(p) \/ T!Discard(p) \/ T!MoveThumb(p) \/ T!LeaveThumb(p)
           \/ T!InvalidateAll \/ T!Toggle \/ T!SyncBegins \/ T!SyncEnds
           \/ \E d \in Dirs : T!MoveTo(d)
           \/ T!EndMove \/ T!MoveFails \/ T!SaveSetting \/ T!ClearSetting
  BY <1>2
  DEF T!Change, T!Vanish, T!Discard, T!MoveThumb, T!LeaveThumb, T!Dealt,
      T!InvalidateAll, T!Toggle, T!SyncBegins, T!SyncEnds, T!MoveTo,
      T!EndMove, T!MoveFails, T!SaveSetting, T!ClearSetting
<1>3. CASE T!Restart
  BY <1>3 DEF T!Restart
<1> QED
  BY <1>1, <1>2, <1>3 DEF T!ThumbnailsNext

\* A row goes, is made, is saved with a thumbnail to be removed, or is saved by a
\* pass without thumbnails.
RowGoesOn(p) ==
    /\ UNCHANGED thumbs
    /\ \A t \in Tasks : tasks'[t].pc \in {"set", "write"} => tasks'[t] = tasks[t]
    /\ \/ row'[p] = T!Absent \/ row[p] = T!Absent \/ Removing(p)'
       \/ pass = "without" /\ tasks' = tasks

\* A row changes in no other way.
LEMMA RowChange ==
    ASSUME ThumbnailsTyped, T!ThumbnailsNext, NEW p \in Pictures, row'[p] # row[p]
    PROVE  RowGoesOn(p)
<1>0. row \in [Pictures -> Nat] /\ tasks \in [Tasks -> Task]
  BY DEF ThumbnailsTyped
<1>1. ASSUME NEW t \in Tasks, NEW q \in Pictures,
             NEW kind, NEW pc \in {"get", "invalidate", "ensure"}, T!Begin(t, kind, pc, q)
      PROVE  /\ \A v \in Tasks : tasks'[v].pc \in {"set", "write"} => tasks'[v] = tasks[v]
             /\ pc = "invalidate" => Removing(q)'
  <2>1. /\ tasks'[t].pc = pc /\ tasks'[t].photo = q
        /\ \A v \in Tasks \ {t} : tasks'[v] = tasks[v]
    BY <1>0, <1>1 DEF T!Begin, T!Idle
  <2> QED
    BY <2>1 DEF Removing
<1>2. ASSUME NEW q \in Pictures, T!Discard(q)
      PROVE  RowGoesOn(p)
  BY <1>0, <1>2 DEF T!Discard, RowGoesOn
<1>3. ASSUME NEW t \in Tasks, NEW q \in Pictures, T!ScanFinds(t, q)
      PROVE  RowGoesOn(p)
  <2>1. q = p
    BY <1>0, <1>3 DEF T!ScanFinds, T!Recorded
  <2> QED
    BY <1>1, <1>3, <2>1 DEF T!ScanFinds, RowGoesOn
<1>4. ASSUME NEW t \in Tasks, NEW q \in Pictures, T!SyncFinds(t, q)
      PROVE  RowGoesOn(p)
  <2>1. q = p /\ row'[p] = file[p]
    BY <1>0, <1>4 DEF T!SyncFinds, T!Recorded
  <2> QED
    BY <1>1, <1>4, <2>1 DEF T!SyncFinds, RowGoesOn
<1>5. ASSUME NEW t \in Tasks, NEW q \in Pictures, T!SyncCleans(t, q)
      PROVE  RowGoesOn(p)
  <2>1. q = p
    BY <1>0, <1>5 DEF T!SyncCleans, T!Recorded
  <2> QED
    BY <1>1, <1>5, <2>1 DEF T!SyncCleans, RowGoesOn
<1>6. ASSUME NEW t \in Tasks, T!SaveReplaced(t)
      PROVE  RowGoesOn(p)
  <2>1. tasks[t].photo = p /\ tasks[t] \in Task
    BY <1>0, <1>6 DEF T!SaveReplaced
  <2>2. /\ tasks'[t].pc = "invalidate" /\ tasks'[t].photo = p
        /\ \A v \in Tasks \ {t} : tasks'[v] = tasks[v]
    BY <1>0, <1>6, <2>1 DEF T!SaveReplaced, Task
  <2>3. UNCHANGED thumbs
    BY <1>6 DEF T!SaveReplaced
  <2> QED
    BY <2>2, <2>3 DEF Removing, RowGoesOn
<1>7. ASSUME NEW t \in Tasks,
             \/ T!Get(t) \/ T!Read(t) \/ T!Drop(t) \/ T!Lock(t) \/ T!Set(t) \/ T!Write(t) \/ T!SetFails(t) \/ T!WriteFails(t)
             \/ T!Invalidate(t) \/ T!InvalidateFails(t) \/ T!EnsureThumbnail(t)
             \/ \E q \in Pictures : T!Request(t, q) \/ T!InvalidateOne(t, q) \/ T!Warmup(t, q) \/ T!Replace(t, q)
      PROVE  UNCHANGED row
  BY <1>7
  DEF T!Get, T!Read, T!Drop, T!Lock, T!Set, T!Write, T!SetFails, T!WriteFails,
      T!Invalidate, T!InvalidateFails, T!Invalidated, T!EnsureThumbnail,
              T!Request, T!InvalidateOne, T!Warmup, T!Replace, T!files
<1>8. ASSUME \/ \E q \in Pictures : T!Change(q) \/ T!Vanish(q) \/ T!MoveThumb(q) \/ T!LeaveThumb(q)
             \/ T!InvalidateAll \/ T!Toggle \/ T!SyncBegins \/ T!SyncEnds
             \/ \E d \in Dirs : T!MoveTo(d)
             \/ T!EndMove \/ T!MoveFails \/ T!SaveSetting \/ T!ClearSetting \/ T!Restart
      PROVE  UNCHANGED row
  BY <1>8
  DEF T!Change, T!Vanish, T!MoveThumb, T!LeaveThumb, T!Dealt, T!InvalidateAll, T!Toggle,
      T!SyncBegins, T!SyncEnds, T!MoveTo,
              T!EndMove, T!MoveFails, T!SaveSetting, T!ClearSetting, T!Restart, T!files
<1> QED
  BY <1>2, <1>3, <1>4, <1>5, <1>6, <1>7, <1>8 DEF T!ThumbnailsNext, T!TaskNext

\* A photo whose thumbnails are all gone is as it should be.
LEMMA ClearedStep ==
    ASSUME NEW p \in Pictures, T!Cleared(p), ThumbnailsTyped'
    PROVE  Gone(p)' /\ Fresh(p)' /\ InPlace(p)' /\ Whole(p)'
<1>1. /\ \A d \in Dirs : thumbs'[d][p] = T!Absent
      /\ \A t \in Tasks : tasks'[t].photo = p => tasks'[t].pc \notin {"set", "write"}
      /\ cacheDir' \in Dirs /\ T!Absent # T!Torn
  BY DEF T!Cleared, ThumbnailsTyped, T!Absent, T!Torn
<1> QED
  BY <1>1 DEF Gone, Fresh, InPlace, Whole, NoThumbs

\* A thumbnail stays to be removed until it is.
LEMMA RemovingStep ==
    ASSUME ThumbnailsTyped, T!ThumbnailsNext, NEW p \in Pictures,
           Removing(p), InPlace(p), ~T!Missed(p), ~T!Cleared(p)
    PROVE  Removing(p)'
<1> PICK t \in Tasks : tasks[t].photo = p /\ tasks[t].pc = "invalidate"
  BY DEF Removing
<1>1. ~T!Restart
  BY DEF T!Missed, T!Interrupted
<1>f. ~T!InvalidateFails(t)
  BY DEF T!Missed
<1>2. ~T!Invalidate(t)
  <2> SUFFICES ASSUME T!Invalidate(t) PROVE FALSE
    OBVIOUS
  <2>1. enabled
    BY DEF T!Missed
  <2>2. holder = T!Free /\ T!Put(cacheDir, p, T!Absent)
    BY <2>1 DEF T!Invalidate
  <2>3. move.pc # "moving"
    BY <2>2 DEF ThumbnailsTyped, T!Free, T!Mover
  <2>4. \A d \in Dirs : thumbs'[d][p] = T!Absent
    BY <2>2, <2>3 DEF ThumbnailsTyped, T!Put, InPlace
  <2>5. ASSUME NEW v \in Tasks, tasks'[v].photo = p
        PROVE  tasks'[v].pc \notin {"set", "write"}
    <3>1. CASE v # t
      <4>1. tasks'[v] = tasks[v]
        BY <3>1 DEF T!Invalidate, T!Invalidated, T!End, T!GoTo, ThumbnailsTyped
      <4>2. tasks[v].pc \in {"set", "write"} => holder = v
        BY GoroutineTyped DEF TaskSound
      <4> QED
        BY <2>2, <4>1, <4>2, PhotosAssumption
    <3>2. CASE v = t
      <4>1. tasks[t] \in Task /\ tasks \in [Tasks -> Task]
        BY GoroutineTyped
      <4>2. tasks'[t] = T!Idle \/ tasks'[t].pc \in {"ensure", "get"}
        BY <4>1 DEF T!Invalidate, T!Invalidated, T!End, T!GoTo, Task
      <4> QED
        BY <3>2, <4>2 DEF T!Idle
    <3> QED
      BY <3>1, <3>2
  <2> QED
    BY <2>4, <2>5 DEF T!Cleared
<1>3. tasks'[t] = tasks[t]
  BY <1>1, <1>f, <1>2, GoroutineGoesOn DEF Proceeds
<1> QED
  BY <1>3 DEF Removing

\* Thumbnails are not older than the row that is saved.
LEMMA FreshStep ==
    ASSUME ThumbnailsTyped, ThumbnailsTyped', T!ThumbnailsNext, NEW p \in Pictures,
           Gone(p), Fresh(p), InPlace(p), ~T!Missed(p), ~T!Cleared(p)
    PROVE  Fresh(p)'
<1> SUFFICES ASSUME ~Removing(p)'
             PROVE  /\ \A d \in Dirs : thumbs'[d][p] \notin {T!Absent, T!Torn} => thumbs'[d][p] >= row'[p]
                    /\ \A t \in Tasks :
                          tasks'[t].photo = p /\ tasks'[t].pc \in {"set", "write"} => tasks'[t].content >= row'[p]
  BY DEF Fresh
<1>1. ~Removing(p)
  BY RemovingStep
<1>0. /\ row[p] \in Nat /\ row'[p] \in Nat /\ last[p] \in Nat /\ row[p] <= last[p]
      /\ \A d \in Dirs : thumbs[d][p] \in Nat \cup {T!Torn} /\ thumbs'[d][p] \in Nat \cup {T!Torn}
      /\ cacheDir \in Dirs
  BY DEF ThumbnailsTyped
<1>2. /\ \A d \in Dirs : thumbs[d][p] \notin {T!Absent, T!Torn} => thumbs[d][p] >= row[p]
      /\ \A t \in Tasks :
            tasks[t].photo = p /\ tasks[t].pc \in {"set", "write"} => tasks[t].content >= row[p]
  BY <1>1 DEF Fresh
<1>3. CASE row'[p] = row[p]
  <2>1. ASSUME NEW d \in Dirs, thumbs'[d][p] \notin {T!Absent, T!Torn}
        PROVE  thumbs'[d][p] >= row[p]
    <3>1. CASE thumbs'[d][p] \in {thumbs[d][p], thumbs[cacheDir][p]}
      BY <1>0, <1>2, <2>1, <3>1
    <3>2. ASSUME NEW t \in Tasks, tasks[t].photo = p, T!Write(t), thumbs'[d][p] = tasks[t].content
          PROVE  thumbs'[d][p] >= row[p]
      BY <1>2, <3>2 DEF T!Write
    <3> QED
      BY <2>1, <3>1, <3>2, ThumbsChange
  <2>2. ASSUME NEW t \in Tasks, tasks'[t].photo = p, tasks'[t].pc \in {"set", "write"}
        PROVE  tasks'[t].content >= row[p]
    <3>0. tasks \in [Tasks -> Task] /\ tasks[t] \in Task
      BY GoroutineTyped
    <3>1. CASE tasks'[t] = tasks[t]
      BY <1>2, <2>2, <3>1
    <3>2. CASE tasks'[t].pc = "set" /\ T!Lock(t) /\ tasks'[t] # tasks[t]
      <4>1. ~T!End(t)
        BY <3>0, <3>2 DEF T!End, T!Idle
      <4>2. tasks' = [tasks EXCEPT ![t].pc = "set", ![t].content = file[tasks[t].photo]] /\ file[tasks[t].photo] # T!Absent
        BY <3>2, <4>1 DEF T!Lock
      <4>3. tasks'[t].photo = tasks[t].photo /\ tasks'[t].content = file[tasks[t].photo]
        BY <3>0, <4>2 DEF Task
      <4>4. file[p] = last[p]
        BY <2>2, <4>2, <4>3 DEF ThumbnailsTyped
      <4> QED
        BY <1>0, <2>2, <4>3, <4>4
    <3>3. CASE tasks'[t].pc = "write" /\ T!Set(t)
      <4>1. tasks' = [tasks EXCEPT ![t].pc = "write"] /\ tasks[t].pc = "set"
        BY <3>3 DEF T!Set, T!GoTo
      <4>2. tasks'[t].photo = tasks[t].photo /\ tasks'[t].content = tasks[t].content
        BY <3>0, <4>1 DEF Task
      <4> QED
        BY <1>2, <2>2, <4>1, <4>2
    <3>4. T!Idle.pc = "idle"
      BY DEF T!Idle
    <3> QED
      BY <2>2, <3>1, <3>2, <3>3, <3>4, GoroutineGoesOn DEF Proceeds
  <2> QED
    BY <1>3, <2>1, <2>2
<1>4. CASE row'[p] # row[p]
  <2>1. RowGoesOn(p)
    BY <1>4, RowChange
  <2>2. ~(pass = "without" /\ tasks' = tasks)
    BY <1>4 DEF T!Missed
  <2>3. row'[p] = T!Absent \/ row[p] = T!Absent
    BY <2>1, <2>2 DEF RowGoesOn
  <2>4. CASE row'[p] = T!Absent
    <3>1. \A t \in Tasks : tasks'[t].content \in Nat
      BY DEF ThumbnailsTyped, Task
    <3> QED
      BY <1>0, <2>4, <3>1 DEF T!Absent
  <2>5. CASE row[p] = T!Absent
    <3>1. NoThumbs(p)
      BY <1>1, <2>5 DEF Gone
    <3> QED
      BY <2>1, <3>1 DEF NoThumbs, RowGoesOn
  <2> QED
    BY <2>3, <2>4, <2>5
<1> QED
  BY <1>3, <1>4

\* A row goes with its thumbnails, or with one who is going to remove them.
LEMMA GoneStep ==
    ASSUME NEW p \in Pictures, ~T!Missed(p), ~T!Cleared(p)
    PROVE  Gone(p)'
BY DEF T!Missed, Gone, Removing

\* Thumbnails are taken to another directory by a move alone, and a restart that
\* finds some elsewhere is an interruption.
LEMMA InPlaceStep ==
    ASSUME ThumbnailsTyped, ThumbnailsTyped', T!ThumbnailsNext, NEW p \in Pictures,
           InPlace(p), ~T!Missed(p)
    PROVE  InPlace(p)'
<1> SUFFICES ASSUME NEW d \in Dirs, d # cacheDir', thumbs'[d][p] # T!Absent
             PROVE  move'.pc = "moving" /\ d = move'.to /\ p \notin move'.todo
  BY DEF InPlace
<1>0. /\ cacheDir \in Dirs /\ cacheDir' \in Dirs /\ move \in CacheMoves
      /\ move.pc = "moving" => holder = T!Mover /\ move.to # cacheDir
  BY DEF ThumbnailsTyped
<1>1. d # cacheDir /\ thumbs[d][p] # T!Absent => move.pc = "moving" /\ d = move.to /\ p \notin move.todo
  BY DEF InPlace
<1>2. CASE T!Restart
  <2>1. ~T!Elsewhere(p) /\ (T!ConfiguredDir = cacheDir \/ ~T!Has(p))
    BY <1>2 DEF T!Missed, T!Interrupted
  <2>2. UNCHANGED thumbs /\ cacheDir' = T!ConfiguredDir
    BY <1>2 DEF T!Restart
  <2> QED
    BY <1>0, <2>1, <2>2 DEF T!Elsewhere, T!Has
<1>3. CASE T!EndMove
  <2>1. UNCHANGED thumbs /\ cacheDir' = move.to /\ ~T!Has(p)
    BY <1>3 DEF T!EndMove, T!Missed
  <2> QED
    BY <1>1, <2>1 DEF T!Has
<1>4. CASE T!MoveFails
  <2>1. UNCHANGED <<thumbs, cacheDir>> /\ thumbs[move.to][p] = T!Absent
    BY <1>4 DEF T!MoveFails, T!Missed
  <2> QED
    BY <1>1, <2>1
<1>5. CASE ~T!Restart /\ ~T!EndMove /\ ~T!MoveFails
  <2>1. cacheDir' = cacheDir
    BY <1>5, CacheStays
  <2>2. CASE thumbs'[d][p] = thumbs[d][p]
    <3>1. move.pc = "moving" /\ d = move.to /\ p \notin move.todo
      BY <1>1, <2>1, <2>2
    <3>2. ~T!SaveSetting /\ ~\E c \in Dirs : T!MoveTo(c)
      BY <3>1 DEF T!SaveSetting, T!MoveTo
    <3>3. move'.pc = "moving" /\ move'.to = move.to /\ move'.todo \subseteq move.todo
      BY <1>0, <1>5, <3>1, <3>2, CacheStays DEF CacheMoves
    <3> QED
      BY <3>1, <3>3
  <2>3. CASE (T!MoveThumb(p) \/ T!LeaveThumb(p)) /\ d = move.to
    BY <1>0, <2>3 DEF T!MoveThumb, T!LeaveThumb, T!Dealt, CacheMoves
  <2> QED
    BY <2>1, <2>2, <2>3, ThumbsChange
<1> QED
  BY <1>2, <1>3, <1>4, <1>5

\* Half a thumbnail in the cache is a goroutine's that has the lock.
LEMMA TornIsHeld ==
    ASSUME ThumbnailsTyped, NEW p \in Pictures, Whole(p), thumbs[cacheDir][p] = T!Torn
    PROVE  /\ holder # T!Free /\ holder # T!Mover
           /\ move.pc # "moving" /\ ~T!MoveThumb(p) /\ ~T!LeaveThumb(p)
<1>1. holder \in Tasks
  BY DEF Whole, ThumbnailsTyped
<1> QED
  BY <1>1, PhotosAssumption DEF ThumbnailsTyped, T!MoveThumb, T!LeaveThumb, T!Dealt

\* It is finished by the one who began it; half a copy has its original.
LEMMA WholeStep ==
    ASSUME ThumbnailsTyped, ThumbnailsTyped', T!ThumbnailsNext, NEW p \in Pictures,
           InPlace(p), Whole(p), ~T!Missed(p)
    PROVE  Whole(p)'
<1> DEFINE Held(d) == \E t \in Tasks : tasks'[t].photo = p /\ tasks'[t].pc = "write" /\ holder' = t
           Copied(d) == d # cacheDir' /\ move'.pc = "moving" /\ thumbs'[cacheDir'][p] # T!Absent
<1> SUFFICES ASSUME NEW d \in Dirs, thumbs'[d][p] = T!Torn
             PROVE  (d = cacheDir' /\ Held(d)) \/ Copied(d)
  BY DEF Whole
<1>0. /\ cacheDir \in Dirs /\ T!Absent # T!Torn
      /\ thumbs \in [Dirs -> [Pictures -> Nat \cup {T!Torn}]] /\ move \in CacheMoves
      /\ move.pc = "moving" => holder = T!Mover /\ move.to # cacheDir
  BY DEF ThumbnailsTyped, T!Absent, T!Torn
<1>w. ASSUME NEW t \in Tasks, tasks[t].photo = p, T!Write(t)
      PROVE  tasks[t].content # T!Torn
  <2>1. tasks[t].content \in Nat
    BY GoroutineTyped
  <2> QED
    BY <2>1 DEF T!Torn
<1>1. CASE thumbs'[d][p] = thumbs[d][p] /\ d = cacheDir
  <2> PICK t \in Tasks : tasks[t].photo = p /\ tasks[t].pc = "write" /\ holder = t
    BY <1>1 DEF Whole
  <2>2. ~T!Set(t) /\ ~T!SetFails(t) /\ ~T!WriteFails(t) /\ ~T!Restart
    BY DEF T!Set, T!SetFails, T!Missed, T!Interrupted
  <2>3. ~T!Write(t)
    <3> SUFFICES ASSUME T!Write(t) PROVE FALSE
      OBVIOUS
    <3>1. thumbs'[cacheDir][p] = tasks[t].content
      BY <1>0 DEF T!Write, T!Put
    <3> QED
      BY <1>w, <1>1, <3>1
  <2>4. UNCHANGED <<cacheDir, holder>> /\ tasks'[t] = tasks[t]
    BY <2>2, <2>3, LockedStep
  <2> QED
    BY <1>1, <2>4
<1>4. CASE thumbs'[d][p] = thumbs[d][p] /\ d # cacheDir
  <2>1. /\ move.pc = "moving" /\ d = move.to /\ p \notin move.todo
        /\ thumbs[cacheDir][p] \notin {T!Absent, T!Torn}
    BY <1>0, <1>4, TornIsHeld DEF InPlace, Whole
  <2>2. ~T!EndMove /\ ~T!MoveFails /\ ~T!Restart /\ ~T!SaveSetting /\ ~\E c \in Dirs : T!MoveTo(c)
    BY <1>0, <1>4, <2>1 DEF T!Missed, T!Interrupted, T!Elsewhere, T!Has, T!SaveSetting, T!MoveTo
  <2>3. cacheDir' = cacheDir /\ move'.pc = "moving"
    BY <1>0, <2>1, <2>2, CacheStays DEF CacheMoves
  <2>4. /\ ~T!MoveThumb(p) /\ ~T!LeaveThumb(p) /\ holder = T!Mover /\ holder # T!Free
        /\ \A t \in Tasks : ~T!Set(t) /\ ~T!Write(t)
    BY <1>0, <2>1, GoroutineTyped, PhotosAssumption
    DEF T!Set, T!Write, T!SetFails, T!WriteFails, TaskSound, T!MoveThumb, T!LeaveThumb,
        T!Dealt, T!Free, T!Mover
  <2>5. thumbs'[cacheDir][p] = thumbs[cacheDir][p]
    BY <1>0, <2>4, ThumbsChange
  <2> QED
    BY <1>4, <2>1, <2>3, <2>5
<1>2. ASSUME NEW t \in Tasks, tasks[t].photo = p, T!Set(t), d = cacheDir
      PROVE  d = cacheDir' /\ tasks'[t].photo = p /\ tasks'[t].pc = "write" /\ holder' = t
  <2>1. holder = t /\ tasks \in [Tasks -> Task] /\ tasks[t] \in Task
    BY <1>2, GoroutineTyped DEF T!Set, TaskSound
  <2>2. tasks' = [tasks EXCEPT ![t].pc = "write"] /\ UNCHANGED <<holder, cacheDir>>
    BY <1>2 DEF T!Set, T!GoTo, T!service
  <2> QED
    BY <1>2, <2>1, <2>2 DEF Task
<1>3. CASE T!MoveThumb(p) /\ thumbs'[d][p] = thumbs[cacheDir][p]
  BY <1>0, <1>3, TornIsHeld
<1>5. CASE T!LeaveThumb(p) /\ d = move.to /\ thumbs'[cacheDir][p] = thumbs[cacheDir][p]
  <2>1. /\ cacheDir' = cacheDir /\ move.pc = "moving" /\ move'.pc = "moving" /\ p \in move.todo
    BY <1>0, <1>5 DEF T!LeaveThumb, T!Dealt, CacheMoves
  <2>2. thumbs[cacheDir][p] # T!Absent
    BY <2>1 DEF ThumbnailsTyped
  <2> QED
    BY <1>0, <1>5, <2>1, <2>2
<1> HIDE DEF Held, Copied
<1>6. (\E t \in Tasks : tasks[t].photo = p /\ T!Set(t)) /\ d = cacheDir => d = cacheDir' /\ Held(d)
  BY <1>2 DEF Held
<1> QED
  BY <1>0, <1>w, <1>1, <1>3, <1>4, <1>5, <1>6, ThumbsChange

\* What a goroutine is about to read is whole, unless it is taken away.
LEMMA ReadsWholeStep ==
    ASSUME ThumbnailsTyped, T!ThumbnailsNext, T!ThumbnailWatch, NEW t \in Tasks, ReadsWhole(t),
           \A p \in Pictures \ excused : InPlace(p) /\ Whole(p)
    PROVE  ReadsWhole(t)'
<1> DEFINE p == tasks'[t].photo
           d == tasks'[t].dir
<1> SUFFICES ASSUME tasks'[t].pc = "read", t \notin overtaken', p \notin excused'
             PROVE  thumbs'[d][p] \notin {T!Absent, T!Torn}
  BY DEF ReadsWhole
<1>0. /\ cacheDir \in Dirs /\ T!Absent # T!Torn
  BY DEF ThumbnailsTyped, T!Absent, T!Torn
<1>1. p \in Pictures /\ d \in Dirs
  BY GoroutinesStep DEF TaskSound
<1>2. T!Cleared(p) \/ (p \notin excused /\ ~T!Missed(p))
  BY <1>1 DEF T!ThumbnailWatch
<1>3. thumbs'[d][p] # T!Absent => p \notin excused /\ InPlace(p) /\ Whole(p)
  BY <1>1, <1>2 DEF T!Cleared
<1>4. CASE tasks'[t] = tasks[t]
  <2>1. thumbs'[d][p] # T!Absent /\ t \notin overtaken
    BY <1>4 DEF T!ThumbnailWatch
  <2>2. p \notin excused /\ InPlace(p) /\ Whole(p)
    BY <1>3, <2>1
  <2>3. thumbs[d][p] \notin {T!Absent, T!Torn}
    BY <1>4, <2>1, <2>2 DEF ReadsWhole
  <2>4. ~\E v \in Tasks : tasks[v].photo = p /\ T!Set(v) /\ d = cacheDir
    BY <2>3, GoroutineTyped DEF T!Set, TaskSound
  <2>5. ASSUME NEW v \in Tasks, tasks[v].photo = p, T!Write(v)
        PROVE  tasks[v].content # T!Torn
    <3>1. tasks[v].content \in Nat
      BY GoroutineTyped
    <3> QED
      BY <3>1 DEF T!Torn
  <2>6. T!MoveThumb(p) => thumbs[cacheDir][p] # T!Torn
    BY <1>0, <1>1, <2>2, TornIsHeld
  <2>7. ~(T!LeaveThumb(p) /\ d = move.to)
    <3> SUFFICES ASSUME T!LeaveThumb(p), d = move.to PROVE FALSE
      OBVIOUS
    <3>1. p \in move.todo /\ move.to # cacheDir
      BY DEF T!LeaveThumb, T!Dealt, ThumbnailsTyped
    <3> QED
      BY <1>1, <2>2, <2>3, <3>1 DEF InPlace
  <2> HIDE DEF p, d
  <2> QED
    BY <1>0, <1>1, <2>1, <2>3, <2>4, <2>5, <2>6, <2>7, ThumbsChange
<1>5. CASE T!Get(t) /\ tasks'[t] # tasks[t] /\ Proceeds(t)
  <2>1. d = cacheDir /\ tasks[t].pc = "get" /\ holder = T!Free /\ UNCHANGED thumbs /\ p = tasks[t].photo
    BY <1>5 DEF Proceeds, T!Get
  <2>2. T!Has(p)
    <3> SUFFICES ASSUME ~T!Has(p) PROVE FALSE
      OBVIOUS
    <3>1. T!End(t) \/ T!GoTo(t, "lock")
      BY <1>5, <2>1 DEF T!Get
    <3>2. tasks'[t].pc \in {"idle", "lock"}
      BY <3>1, GoroutineTyped DEF T!End, T!GoTo, T!Idle, Task
    <3> QED
      BY <3>2
  <2>3. thumbs'[d][p] # T!Absent /\ Whole(p)
    BY <1>3, <2>1, <2>2 DEF T!Has
  <2>4. thumbs[d][p] # T!Torn
    BY <1>1, <2>1, <2>3, TornIsHeld
  <2> QED
    BY <2>1, <2>3, <2>4
<1>6. T!Idle.pc = "idle"
  BY DEF T!Idle
<1> QED
  BY <1>4, <1>5, <1>6, GoroutineGoesOn DEF Proceeds

-----------------------------------------------------------------------------
(* Thumbnails: the invariant *)

\* It holds when the scene begins: there are no thumbnails.
LEMMA ThumbnailsBegin == PhotosInit => ThumbnailsInv
<1> SUFFICES ASSUME PhotosInit PROVE ThumbnailsInv
  OBVIOUS
<1>1. /\ file \in [Pictures -> {T!Absent, 1}]
      /\ last = file
      /\ row = [p \in Pictures |-> T!Absent]
      /\ thumbs = [d \in Dirs |-> [p \in Pictures |-> T!Absent]]
      /\ cacheDir = DefaultDir
      /\ setting = T!NoSetting
      /\ holder = T!Free
      /\ tasks = [t \in Tasks |-> T!Idle]
      /\ move = T!NoMove
  BY DEF PhotosInit, T!Init, T!ThumbnailsInit
<1>2. \A t \in Tasks : tasks[t] = T!Idle /\ tasks[t].pc = "idle"
  BY <1>1 DEF T!Idle
<1>3. T!Idle \in Task /\ T!NoMove \in CacheMoves /\ T!NoMove.pc = "none"
  BY DEF T!Idle, Task, T!Absent, T!NoMove, CacheMoves
<1>4. \A d \in Dirs, p \in Pictures : thumbs[d][p] = T!Absent
  BY <1>1
<1>5. \A p \in Pictures : last[p] \in Nat /\ file[p] = last[p] /\ row[p] = 0 /\ T!Absent = 0
  BY <1>1 DEF T!Absent
<1>6. ThumbnailsTyped
  <2>1. /\ file \in [Pictures -> Nat] /\ last \in [Pictures -> Nat] /\ row \in [Pictures -> Nat]
        /\ thumbs \in [Dirs -> [Pictures -> Nat \cup {T!Torn}]]
    BY <1>1 DEF T!Absent
  <2>2. \A d \in Dirs, p \in Pictures : thumbs[d][p] \in ShownOf(p)
    BY <1>4, <1>5 DEF ShownOf
  <2>3. tasks \in [Tasks -> Task] /\ \A t \in Tasks : TaskSound(t)
    BY <1>1, <1>2, <1>3 DEF TaskSound
  <2> QED
    BY <1>1, <1>3, <1>5, <2>1, <2>2, <2>3, PhotosAssumption DEF ThumbnailsTyped
<1>7. T!Absent # T!Torn
  BY DEF T!Absent, T!Torn
<1>8. \A p \in Pictures : Gone(p) /\ Fresh(p) /\ InPlace(p) /\ Whole(p)
  BY <1>2, <1>4, <1>7 DEF Gone, NoThumbs, Fresh, InPlace, Whole
<1>9. \A t \in Tasks : ReadsWhole(t)
  BY <1>2 DEF ReadsWhole
<1> QED
  BY <1>6, <1>8, <1>9 DEF ThumbnailsInv

\* Every step of the scene keeps it.
LEMMA ThumbnailsStep == ThumbnailsInv /\ T!Next => ThumbnailsInv'
<1> SUFFICES ASSUME ThumbnailsInv, T!Next PROVE ThumbnailsInv'
  OBVIOUS
<1>1. /\ ThumbnailsTyped
      /\ \A p \in Pictures \ excused : Gone(p) /\ Fresh(p) /\ InPlace(p) /\ Whole(p)
      /\ \A t \in Tasks : ReadsWhole(t)
  BY DEF ThumbnailsInv
<1>2. T!ThumbnailsNext /\ T!ThumbnailWatch
  BY DEF T!Next
<1>3. ThumbnailsTyped'
  BY <1>1, <1>2, ThumbnailsTypedStep
<1>4. ASSUME NEW p \in Pictures, p \notin excused'
      PROVE  Gone(p)' /\ Fresh(p)' /\ InPlace(p)' /\ Whole(p)'
  <2>1. T!Cleared(p) \/ (p \notin excused /\ ~T!Missed(p))
    BY <1>2, <1>4 DEF T!ThumbnailWatch
  <2>2. CASE T!Cleared(p)
    BY <1>3, <2>2, ClearedStep
  <2>3. CASE p \notin excused /\ ~T!Missed(p) /\ ~T!Cleared(p)
    <3>1. Gone(p) /\ Fresh(p) /\ InPlace(p) /\ Whole(p)
      BY <1>1, <2>3
    <3> QED
      BY <1>1, <1>2, <1>3, <2>3, <3>1, GoneStep, FreshStep, InPlaceStep, WholeStep
  <2> QED
    BY <2>1, <2>2, <2>3
<1>5. \A t \in Tasks : ReadsWhole(t)'
  BY <1>1, <1>2, ReadsWholeStep
<1> QED
  BY <1>3, <1>4, <1>5 DEF ThumbnailsInv

\* The other scenes leave the cache alone.
LEMMA ThumbnailsStill == ThumbnailsInv /\ UNCHANGED thumbnails => ThumbnailsInv'
<1> SUFFICES ASSUME ThumbnailsInv, UNCHANGED thumbnails PROVE ThumbnailsInv'
  OBVIOUS
<1>1. UNCHANGED <<file, last, row, thumbs, cacheDir, setting, holder, tasks, move, excused, overtaken>>
  BY DEF thumbnails
<1>2. ThumbnailsTyped'
  BY <1>1 DEF ThumbnailsInv, ThumbnailsTyped, ShownOf, TaskSound
<1>3. \A p \in Pictures \ excused' : Gone(p)' /\ Fresh(p)' /\ InPlace(p)' /\ Whole(p)'
  BY <1>1 DEF ThumbnailsInv, Gone, NoThumbs, Removing, Fresh, InPlace, Whole
<1>4. \A t \in Tasks : ReadsWhole(t)'
  BY <1>1 DEF ThumbnailsInv, ReadsWhole
<1> QED
  BY <1>2, <1>3, <1>4 DEF ThumbnailsInv

\* What it says of the photos that nobody is at work on, and of answers.
LEMMA ThumbnailsSound == ThumbnailsInv => ThumbnailsAreCurrent
<1> SUFFICES ASSUME ThumbnailsInv PROVE ThumbnailsAreCurrent
  OBVIOUS
<1>0. ThumbnailsTyped /\ cacheDir \in Dirs /\ T!Absent # T!Torn
  BY DEF ThumbnailsInv, ThumbnailsTyped, T!Absent, T!Torn
<1>1. ASSUME NEW p \in Pictures \ excused, T!Settled(p)
      PROVE  thumbs[cacheDir][p] \in {T!Absent, file[p]} \/ T!Writing(p)
  <2>1. Fresh(p) /\ Whole(p)
    BY DEF ThumbnailsInv
  <2>2. CASE thumbs[cacheDir][p] = T!Torn
    BY <1>0, <2>1, <2>2 DEF Whole, T!Writing
  <2>3. CASE thumbs[cacheDir][p] \notin {T!Absent, T!Torn}
    <3>1. ~Removing(p) /\ row[p] = file[p] /\ file[p] # T!Absent
      BY <1>1 DEF T!Settled, Removing
    <3>2. thumbs[cacheDir][p] >= row[p]
      BY <1>0, <2>1, <2>3, <3>1 DEF Fresh
    <3>3. file[p] = last[p] /\ last[p] \in Nat
      BY <1>0, <3>1 DEF ThumbnailsTyped
    <3>4. thumbs[cacheDir][p] \in 0 .. last[p]
      BY <1>0, <2>3 DEF ThumbnailsTyped, ShownOf
    <3> QED
      BY <3>1, <3>2, <3>3, <3>4
  <2> QED
    BY <2>2, <2>3
<1>2. ASSUME NEW t \in Tasks, T!Answer(t) = T!Torn, tasks[t].photo \notin excused
      PROVE  t \in overtaken
  <2>1. CASE tasks[t].pc = "read"
    <3>1. T!Answer(t) = thumbs[tasks[t].dir][tasks[t].photo]
      BY <2>1 DEF T!Answer
    <3> QED
      BY <1>2, <2>1, <3>1 DEF ThumbnailsInv, ReadsWhole
  <2>2. CASE tasks[t].pc = "lock" /\ holder = T!Free /\ enabled
    <3>1. T!Answer(t) = thumbs[cacheDir][tasks[t].photo]
      BY <2>2 DEF T!Answer
    <3>2. tasks[t].photo \in Pictures
      BY <1>0, <2>2, GoroutineTyped DEF TaskSound
    <3>3. Whole(tasks[t].photo)
      BY <1>2, <3>2 DEF ThumbnailsInv
    <3> QED
      BY <1>0, <1>2, <2>2, <3>1, <3>2, <3>3, TornIsHeld
  <2>3. CASE tasks[t].pc # "read" /\ ~(tasks[t].pc = "lock" /\ holder = T!Free /\ enabled)
    BY <1>0, <1>2, <2>3 DEF T!Answer
  <2> QED
    BY <2>1, <2>2, <2>3
<1> QED
  BY <1>1, <1>2 DEF ThumbnailsAreCurrent, T!ThumbnailsAreCurrent, T!AnswersAreWhole

\* A settled photo's thumbnail shows the photo as it is, and answers are whole,
\* for any number of photos, goroutines and directories, whichever thumbnails
\* cannot be written, removed or moved; excepted are photos with a thumbnail that
\* the code leaves behind (MCThumbnails: Missed), until all of theirs are gone
\* (service.go: GetOrGenerate, Invalidate, moveCacheTo; storage.go: Set, Delete).
THEOREM ThumbnailsKept == PhotosSpec => []ThumbnailsAreCurrent
<1>1. ThumbnailsInv /\ [PhotosNext]_photosVars => ThumbnailsInv'
  <2>1. ThumbnailsInv /\ PhotosNext => ThumbnailsInv'
    BY ThumbnailsStep, ThumbnailsStill DEF PhotosNext, Browse, HandleFiles, Cache, Locate, Frame
  <2>2. ThumbnailsInv /\ UNCHANGED photosVars => ThumbnailsInv'
    BY ThumbnailsStill DEF photosVars
  <2> QED
    BY <2>1, <2>2
<1> QED
  BY <1>1, ThumbnailsBegin, ThumbnailsSound, PTL DEF PhotosSpec

-----------------------------------------------------------------------------
(* Faces: what the user curated between passes, and that people are there *)

\* Rows have their columns, and ids are only ever those given out.
FaceRows ==
    /\ shows \in Seq(Nat) /\ DOMAIN faces \subseteq 1 .. Len(shows)
    /\ \A f \in DOMAIN faces : DOMAIN faces[f] = {"person", "manual"}
    /\ nextPerson \in Nat \ {0} /\ DOMAIN people \subseteq 1 .. nextPerson - 1
    /\ \A p \in DOMAIN people : DOMAIN people[p] = {"manual", "cover", "current"}

\* No loop but one is at work.
OneLoop ==
    /\ DOMAIN job = Loops /\ \A w \in Loops : DOMAIN job[w] = DOMAIN NoJob
    /\ \A v, w \in Loops : job[v].pc # "idle" /\ job[w].pc # "idle" => v = w

\* Faces that the user has not assigned, nor detached
Untaken(F) == \A f \in F \cap DOMAIN faces : ~faces[f].manual

\* What a loop is about to assign the user has not.
Held(w) ==
    /\ job[w].pc \in {"match", "assign", "label"} => Untaken(job[w].members)
    /\ job[w].pc = "assign" => \A o \in job[w].orders : Untaken(o.faces)
    /\ job[w].pc \in {"found", "newcomer", "exemplars"} =>
          \A C \in job[w].clusters : Untaken(C)

HeldAreUntaken == \A w \in Loops : Held(w)

\* Who is in one merge is in no other, and only who is generated is merged away.
Apart(w) ==
    job[w].pc \in {"mergeFaces", "mergePerson", "mergeReferences"} =>
        /\ job[w].merges \subseteq Nat \X Nat
        /\ \A x, y \in job[w].merges : {x[1], x[2]} \cap {y[1], y[2]} # {} => x = y
        /\ \A x \in job[w].merges :
              /\ x[1] # x[2] /\ x[1] \in DOMAIN people
              /\ x[2] \in Generated \/ (job[w].pc = "mergeReferences" /\ x \in Merging(w))

MergesApart == \A w \in Loops : Apart(w)

\* A request names people who are there, while no loop works; where no user acts
\* there is none.
Fits(r) ==
    /\ r.op = "assign" => {r.person, r.previous} \subseteq DOMAIN people \cup {Nobody}
    /\ r.op = "merge" => r.person \in DOMAIN people \ r.sources

RequestsFit ==
    /\ DOMAIN request = Users /\ \A u \in Users : Fits(request[u])
    /\ scenario.users = "never" => NoneAsked

\* Who is there, or was cut off by a crash
Standing == DOMAIN people \cup used.cut

\* Whoever has exemplars is there, but for who has just been merged away.
OwnersAreThere ==
    /\ DOMAIN references = PersonIds
    /\ \A p \in PersonIds : references[p] # <<>> =>
           \/ p \in Standing
           \/ \E w \in Loops : At(w, "mergeReferences") /\ \E pq \in Merging(w) : p = pq[2]

\* Before people are deleted nothing is left of theirs.
Deserted(w) ==
    /\ job[w].pc \in {"resetReferences", "resetPeople"} => \A p \in Generated : FacesOf(p) = {}
    /\ job[w].pc = "resetPeople" => \A p \in Generated \cap PersonIds : references[p] = <<>>
    /\ job[w].pc = "tidyPeople" => \A p \in Empty \cap PersonIds : references[p] = <<>>
    /\ job[w].pc = "mergePerson" => \A pq \in Merging(w) : FacesOf(pq[2]) = {}

\* Whom a loop is about to assign faces to is there.
Addressed(w) ==
    /\ job[w].pc \in {"match", "assign", "label", "found", "newcomer", "exemplars"} =>
          /\ \A p \in PersonIds : job[w].known[p] # <<>> => p \in Standing
          /\ \A f \in DOMAIN job[w].near : job[w].near[f] \subseteq Standing \cup PersonIds
    /\ job[w].pc \in {"match", "assign", "label"} => job[w].members \subseteq DOMAIN job[w].near
    /\ job[w].pc = "assign" => \A o \in job[w].orders : o.person \in Standing
    /\ job[w].pc \in {"found", "newcomer", "exemplars"} =>
          \A C \in job[w].clusters : C \subseteq DOMAIN job[w].near
    /\ job[w].pc \in {"newcomer", "exemplars"} => job[w].newcomer \in DOMAIN people

\* Only a crash cuts anybody off, and where there are crashes no user acts.
CutByCrashes == "cut" \in DOMAIN used /\ (used.cut = {} \/ May("crash"))

PeopleAreThere ==
    /\ NoFaceOfAStranger /\ OwnersAreThere
    /\ \A w \in Loops : Deserted(w) /\ Addressed(w)

FacesInv ==
    /\ scenario \in Scenarios
    /\ scenario.users # "ever" =>
          /\ FaceRows /\ OneLoop /\ HeldAreUntaken /\ MergesApart
          /\ RequestsFit /\ CutByCrashes /\ PeopleAreThere


\* The numbers of a finite set are counted in order.
LEMMA CountedInOrder ==
    ASSUME NEW S, IsFiniteSet(S), S \subseteq Nat
    PROVE  /\ Cardinality(S) \in Nat
           /\ \A n \in 1 .. Cardinality(S) : \E d \in S : Cardinality({e \in S : e <= d}) = n
  <1> DEFINE c == Cardinality(S)
             Upto(d) == {e \in S : e <= d}
             r == [d \in S |-> Cardinality(Upto(d))]
  <1>1. c \in Nat  BY FS_CardinalityType
  <1>2. \A d \in S : /\ IsFiniteSet(Upto(d)) /\ Cardinality(Upto(d)) \in Nat
                     /\ Cardinality(Upto(d)) \in 1 .. c
    <2> TAKE d \in S
    <2>1. Upto(d) \in SUBSET S /\ d \in Upto(d)  OBVIOUS
    <2> HIDE DEF Upto
    <2>2. IsFiniteSet(Upto(d)) /\ Cardinality(Upto(d)) <= c  BY <2>1, FS_Subset
    <2>3. Cardinality(Upto(d)) \in Nat  BY <2>2, FS_CardinalityType
    <2>4. Cardinality(Upto(d)) # 0  BY <2>1, <2>2, FS_EmptySet
    <2> QED  BY <1>1, <2>2, <2>3, <2>4
  <1>3. \A a, b \in S : a < b => Cardinality(Upto(a)) < Cardinality(Upto(b))
    <2> SUFFICES ASSUME NEW a \in S, NEW b \in S, a < b
                 PROVE  Cardinality(Upto(a)) < Cardinality(Upto(b))
      OBVIOUS
    <2>1. a \in Nat /\ b \in Nat  OBVIOUS
    <2>2. \A e \in Upto(a) : e \in Upto(b)  BY <2>1
    <2>3. b \in Upto(b) /\ b \notin Upto(a)  BY <2>1
    <2> HIDE DEF Upto
    <2>4. Upto(a) \in SUBSET Upto(b) /\ Upto(a) # Upto(b)  BY <2>2, <2>3
    <2>5. /\ Cardinality(Upto(a)) <= Cardinality(Upto(b))
          /\ Cardinality(Upto(a)) # Cardinality(Upto(b))
      BY <1>2, <2>4, FS_Subset
    <2> QED  BY <1>2, <2>5
  <1>4. r \in Injection(S, 1 .. c)
    <2>1. \A a, b \in S : Cardinality(Upto(a)) = Cardinality(Upto(b)) => a = b
      <3> HIDE DEF Upto
      <3> SUFFICES ASSUME NEW a \in S, NEW b \in S, a # b
                   PROVE  Cardinality(Upto(a)) # Cardinality(Upto(b))
        OBVIOUS
      <3>1. a < b \/ b < a  OBVIOUS
      <3>2. Cardinality(Upto(a)) \in Nat /\ Cardinality(Upto(b)) \in Nat  BY <1>2
      <3> QED  BY <1>3, <3>1, <3>2
    <2> HIDE DEF Upto, c
    <2> QED  BY <1>2, <2>1 DEF Injection, IsInjective
  <1>5. IsFiniteSet(1 .. c) /\ Cardinality(1 .. c) = c  BY <1>1, FS_Interval
  <1>6. r \in Surjection(S, 1 .. c)
    <2> HIDE DEF r, c
    <2> QED  BY <1>4, <1>5, FS_Injection DEF c
  <1>7. \A n \in 1 .. c : \E d \in S : Cardinality(Upto(d)) = n  BY <1>6 DEF Surjection
  <1> QED  BY <1>1, <1>7

\* What is seen in a photo is a sequence of what there is to detect.
LEMMA ToSeeTyped ==
    ASSUME NEW i
    PROVE  ToSee(i) \in Seq(Nat)
  <1> DEFINE there == {d \in Detections : PhotoOf[d] = i}
  <1>1. there \in SUBSET Detections /\ IsFiniteSet(Detections) /\ Detections \subseteq Nat
    BY TablesOK
  <1>2. IsFiniteSet(there) /\ there \subseteq Nat  BY <1>1, FS_Subset
  <1> HIDE DEF there
  <1>3. /\ Cardinality(there) \in Nat
        /\ \A n \in 1 .. Cardinality(there) :
              \E d \in there : Cardinality({e \in there : e <= d}) = n
    BY <1>2, CountedInOrder
  <1>4. ToSee(i) = [n \in 1 .. Cardinality(there) |->
                       CHOOSE d \in there : Cardinality({e \in there : e <= d}) = n]
    BY DEF ToSee, there
  <1>5. ToSee(i) \in [1 .. Cardinality(there) -> Nat]
    <2> DEFINE d(n) == CHOOSE d \in there : Cardinality({e \in there : e <= d}) = n
    <2>1. ToSee(i) = [n \in 1 .. Cardinality(there) |-> d(n)]  BY <1>4
    <2>2. \A n \in 1 .. Cardinality(there) : d(n) \in Nat  BY <1>2, <1>3
    <2> HIDE DEF d
    <2> QED  BY <2>1, <2>2
  <1> QED  BY <1>3, <1>5

\* What a step may do to the rows: nothing; assign faces that the user has not,
\* or those of generated people; ...
Leaves == UNCHANGED <<shows, faces, people, nextPerson>>

Assigns ==
    /\ UNCHANGED <<shows, people, nextPerson>>
    /\ \E F, p :
          /\ faces' = Assigned(F, p)
          /\ \A f \in F \cap DOMAIN faces : faces[f].manual => faces[f].person \in Generated

\* ... delete people who are generated, and update the others; ...
Thins ==
    /\ UNCHANGED <<shows, faces, nextPerson>>
    /\ DOMAIN people' \subseteq DOMAIN people /\ DOMAIN people \ Generated \subseteq DOMAIN people'
    /\ \A p \in DOMAIN people' :
          DOMAIN people'[p] = DOMAIN people[p] /\ people'[p].manual = people[p].manual

\* ... create a person; replace the faces of a photo.
Creates ==
    /\ UNCHANGED <<shows, faces>> /\ nextPerson' = nextPerson + 1
    /\ \E c : people' = WithRow(people, nextPerson, [manual |-> FALSE, current |-> TRUE, cover |-> c])

Replaces ==
    /\ UNCHANGED <<people, nextPerson>>
    /\ \E new \in Seq(Nat) :
          /\ shows' = shows \o new
          /\ DOMAIN faces' \subseteq DOMAIN faces \cup (Len(shows) + 1 .. Len(shows) + Len(new))
          /\ \A f \in DOMAIN faces' :
                faces'[f] = IF f <= Len(shows) THEN faces[f] ELSE [person |-> Nobody, manual |-> FALSE]

Effects == Leaves \/ Assigns \/ Thins \/ Creates \/ Replaces

\* The steps of a loop, whether its services answer or not
Advances(w) == Work(w) \/ Fault(w)

\* Those that have nothing to do with the rows
Reads(w) ==
    \/ BeginPass(w) \/ Again(w) \/ Leave(w)
    \/ \E S : Dispatch(w, S) \/ Outcome(w, S)
    \/ RequestFails(w) \/ AbandonPass(w) \/ Analysed(w)
    \/ \E reports, answers : Snapshot(w, reports, answers)
    \/ MatchKnown(w) \/ AllKnown(w) \/ Label(w) \/ LabelFails(w) \/ AllPeople(w)
    \/ \E reports : Reconcile(w, reports) \/ ReadCovers(w, reports)
    \/ ResetReferences(w) \/ RebuildDetached(w) \/ StoreExemplars(w) \/ Round(w)
    \/ TidyReferences(w) \/ MarkScanned(w)

\* Those that assign faces, and those that update people
Assigning(w) ==
    \/ ResetFaces(w) \/ (\E reports : Detach(w, reports)) \/ AssignKnown(w) \/ ExtendPerson(w) \/ FillPerson(w)
    \/ MergeFaces(w)

Updating(w) ==
    \/ ResetPeople(w) \/ MergePerson(w) \/ MergeReferences(w) \/ MarkReconciled(w)
    \/ WriteCovers(w) \/ TidyPeople(w)

\* There are no others.
LEMMA AdvancesAre ==
    ASSUME NEW w, Advances(w)
    PROVE  Reads(w) \/ Assigning(w) \/ Updating(w) \/ CreatePerson(w) \/ Apply(w)
  <1>1. CASE Work(w)  BY <1>1 DEF Work, Reads, Assigning, Updating
  <1>2. CASE Fault(w)  BY <1>2 DEF Fault, Reads, Assigning
  <1> QED  BY <1>1, <1>2 DEF Advances

\* Reading leaves the rows.
LEMMA ReadsLeave ==
    ASSUME NEW w, Reads(w)
    PROVE  Leaves
  <1>1. CASE \/ BeginPass(w) \/ Again(w) \/ Leave(w) \/ (\E S : Dispatch(w, S) \/ Outcome(w, S))
             \/ RequestFails(w) \/ AbandonPass(w) \/ Analysed(w)
    BY <1>1 DEF BeginPass, Again, Leave, Dispatch, Outcome, RequestFails, AbandonPass, Analysed,
                KeepsTables, tables, Leaves
  <1>2. CASE \/ (\E reports, answers : Snapshot(w, reports, answers)) \/ MatchKnown(w) \/ AllKnown(w)
             \/ Label(w) \/ LabelFails(w) \/ AllPeople(w)
             \/ \E reports : Reconcile(w, reports) \/ ReadCovers(w, reports)
    BY <1>2 DEF Snapshot, MatchKnown, AllKnown, Label, LabelFails, AllPeople, Reconcile, ReadCovers,
                KeepsTables, tables, Leaves
  <1>3. CASE \/ ResetReferences(w) \/ RebuildDetached(w) \/ StoreExemplars(w) \/ Round(w)
             \/ TidyReferences(w) \/ MarkScanned(w)
    BY <1>3 DEF ResetReferences, RebuildDetached, StoreExemplars, Round, TidyReferences, MarkScanned,
                Leaves
  <1> QED  BY <1>1, <1>2, <1>3 DEF Reads

\* Assignments are of faces that the user has not assigned to somebody of his.
LEMMA AssigningAssigns ==
    ASSUME HeldAreUntaken, MergesApart, NEW w \in Loops, Assigning(w)
    PROVE  Assigns
  <1>1. CASE ResetFaces(w)
    <2>1. \A f \in OfGenerated : faces[f].person \in Generated  BY DEF OfGenerated, FacesOf
    <2> QED  BY <1>1, <2>1 DEF ResetFaces, Assigns
  <1>2. ASSUME NEW reports, Detach(w, reports) PROVE Assigns
    <2> DEFINE F == IF reports THEN DetachedFaces ELSE {}
    <2>1. \A f \in F : ~faces[f].manual  BY DEF DetachedFaces
    <2>2. faces' = Assigned(F, Nobody) /\ UNCHANGED <<shows, people, nextPerson>>
      BY <1>2 DEF Detach
    <2> QED  BY <2>1, <2>2 DEF Assigns
  <1>3. CASE AssignKnown(w)
    <2>1. PICK o \in job[w].orders : faces' = Assigned(o.faces, o.person)
      BY <1>3 DEF AssignKnown
    <2>2. job[w].pc = "assign" /\ UNCHANGED <<shows, people, nextPerson>>
      BY <1>3 DEF AssignKnown, At
    <2>3. Untaken(o.faces)  BY <2>2 DEF HeldAreUntaken, Held
    <2> QED  BY <2>1, <2>2, <2>3 DEF Assigns, Untaken
  <1>4. CASE ExtendPerson(w)
    <2>1. PICK C \in job[w].clusters : \E p : faces' = Assigned(C, p)
      BY <1>4 DEF ExtendPerson
    <2>2. job[w].pc = "found" /\ UNCHANGED <<shows, people, nextPerson>>
      BY <1>4 DEF ExtendPerson, At
    <2>3. Untaken(C)  BY <2>2 DEF HeldAreUntaken, Held
    <2> QED  BY <2>1, <2>2, <2>3 DEF Assigns, Untaken
  <1>5. CASE FillPerson(w)
    <2>1. PICK C \in job[w].clusters : faces' = Assigned(C, job[w].newcomer)
      BY <1>5 DEF FillPerson
    <2>2. job[w].pc = "newcomer" /\ UNCHANGED <<shows, people, nextPerson>>
      BY <1>5 DEF FillPerson, At
    <2>3. Untaken(C)  BY <2>2 DEF HeldAreUntaken, Held
    <2> QED  BY <2>1, <2>2, <2>3 DEF Assigns, Untaken
  <1>6. CASE MergeFaces(w)
    <2>1. PICK pq \in Merging(w) : faces' = Assigned(FacesOf(pq[2]), pq[1])
      BY <1>6 DEF MergeFaces
    <2>2. job[w].pc = "mergeFaces" /\ UNCHANGED <<shows, people, nextPerson>>
      BY <1>6 DEF MergeFaces, At
    <2>3. pq[2] \in Generated  BY <2>2 DEF MergesApart, Apart, Merging
    <2>4. \A f \in FacesOf(pq[2]) : faces[f].person \in Generated  BY <2>3 DEF FacesOf
    <2> QED  BY <2>1, <2>2, <2>4 DEF Assigns
  <1> QED  BY <1>1, <1>2, <1>3, <1>4, <1>5, <1>6 DEF Assigning

\* Only generated people are deleted.
LEMMA UpdatingThins ==
    ASSUME FaceRows, MergesApart, NEW w \in Loops, Updating(w)
    PROVE  Thins
  <1>0. \A p \in DOMAIN people : DOMAIN people[p] = {"manual", "cover", "current"}
    BY DEF FaceRows
  <1>1. ASSUME NEW S, S \subseteq Generated, people' = Without(people, S),
               UNCHANGED <<shows, faces, nextPerson>>
        PROVE  Thins
    BY <1>1 DEF Thins, Without
  <1>2. CASE ResetPeople(w)  BY <1>1, <1>2 DEF ResetPeople
  <1>3. CASE MergePerson(w)
    <2>1. PICK pq \in Merging(w) : people' = Without(people, {pq[2]})
      BY <1>3 DEF MergePerson
    <2>2. job[w].pc = "mergePerson" /\ UNCHANGED <<shows, faces, nextPerson>>
      BY <1>3 DEF MergePerson, At
    <2>3. pq[2] \in Generated  BY <2>2 DEF MergesApart, Apart, Merging
    <2> QED  BY <1>1, <2>1, <2>2, <2>3
  <1>4. CASE TidyPeople(w)
    <2>1. Empty \subseteq Generated  BY DEF Empty
    <2> QED  BY <1>1, <1>4, <2>1 DEF TidyPeople
  <1>5. CASE MergeReferences(w)
    <2>1. PICK pq : people' = [p \in DOMAIN people |->
                IF p = pq[1] THEN [people[p] EXCEPT !.current = TRUE] ELSE people[p]]
      BY <1>5 DEF MergeReferences
    <2>2. UNCHANGED <<shows, faces, nextPerson>>  BY <1>5 DEF MergeReferences
    <2>3. \A p \in DOMAIN people : DOMAIN people'[p] = DOMAIN people[p]
                                   /\ people'[p].manual = people[p].manual
      BY <1>0, <2>1
    <2> QED  BY <2>1, <2>2, <2>3 DEF Thins
  <1>6. CASE MarkReconciled(w)
    <2>1. people' = [p \in DOMAIN people |-> [people[p] EXCEPT !.current = TRUE]]
      BY <1>6 DEF MarkReconciled
    <2>2. UNCHANGED <<shows, faces, nextPerson>>  BY <1>6 DEF MarkReconciled
    <2> QED  BY <1>0, <2>1, <2>2 DEF Thins
  <1>7. CASE WriteCovers(w)
    <2>1. people' = [p \in DOMAIN people |->
                        IF p \in DOMAIN job[w].covers
                        THEN [people[p] EXCEPT !.cover = job[w].covers[p]] ELSE people[p]]
      BY <1>7 DEF WriteCovers
    <2>2. UNCHANGED <<shows, faces, nextPerson>>  BY <1>7 DEF WriteCovers
    <2>3. \A p \in DOMAIN people : DOMAIN people'[p] = DOMAIN people[p]
                                   /\ people'[p].manual = people[p].manual
      BY <1>0, <2>1
    <2> QED  BY <2>1, <2>2, <2>3 DEF Thins
  <1> QED  BY <1>2, <1>3, <1>4, <1>5, <1>6, <1>7 DEF Updating

\* New faces are nobody's.
LEMMA ApplyReplaces ==
    ASSUME NEW w, Apply(w)
    PROVE  Replaces
  <1> DEFINE entry == Head(job[w].toApply)
             new == IF entry.broken THEN <<>> ELSE ToSee(entry.photo)
             kept == IF entry.broken THEN DOMAIN faces ELSE Replaced(entry.photo)
  <1>1. new \in Seq(Nat)  BY ToSeeTyped
  <1>2. kept \subseteq DOMAIN faces  BY DEF Replaced
  <1>3. /\ shows' = shows \o new /\ UNCHANGED <<people, nextPerson>>
        /\ faces' = [f \in kept \cup (Len(shows) + 1 .. Len(shows) + Len(new)) |->
                IF f <= Len(shows) THEN faces[f] ELSE [person |-> Nobody, manual |-> FALSE]]
    BY DEF Apply
  <1> HIDE DEF new, kept
  <1> QED  BY <1>1, <1>2, <1>3 DEF Replaces

\* A step of a loop has one of these effects.
LEMMA AdvancesHaveEffects ==
    ASSUME FaceRows, HeldAreUntaken, MergesApart, NEW w \in Loops, Advances(w)
    PROVE  Effects
  <1>1. ASSUME CreatePerson(w) PROVE Creates
    BY <1>1 DEF CreatePerson, Creates
  <1> QED
    BY <1>1, ApplyReplaces, AdvancesAre, ReadsLeave, AssigningAssigns, UpdatingThins DEF Effects

\* Whatever its effect, a step of a loop keeps what the user curated, ...
LEMMA EffectsCurate ==
    ASSUME FaceRows, Effects
    PROVE  CurationIsKept
  <1>0. /\ \A f \in DOMAIN faces : DOMAIN faces[f] = {"person", "manual"}
        /\ nextPerson \in Nat /\ nextPerson \notin DOMAIN people
        /\ \A f \in DOMAIN faces : f \in Nat /\ f <= Len(shows)
        /\ Len(shows) \in Nat
    BY DEF FaceRows
  <1>1. CASE Leaves  BY <1>1 DEF Leaves, CurationIsKept, Generated
  <1>2. CASE Assigns
    <2>1. PICK F, p : /\ faces' = Assigned(F, p)
                      /\ \A f \in F \cap DOMAIN faces : faces[f].manual => faces[f].person \in Generated
      BY <1>2 DEF Assigns
    <2>2. \A f \in DOMAIN faces : f \notin F => faces'[f] = faces[f]  BY <2>1 DEF Assigned
    <2> QED  BY <1>2, <2>1, <2>2 DEF Assigns, CurationIsKept, Generated
  <1>3. CASE Thins  BY <1>3 DEF Thins, CurationIsKept, Generated
  <1>4. CASE Creates
    <2>1. \A p \in DOMAIN people : p \in DOMAIN people' /\ people'[p] = people[p]
      BY <1>0, <1>4 DEF Creates, WithRow
    <2> QED  BY <1>4, <2>1 DEF Creates, CurationIsKept, Generated
  <1>5. CASE Replaces
    <2>1. \A f \in DOMAIN faces \cap DOMAIN faces' : faces'[f] = faces[f]
      BY <1>0, <1>5 DEF Replaces
    <2> QED  BY <1>5, <2>1 DEF Replaces, CurationIsKept, Generated
  <1> QED  BY <1>1, <1>2, <1>3, <1>4, <1>5 DEF Effects

\* ... the rows as they are, ...
LEMMA EffectsOnRows ==
    ASSUME FaceRows, Effects
    PROVE  FaceRows'
  <1>0. /\ shows \in Seq(Nat) /\ DOMAIN faces \subseteq 1 .. Len(shows)
        /\ \A f \in DOMAIN faces : DOMAIN faces[f] = {"person", "manual"}
        /\ nextPerson \in Nat \ {0} /\ DOMAIN people \subseteq 1 .. nextPerson - 1
        /\ \A p \in DOMAIN people : DOMAIN people[p] = {"manual", "cover", "current"}
    BY DEF FaceRows
  <1>1. CASE Leaves  BY <1>0, <1>1 DEF Leaves, FaceRows
  <1>2. CASE Assigns
    <2>1. PICK F, p : faces' = Assigned(F, p)  BY <1>2 DEF Assigns
    <2>2. DOMAIN faces' = DOMAIN faces /\ \A f \in DOMAIN faces : DOMAIN faces'[f] = DOMAIN faces[f]
      BY <2>1 DEF Assigned
    <2> QED  BY <1>0, <1>2, <2>2 DEF Assigns, FaceRows
  <1>3. CASE Thins  BY <1>0, <1>3 DEF Thins, FaceRows
  <1>4. CASE Creates
    <2>1. PICK c : people' = WithRow(people, nextPerson, [manual |-> FALSE, current |-> TRUE, cover |-> c])
      BY <1>4 DEF Creates
    <2>2. /\ DOMAIN people' = DOMAIN people \cup {nextPerson}
          /\ \A p \in DOMAIN people' : DOMAIN people'[p] = {"manual", "cover", "current"}
      BY <1>0, <2>1 DEF WithRow
    <2>3. UNCHANGED <<shows, faces>> /\ nextPerson' = nextPerson + 1  BY <1>4 DEF Creates
    <2>4. nextPerson' \in Nat \ {0} /\ DOMAIN people' \subseteq 1 .. nextPerson' - 1
      BY <1>0, <2>2, <2>3
    <2> QED  BY <1>0, <2>2, <2>3, <2>4 DEF FaceRows
  <1>5. CASE Replaces
    <2>1. PICK new \in Seq(Nat) :
             /\ shows' = shows \o new
             /\ DOMAIN faces' \subseteq DOMAIN faces \cup (Len(shows) + 1 .. Len(shows) + Len(new))
             /\ \A f \in DOMAIN faces' :
                   faces'[f] = IF f <= Len(shows) THEN faces[f]
                               ELSE [person |-> Nobody, manual |-> FALSE]
      BY <1>5 DEF Replaces
    <2>2. shows' \in Seq(Nat) /\ Len(shows') = Len(shows) + Len(new) /\ Len(shows) \in Nat /\ Len(new) \in Nat
      BY <1>0, <2>1
    <2>3. DOMAIN faces' \subseteq 1 .. Len(shows')  BY <1>0, <2>1, <2>2
    <2>4. \A f \in DOMAIN faces' : DOMAIN faces'[f] = {"person", "manual"}
      <3> TAKE f \in DOMAIN faces'
      <3>1. CASE f <= Len(shows)
        <4>1. f \in DOMAIN faces  BY <2>1, <2>2, <3>1
        <4> QED  BY <1>0, <2>1, <3>1, <4>1
      <3>2. CASE ~(f <= Len(shows))  BY <2>1, <3>2
      <3> QED  BY <3>1, <3>2
    <2>5. UNCHANGED <<people, nextPerson>>  BY <1>5 DEF Replaces
    <2> QED  BY <1>0, <2>2, <2>3, <2>4, <2>5 DEF FaceRows
  <1> QED  BY <1>1, <1>2, <1>3, <1>4, <1>5 DEF Effects

\* ... and faces the user has not assigned not assigned by him.
LEMMA UntakenStays ==
    ASSUME FaceRows, Effects, NEW F, Untaken(F)
    PROVE  \A f \in F \cap DOMAIN faces' : ~faces'[f].manual
  <1>0. /\ \A f \in DOMAIN faces : DOMAIN faces[f] = {"person", "manual"}
        /\ \A f \in F \cap DOMAIN faces : ~faces[f].manual
        /\ Len(shows) \in Nat /\ \A f \in DOMAIN faces : f \in Nat /\ f <= Len(shows)
    BY DEF FaceRows, Untaken
  <1>1. ASSUME faces' = faces PROVE \A f \in F \cap DOMAIN faces' : ~faces'[f].manual
    BY <1>0, <1>1
  <1>2. CASE Assigns
    <2>1. PICK G, p : faces' = Assigned(G, p)  BY <1>2 DEF Assigns
    <2>2. DOMAIN faces' = DOMAIN faces /\ \A f \in DOMAIN faces : faces'[f].manual = faces[f].manual
      BY <1>0, <2>1 DEF Assigned
    <2> QED  BY <1>0, <2>2
  <1>3. CASE Replaces
    <2> SUFFICES ASSUME NEW f \in F, f \in DOMAIN faces' PROVE ~faces'[f].manual  OBVIOUS
    <2>1. PICK new \in Seq(Nat) :
             /\ DOMAIN faces' \subseteq DOMAIN faces \cup (Len(shows) + 1 .. Len(shows) + Len(new))
             /\ \A g \in DOMAIN faces' :
                   faces'[g] = IF g <= Len(shows) THEN faces[g]
                               ELSE [person |-> Nobody, manual |-> FALSE]
      BY <1>3 DEF Replaces
    <2>2. CASE f <= Len(shows)
      <3>1. f \in DOMAIN faces  BY <1>0, <2>1, <2>2
      <3> QED  BY <1>0, <2>1, <2>2, <3>1
    <2>3. CASE ~(f <= Len(shows))  BY <2>1, <2>3
    <2> QED  BY <2>2, <2>3
  <1> QED  BY <1>1, <1>2, <1>3 DEF Effects, Leaves, Thins, Creates

\* What a user does keeps the rows as they are, too.
LEMMA UserOnRows ==
    ASSUME FaceRows, NEW u, User(u)
    PROVE  FaceRows' /\ UNCHANGED <<control, job>>
  <1>0. /\ shows \in Seq(Nat) /\ DOMAIN faces \subseteq 1 .. Len(shows)
        /\ \A f \in DOMAIN faces : DOMAIN faces[f] = {"person", "manual"}
        /\ nextPerson \in Nat \ {0} /\ DOMAIN people \subseteq 1 .. nextPerson - 1
        /\ \A p \in DOMAIN people : DOMAIN people[p] = {"manual", "cover", "current"}
    BY DEF FaceRows
  <1>a. UNCHANGED <<control, job>>  BY DEF User
  <1> DEFINE r == request[u]
             FacesKeep == /\ DOMAIN faces' = DOMAIN faces
                          /\ \A f \in DOMAIN faces : DOMAIN faces'[f] = DOMAIN faces[f]
             PeopleKeep == /\ DOMAIN people' \subseteq DOMAIN people
                           /\ \A p \in DOMAIN people' : DOMAIN people'[p] = DOMAIN people[p]
  <1>1. ASSUME UNCHANGED <<shows, nextPerson>>, FacesKeep, PeopleKeep
        PROVE  FaceRows'
    BY <1>0, <1>1 DEF FaceRows
  <1>2. \A F, p : faces' = Curated(F, p) => FacesKeep  BY DEF Curated
  <1> HIDE DEF FacesKeep, PeopleKeep
  <1>3. CASE UserAsks(u)
    <2>1. UNCHANGED tables
      BY <1>3 DEF UserAsks, AskRename, AskDisband, AskMerge, AskCreate, AskAssign, Asks
    <2> QED  BY <1>0, <1>a, <2>1 DEF tables, FaceRows
  <1>4. CASE Rename(u)
    <2>1. /\ people' = IF r.person \in DOMAIN people
                       THEN [people EXCEPT ![r.person].manual = TRUE] ELSE people
          /\ UNCHANGED <<shows, faces, nextPerson>>
      BY <1>4 DEF Rename, Responded
    <2> HIDE DEF r
    <2>2. PeopleKeep  BY <2>1 DEF PeopleKeep
    <2>3. FacesKeep  BY <2>1 DEF FacesKeep
    <2> QED  BY <1>a, <1>1, <2>1, <2>2, <2>3
  <1>5. CASE Merge(u)
    <2>1. /\ people' = Without(
                IF r.person \in DOMAIN people
                THEN [people EXCEPT ![r.person] = [@ EXCEPT !.manual = TRUE, !.cover = r.cover]]
                ELSE people, r.sources)
          /\ UNCHANGED <<shows, nextPerson>>
      BY <1>5 DEF Merge, Responded
    <2>2. FacesKeep  BY <1>5 DEF Merge, FacesKeep
    <2> HIDE DEF r
    <2>3. PeopleKeep  BY <2>1 DEF Without, PeopleKeep
    <2> QED  BY <1>a, <1>1, <2>1, <2>2, <2>3
  <1>6. CASE CreateFromFaces(u)
    <2>1. /\ people' = WithRow(people, nextPerson,
                               [manual |-> TRUE, cover |-> r.cover, current |-> FALSE])
          /\ faces' = Curated(r.faces, nextPerson)
          /\ nextPerson' = nextPerson + 1 /\ UNCHANGED shows
      BY <1>6 DEF CreateFromFaces, Responded
    <2> HIDE DEF r
    <2>2. FacesKeep  BY <1>2, <2>1
    <2>3. /\ DOMAIN people' = DOMAIN people \cup {nextPerson}
          /\ \A p \in DOMAIN people' : DOMAIN people'[p] = {"manual", "cover", "current"}
      BY <1>0, <2>1 DEF WithRow
    <2>4. nextPerson' \in Nat \ {0} /\ DOMAIN people' \subseteq 1 .. nextPerson' - 1
      BY <1>0, <2>1, <2>3
    <2> QED  BY <1>0, <1>a, <2>1, <2>2, <2>3, <2>4 DEF FaceRows, FacesKeep
  <1>7. CASE Disband(u)
    <2>1. /\ people' = Without(people, {r.person}) /\ faces' = Curated(FacesOf(r.person), Nobody)
          /\ UNCHANGED <<shows, nextPerson>>
      BY <1>7 DEF Disband, Responded
    <2>2. PeopleKeep  BY <2>1 DEF Without, PeopleKeep
    <2> QED  BY <1>a, <1>1, <1>2, <2>1, <2>2
  <1>8. CASE LockFace(u)
    <2>1. /\ faces' = [f \in DOMAIN faces |->
                          IF f = r.face THEN [faces[f] EXCEPT !.manual = TRUE] ELSE faces[f]]
          /\ UNCHANGED <<shows, people, nextPerson>>
      BY <1>8 DEF LockFace, Responded
    <2>2. FacesKeep  BY <2>1 DEF FacesKeep
    <2>3. PeopleKeep  BY <2>1 DEF PeopleKeep
    <2> QED  BY <1>a, <1>1, <2>1, <2>2, <2>3
  <1>9. CASE AssignFace(u)
    <2>1. people' = Promoted(r) /\ faces' = Curated({r.face}, r.person) /\ UNCHANGED <<shows, nextPerson>>
      BY <1>9 DEF AssignFace, Responded
    <2>2. PeopleKeep  BY <2>1 DEF Promoted, PeopleKeep
    <2> QED  BY <1>a, <1>1, <1>2, <2>1, <2>2
  <1>10. UserAsks(u) \/ UserWrites(u)  BY DEF User
  <1> QED  BY <1>3, <1>4, <1>5, <1>6, <1>7, <1>8, <1>9, <1>10 DEF UserWrites

\* A loop moves, and no other, to one of these labels.
LoopMoves(w, labels) ==
    /\ job[w].pc # "idle"
    /\ DOMAIN job' = Loops /\ DOMAIN job'[w] = DOMAIN NoJob
    /\ \A v \in Loops \ {w} : job'[v] = job[v]
    /\ job'[w].pc \in labels

\* The labels at which a loop holds faces, at which it merges, at which it has
\* emptied what it is about to delete, and the others
Holding == {"match", "assign", "label", "found", "newcomer", "exemplars"}
Uniting == {"mergeFaces", "mergePerson", "mergeReferences"}
Deserting == {"resetReferences", "resetPeople", "tidyPeople"}
Careless == {"idle", "loop", "wait", "reset", "detach", "rebuild", "analyse", "mark", "cluster",
             "reconcile", "markAll", "covers", "cover", "tidy"}
Unburdened == Careless \cup Deserting \cup {"round"}

\* The steps after which a loop holds nothing to assign or to merge, ...
LEMMA CarelessMoves ==
    ASSUME OneLoop, NEW w \in Loops,
           \/ BeginPass(w) \/ Again(w) \/ Leave(w)
           \/ ResetPeople(w) \/ (\E reports : Detach(w, reports)) \/ RebuildDetached(w)
           \/ (\E S : Dispatch(w, S) \/ Outcome(w, S)) \/ RequestFails(w) \/ Apply(w)
           \/ MarkScanned(w) \/ AbandonPass(w) \/ Analysed(w) \/ LabelFails(w)
           \/ AllPeople(w) \/ MarkReconciled(w)
           \/ (\E reports : ReadCovers(w, reports)) \/ WriteCovers(w)
           \/ TidyPeople(w)
    PROVE  LoopMoves(w, Careless)
  <1>0. /\ DOMAIN job = Loops /\ DOMAIN job[w] = DOMAIN NoJob
        /\ DOMAIN NoJob = {"pc", "stop", "cursor", "exhausted", "flights", "toApply", "sized", "solo",
                           "members", "known", "near", "orders", "clusters", "newcomer", "merges",
                           "covers", "back"}
        /\ NoJob.pc = "idle"
    BY DEF OneLoop, NoJob
  <1> USE DEF LoopMoves, Careless, At, Goes, KeepsControl, control
  <1>1. CASE BeginPass(w)  BY <1>0, <1>1 DEF BeginPass
  <1>2. CASE Again(w)  BY <1>0, <1>2 DEF Again
  <1>3. CASE Leave(w)  BY <1>0, <1>3 DEF Leave
  <1>4. CASE ResetPeople(w)  BY <1>0, <1>4 DEF ResetPeople
  <1>5. CASE \E reports : Detach(w, reports)  BY <1>0, <1>5 DEF Detach
  <1>6. CASE RebuildDetached(w)  BY <1>0, <1>6 DEF RebuildDetached
  <1>7. ASSUME NEW S, Dispatch(w, S) PROVE LoopMoves(w, Careless)
    <2>1. PICK ended, next, flown :
             job' = [job EXCEPT ![w].exhausted = ended, ![w].cursor = next, ![w].flights = flown]
      BY <1>7 DEF Dispatch
    <2>2. job[w].pc = "analyse"  BY <1>7 DEF Dispatch
    <2> QED  BY <1>0, <2>1, <2>2
  <1>8. CASE \E S : Outcome(w, S)  BY <1>0, <1>8 DEF Outcome
  <1>9. CASE Apply(w)  BY <1>0, <1>9 DEF Apply
  <1>10. CASE MarkScanned(w)  BY <1>0, <1>10 DEF MarkScanned
  <1>11. CASE AbandonPass(w)  BY <1>0, <1>11 DEF AbandonPass
  <1>12. CASE Analysed(w)  BY <1>0, <1>12 DEF Analysed
  <1>13. CASE AllPeople(w)  BY <1>0, <1>13 DEF AllPeople
  <1>14. CASE MarkReconciled(w)  BY <1>0, <1>14 DEF MarkReconciled
  <1>15. CASE \E reports : ReadCovers(w, reports)  BY <1>0, <1>15 DEF ReadCovers
  <1>16. CASE WriteCovers(w)  BY <1>0, <1>16 DEF WriteCovers
  <1>17. CASE TidyPeople(w)  BY <1>0, <1>17 DEF TidyPeople
  <1>18. CASE RequestFails(w)  BY <1>0, <1>18 DEF RequestFails
  <1>19. CASE LabelFails(w)  BY <1>0, <1>19 DEF LabelFails
  <1> QED
    BY <1>1, <1>2, <1>3, <1>4, <1>5, <1>6, <1>7, <1>8, <1>9, <1>10, <1>11, <1>12, <1>13, <1>14,
       <1>15, <1>16, <1>17, <1>18, <1>19

\* ... and those after which it has emptied what it is about to delete.
LEMMA DesertingMoves ==
    ASSUME OneLoop, NEW w \in Loops, ResetFaces(w) \/ ResetReferences(w) \/ TidyReferences(w)
    PROVE  /\ LoopMoves(w, Deserting) /\ job' = [job EXCEPT ![w].pc = job'[w].pc]
           /\ ResetFaces(w) => job'[w].pc = "resetReferences"
           /\ ResetReferences(w) => job'[w].pc = "resetPeople"
           /\ TidyReferences(w) => job'[w].pc = "tidyPeople"
  <1>0. DOMAIN job = Loops /\ DOMAIN job[w] = DOMAIN NoJob /\ "pc" \in DOMAIN NoJob
    BY DEF OneLoop, NoJob
  <1> USE DEF LoopMoves, Deserting, At, Goes
  <1>1. CASE ResetFaces(w)  BY <1>0, <1>1 DEF ResetFaces, ResetReferences, TidyReferences
  <1>2. CASE ResetReferences(w)  BY <1>0, <1>2 DEF ResetFaces, ResetReferences, TidyReferences
  <1>3. CASE TidyReferences(w)  BY <1>0, <1>3 DEF ResetFaces, ResetReferences, TidyReferences
  <1> QED  BY <1>1, <1>2, <1>3

\* Only where somebody is outdated does it compare people.
LEMMA ReconcileMoves ==
    ASSUME OneLoop, NEW w \in Loops, NEW reports, Reconcile(w, reports)
    PROVE  LoopMoves(w, Unburdened) /\ job'[w].pc \in {"covers", "round", "markAll"}
           /\ (AllCurrent => job'[w].pc = "covers")
  <1>0. DOMAIN job = Loops /\ DOMAIN job[w] = DOMAIN NoJob /\ "pc" \in DOMAIN NoJob
    BY DEF OneLoop, NoJob
  <1> QED  BY <1>0 DEF LoopMoves, Unburdened, Careless, At, Goes, Reconcile

\* What a loop comes to hold when it takes faces from those that nobody has, ...
LEMMA TakesLoose ==
    ASSUME OneLoop, NEW w \in Loops, NEW reports, NEW answers, Snapshot(w, reports, answers)
    PROVE  LoopMoves(w, Holding \cup Careless) /\ Held(w)'
  <1> DEFINE F == {f \in Loose : reports => ~Small(f)}
             n == [f \in F |-> IF mode = "store" /\ answers
                               THEN {faces[g].person : g \in
                                       {h \in DOMAIN faces \ {f} : Alike(f, h) >= RecognitionFloor}}
                                    \ {Nobody}
                               ELSE PersonIds]
             next == IF Stopped(w) \/ F = {} THEN "reconcile" ELSE "match"
             j == [job[w] EXCEPT !.pc = next, !.members = F, !.sized = reports,
                                 !.known = IF reports THEN references ELSE [p \in PersonIds |-> <<>>],
                                 !.near = n]
  <1>0. DOMAIN job = Loops /\ DOMAIN job[w] = DOMAIN NoJob
        /\ {"pc", "members", "sized", "known", "near"} \subseteq DOMAIN NoJob
    BY DEF OneLoop, NoJob
  <1>1. /\ job' = [job EXCEPT ![w] = j] /\ job[w].pc = "cluster" /\ faces' = faces
    BY <1>0 DEF Snapshot, At, KeepsTables, KeepsControl, tables, control
  <1>2. next \in {"reconcile", "match"}  OBVIOUS
  <1>3. \A f \in F \cap DOMAIN faces : ~faces[f].manual  BY DEF Loose
  <1> HIDE DEF F, n, next
  <1>4. DOMAIN j = DOMAIN NoJob /\ j.pc = next /\ j.members = F  BY <1>0
  <1> HIDE DEF j
  <1>5. job'[w] = j /\ DOMAIN job' = Loops /\ \A v \in Loops \ {w} : job'[v] = job[v]
    BY <1>0, <1>1
  <1>6. LoopMoves(w, Holding \cup Careless)
    BY <1>1, <1>2, <1>4, <1>5 DEF LoopMoves, Holding, Careless
  <1>7. Held(w)'  BY <1>1, <1>2, <1>3, <1>4, <1>5 DEF Held, Untaken
  <1> QED  BY <1>6, <1>7

\* ... compares them with the people it knows, or has them clustered, ...
LEMMA TakesOrders ==
    ASSUME OneLoop, NEW w \in Loops, Held(w), MatchKnown(w) \/ AllKnown(w) \/ Label(w)
    PROVE  LoopMoves(w, Holding \cup Careless) /\ Held(w)'
  <1>0. DOMAIN job = Loops /\ DOMAIN job[w] = DOMAIN NoJob
        /\ {"pc", "members", "orders", "clusters"} \subseteq DOMAIN NoJob
    BY DEF OneLoop, NoJob
  <1>1. CASE MatchKnown(w)
    <2> DEFINE O == Orders(w)
               R == job[w].members \ UNION {o.faces : o \in O}
    <2>1. /\ job' = [job EXCEPT ![w] = [job[w] EXCEPT !.pc = "assign", !.orders = O, !.members = R]]
          /\ job[w].pc = "match" /\ faces' = faces
      BY <1>0, <1>1 DEF MatchKnown, At, KeepsTables, KeepsControl, tables, control
    <2>2. \A o \in O : o.faces \subseteq job[w].members  BY DEF Orders
    <2>3. R \subseteq job[w].members  OBVIOUS
    <2> HIDE DEF O, R
    <2>4. /\ job'[w].pc = "assign" /\ job'[w].orders = O /\ job'[w].members = R
          /\ DOMAIN job'[w] = DOMAIN NoJob
          /\ DOMAIN job' = Loops /\ \A v \in Loops \ {w} : job'[v] = job[v]
      BY <1>0, <2>1
    <2>5. Untaken(job[w].members)  BY <2>1 DEF Held
    <2>6. Held(w)'  BY <2>1, <2>2, <2>3, <2>4, <2>5 DEF Held, Untaken
    <2> QED  BY <2>1, <2>4, <2>6 DEF LoopMoves, Holding
  <1>2. CASE AllKnown(w)
    <2> DEFINE next == IF job[w].members = {} THEN "reconcile" ELSE "label"
    <2>1. /\ job' = [job EXCEPT ![w].pc = next]
          /\ job[w].pc = "assign" /\ faces' = faces
      BY <1>2 DEF AllKnown, At, Goes, KeepsTables, tables
    <2>2. next \in {"reconcile", "label"}  OBVIOUS
    <2> HIDE DEF next
    <2>3. /\ job'[w].pc = next /\ job'[w].members = job[w].members
          /\ DOMAIN job'[w] = DOMAIN NoJob
          /\ DOMAIN job' = Loops /\ \A v \in Loops \ {w} : job'[v] = job[v]
      BY <1>0, <2>1
    <2>4. Untaken(job[w].members)  BY <2>1 DEF Held
    <2>5. Held(w)'  BY <2>1, <2>2, <2>3, <2>4 DEF Held, Untaken
    <2> QED  BY <2>1, <2>2, <2>3, <2>5 DEF LoopMoves, Holding, Careless
  <1>3. CASE Label(w)
    <2> DEFINE L3 == ClustersOf(job[w].members)
    <2>1. /\ job' = [job EXCEPT ![w] = [job[w] EXCEPT !.pc = "found", !.clusters = L3]]
          /\ job[w].pc = "label" /\ faces' = faces
      BY <1>0, <1>3 DEF Label, At, KeepsTables, KeepsControl, tables, control
    <2>2. \A C \in L3 : C \subseteq job[w].members  BY DEF ClustersOf
    <2> HIDE DEF L3
    <2>3. /\ job'[w].pc = "found" /\ job'[w].clusters = L3
          /\ DOMAIN job'[w] = DOMAIN NoJob
          /\ DOMAIN job' = Loops /\ \A v \in Loops \ {w} : job'[v] = job[v]
      BY <1>0, <2>1
    <2>4. Untaken(job[w].members)  BY <2>1 DEF Held
    <2>5. Held(w)'  BY <2>1, <2>2, <2>3, <2>4 DEF Held, Untaken
    <2> QED  BY <2>1, <2>3, <2>5 DEF LoopMoves, Holding
  <1> QED  BY <1>1, <1>2, <1>3

\* ... or goes on with what it holds.
LEMMA HoldsOn ==
    ASSUME FaceRows, Effects, OneLoop, NEW w \in Loops, Held(w),
           \/ AssignKnown(w) \/ ExtendPerson(w) \/ CreatePerson(w) \/ FillPerson(w) \/ StoreExemplars(w)
    PROVE  LoopMoves(w, Holding) /\ Held(w)'
  <1>0. DOMAIN job = Loops /\ DOMAIN job[w] = DOMAIN NoJob
        /\ {"pc", "members", "orders", "clusters", "newcomer"} \subseteq DOMAIN NoJob
    BY DEF OneLoop, NoJob
  <1>1. \A F : Untaken(F) => \A f \in F \cap DOMAIN faces' : ~faces'[f].manual
    BY UntakenStays
  <1>2. CASE AssignKnown(w)
    <2>1. job[w].pc = "assign"
      BY <1>2 DEF AssignKnown, At, KeepsControl, control
    <2>2. PICK o \in job[w].orders : job' = [job EXCEPT ![w].orders = @ \ {o}]
      BY <1>2 DEF AssignKnown
    <2>3. /\ job'[w].pc = "assign" /\ job'[w].orders \subseteq job[w].orders
          /\ job'[w].members = job[w].members /\ DOMAIN job'[w] = DOMAIN NoJob
          /\ DOMAIN job' = Loops /\ \A v \in Loops \ {w} : job'[v] = job[v]
      BY <1>0, <2>1, <2>2
    <2>4. Untaken(job[w].members) /\ \A q \in job[w].orders : Untaken(q.faces)
      BY <2>1 DEF Held
    <2>5. Held(w)'
      <3>1. /\ \A f \in job'[w].members \cap DOMAIN faces' : ~faces'[f].manual
            /\ \A q \in job'[w].orders : \A f \in q.faces \cap DOMAIN faces' : ~faces'[f].manual
        BY <1>1, <2>3, <2>4
      <3> QED  BY <2>3, <3>1 DEF Held, Untaken
    <2> QED  BY <2>1, <2>3, <2>5 DEF LoopMoves, Holding
  \* Clusters are taken one by one.
  <1>3. ASSUME job[w].pc \in {"found", "newcomer", "exemplars"},
               job'[w].pc \in {"found", "newcomer", "exemplars"},
               job'[w].clusters \subseteq job[w].clusters, DOMAIN job'[w] = DOMAIN NoJob,
               DOMAIN job' = Loops, \A v \in Loops \ {w} : job'[v] = job[v]
        PROVE  LoopMoves(w, Holding) /\ Held(w)'
    <2>1. \A C \in job[w].clusters : Untaken(C)  BY <1>3 DEF Held
    <2>2. \A C \in job'[w].clusters : \A f \in C \cap DOMAIN faces' : ~faces'[f].manual
      BY <1>1, <1>3, <2>1
    <2>3. Held(w)'  BY <1>3, <2>2 DEF Held, Untaken
    <2> QED  BY <1>3, <2>3 DEF LoopMoves, Holding
  <1>4. CASE ExtendPerson(w)
    <2>1. job[w].pc = "found"
      BY <1>4 DEF ExtendPerson, At, KeepsControl, control
    <2>2. PICK C \in job[w].clusters : job' = [job EXCEPT ![w].clusters = @ \ {C}]
      BY <1>4 DEF ExtendPerson
    <2> QED  BY <1>0, <1>3, <2>1, <2>2
  <1>5. CASE CreatePerson(w)
    <2>1. job[w].pc = "found"
          /\ job' = [job EXCEPT ![w].pc = "newcomer", ![w].newcomer = nextPerson]
      BY <1>5 DEF CreatePerson, At, KeepsControl, control
    <2> QED  BY <1>0, <1>3, <2>1
  <1>6. CASE FillPerson(w)
    <2>1. job[w].pc = "newcomer" /\ job' = [job EXCEPT ![w].pc = "exemplars"]
      BY <1>6 DEF FillPerson, At, Goes, KeepsControl, control
    <2> QED  BY <1>0, <1>3, <2>1
  <1>7. CASE StoreExemplars(w)
    <2>1. job[w].pc = "exemplars"
      BY <1>7 DEF StoreExemplars, At, KeepsControl, control
    <2>2. PICK C : job' = [job EXCEPT ![w].pc = "found", ![w].clusters = @ \ {C}]
      BY <1>7 DEF StoreExemplars
    <2> QED  BY <1>0, <1>3, <2>1, <2>2
  <1> QED  BY <1>2, <1>4, <1>5, <1>6, <1>7

\* Everybody has one best partner at most, so that merges keep apart.
LEMMA MergesAreApart ==
    ASSUME FaceRows, NEW exemplars
    PROVE  /\ Merges(exemplars) \subseteq Nat \X Nat
           /\ \A x, y \in Merges(exemplars) : {x[1], x[2]} \cap {y[1], y[2]} # {} => x = y
           /\ \A x \in Merges(exemplars) : x[1] # x[2] /\ x[1] \in DOMAIN people /\ x[2] \in Generated
  <1> DEFINE partners(p) == {q \in Mergeable : MayBeOne(p, q, exemplars)}
             nearer(p, q, r) == LET s == MedoidScore(exemplars[p], exemplars[q])
                                    t == MedoidScore(exemplars[p], exemplars[r])
                                IN  s > t \/ (s = t /\ q <= r)
             best(p) == CHOOSE q \in partners(p) : \A r \in partners(p) : nearer(p, q, r)
  <1>1. Mergeable = Generated /\ Generated \subseteq Nat /\ Generated \subseteq DOMAIN people
    BY DEF Mergeable, Generated, FaceRows
  <1>2. \A x \in Merges(exemplars) : /\ x \in Mergeable \X Mergeable /\ x[1] < x[2]
                                /\ best(x[1]) = x[2] /\ best(x[2]) = x[1]
    BY DEF Merges
  <1> HIDE DEF partners, nearer, best
  <1>3. \A x \in Merges(exemplars) : /\ x[1] \in Nat /\ x[2] \in Nat /\ x = <<x[1], x[2]>> /\ x[1] # x[2]
                                /\ x[1] \in DOMAIN people /\ x[2] \in Generated
    BY <1>1, <1>2
  <1>4. ASSUME NEW x \in Merges(exemplars), NEW y \in Merges(exemplars), {x[1], x[2]} \cap {y[1], y[2]} # {}
        PROVE  x = y
    <2>1. CASE x[1] = y[1]  BY <1>2, <1>3, <2>1
    <2>2. CASE x[2] = y[2]  BY <1>2, <1>3, <2>2
    <2>3. CASE x[1] = y[2]
      <3>1. x[2] = y[1]  BY <1>2, <2>3
      <3> QED  BY <1>2, <1>3, <2>3, <3>1
    <2>4. CASE x[2] = y[1]
      <3>1. x[1] = y[2]  BY <1>2, <2>4
      <3> QED  BY <1>2, <1>3, <2>4, <3>1
    <2> QED  BY <1>4, <2>1, <2>2, <2>3, <2>4
  <1>5. Merges(exemplars) \subseteq Nat \X Nat  BY <1>3
  <1> QED  BY <1>3, <1>4, <1>5

\* Of merges that are apart one is next at most.
LEMMA OneIsNext ==
    ASSUME NEW w, job[w].merges \subseteq Nat \X Nat,
           \A x, y \in job[w].merges : {x[1], x[2]} \cap {y[1], y[2]} # {} => x = y,
           NEW x \in Merging(w), NEW y \in Merging(w)
    PROVE  x = y
  <1>1. /\ x \in job[w].merges /\ y \in job[w].merges
        /\ x[1] \in Nat /\ y[1] \in Nat /\ x[1] <= y[1] /\ y[1] <= x[1]
    BY DEF Merging
  <1>2. x[1] = y[1]  BY <1>1
  <1> QED  BY <1>1, <1>2

\* One merge after the other is carried out.
LEMMA MergesGoOn ==
    ASSUME FaceRows, Effects, OneLoop, NEW w \in Loops, Apart(w),
           Round(w) \/ MergeFaces(w) \/ MergePerson(w) \/ MergeReferences(w)
    PROVE  LoopMoves(w, Uniting \cup Unburdened) /\ Apart(w)'
  <1>0. DOMAIN job = Loops /\ DOMAIN job[w] = DOMAIN NoJob /\ {"pc", "merges"} \subseteq DOMAIN NoJob
    BY DEF OneLoop, NoJob
  <1>1. CASE Round(w)
    <2> DEFINE M == Merges(Compared)
               next == IF M = {} THEN "markAll" ELSE "mergeFaces"
    <2>1. /\ job' = [job EXCEPT ![w].pc = next, ![w].merges = M]
          /\ job[w].pc = "round" /\ people' = people
      BY <1>1 DEF Round, At, KeepsControl, control
    <2>2. next \in {"markAll", "mergeFaces"}  OBVIOUS
    <2>3. /\ M \subseteq Nat \X Nat
          /\ \A x, y \in M : {x[1], x[2]} \cap {y[1], y[2]} # {} => x = y
          /\ \A x \in M : x[1] # x[2] /\ x[1] \in DOMAIN people /\ x[2] \in Generated
      BY MergesAreApart
    <2> HIDE DEF M, next
    <2>4. /\ job'[w].pc = next /\ job'[w].merges = M /\ DOMAIN job'[w] = DOMAIN NoJob
          /\ DOMAIN job' = Loops /\ \A v \in Loops \ {w} : job'[v] = job[v]
      BY <1>0, <2>1
    <2>5. Generated' = Generated /\ DOMAIN people' = DOMAIN people  BY <2>1 DEF Generated
    <2>6. Apart(w)'  BY <2>3, <2>4, <2>5 DEF Apart
    <2> QED  BY <2>1, <2>2, <2>4, <2>6 DEF LoopMoves, Uniting, Unburdened, Careless
  <1>2. CASE MergeFaces(w)
    <2>1. /\ job' = [job EXCEPT ![w].pc = "mergePerson"]
          /\ job[w].pc = "mergeFaces" /\ people' = people
      BY <1>2 DEF MergeFaces, At, Goes, KeepsControl, control
    <2>2. /\ job'[w].pc = "mergePerson" /\ job'[w].merges = job[w].merges
          /\ DOMAIN job'[w] = DOMAIN NoJob
          /\ DOMAIN job' = Loops /\ \A v \in Loops \ {w} : job'[v] = job[v]
      BY <1>0, <2>1
    <2>3. Generated' = Generated  BY <2>1 DEF Generated
    <2>4. Apart(w)'  BY <2>1, <2>2, <2>3 DEF Apart
    <2> QED  BY <2>1, <2>2, <2>4 DEF LoopMoves, Uniting
  <1>3. CASE MergePerson(w)
    <2>1. /\ job' = [job EXCEPT ![w].pc = "mergeReferences"]
          /\ job[w].pc = "mergePerson"
      BY <1>3 DEF MergePerson, At, Goes, KeepsControl, control
    <2>2. PICK pq \in Merging(w) : people' = Without(people, {pq[2]})
      BY <1>3 DEF MergePerson
    <2>3. /\ job'[w].pc = "mergeReferences" /\ job'[w].merges = job[w].merges
          /\ DOMAIN job'[w] = DOMAIN NoJob
          /\ DOMAIN job' = Loops /\ \A v \in Loops \ {w} : job'[v] = job[v]
      BY <1>0, <2>1
    <2>4. Generated' = Generated \ {pq[2]} /\ DOMAIN people' = DOMAIN people \ {pq[2]}
      BY <2>2 DEF Generated, Without
    <2>5. /\ job[w].merges \subseteq Nat \X Nat
          /\ \A x, y \in job[w].merges : {x[1], x[2]} \cap {y[1], y[2]} # {} => x = y
          /\ \A x \in job[w].merges : x[1] # x[2] /\ x[1] \in DOMAIN people /\ x[2] \in Generated
      BY <2>1 DEF Apart
    <2>6. pq \in job[w].merges  BY DEF Merging
    <2>7. Merging(w)' = Merging(w)  BY <2>3 DEF Merging
    <2>8. \A x \in job[w].merges : /\ x[1] \in DOMAIN people'
                                   /\ x[2] \in Generated' \/ x \in Merging(w)'
      <3> TAKE x \in job[w].merges
      <3>1. CASE x = pq  BY <2>4, <2>5, <2>7, <3>1
      <3>2. CASE x # pq
        <4>1. x[2] # pq[2] /\ x[1] # pq[2]  BY <2>5, <2>6, <3>2
        <4> QED  BY <2>4, <2>5, <4>1
      <3> QED  BY <3>1, <3>2
    <2>9. Apart(w)'  BY <2>3, <2>5, <2>8 DEF Apart
    <2> QED  BY <2>1, <2>3, <2>9 DEF LoopMoves, Uniting
  <1>4. CASE MergeReferences(w)
    <2>1. job[w].pc = "mergeReferences"
      BY <1>4 DEF MergeReferences, At, KeepsControl, control
    <2>2. PICK pq \in Merging(w) :
             /\ people' = [p \in DOMAIN people |->
                   IF p = pq[1] THEN [people[p] EXCEPT !.current = TRUE] ELSE people[p]]
             /\ job' = [job EXCEPT ![w].merges = @ \ {pq},
                           ![w].pc = IF job[w].merges = {pq} THEN "round" ELSE "mergeFaces"]
      BY <1>4 DEF MergeReferences
    <2>3. /\ job'[w].pc \in {"round", "mergeFaces"} /\ job'[w].merges = job[w].merges \ {pq}
          /\ DOMAIN job'[w] = DOMAIN NoJob
          /\ DOMAIN job' = Loops /\ \A v \in Loops \ {w} : job'[v] = job[v]
      BY <1>0, <2>2
    <2>4. Generated' = Generated /\ DOMAIN people' = DOMAIN people
      <3>1. DOMAIN people' = DOMAIN people /\ \A p \in DOMAIN people : people'[p].manual = people[p].manual
        BY <2>2 DEF FaceRows
      <3> QED  BY <3>1 DEF Generated
    <2>5. /\ job[w].merges \subseteq Nat \X Nat
          /\ \A x, y \in job[w].merges : {x[1], x[2]} \cap {y[1], y[2]} # {} => x = y
          /\ \A x \in job[w].merges : /\ x[1] # x[2] /\ x[1] \in DOMAIN people
                                      /\ x[2] \in Generated \/ x \in Merging(w)
      BY <2>1 DEF Apart
    <2>6. \A x \in job'[w].merges : x[1] # x[2] /\ x[1] \in DOMAIN people' /\ x[2] \in Generated'
      <3> TAKE x \in job'[w].merges
      <3>1. x \in job[w].merges /\ x # pq  BY <2>3
      <3>2. x \notin Merging(w)  BY <2>5, <3>1, OneIsNext
      <3> QED  BY <2>4, <2>5, <3>1, <3>2
    <2>7. Apart(w)'  BY <2>3, <2>5, <2>6 DEF Apart
    <2> QED  BY <2>1, <2>3, <2>7 DEF LoopMoves, Uniting, Unburdened
  <1> QED  BY <1>1, <1>2, <1>3, <1>4

\* A step of a loop keeps the loops' side of the invariant.
LEMMA AdvancesGoOn ==
    ASSUME FaceRows, OneLoop, HeldAreUntaken, MergesApart, NEW w \in Loops, Advances(w)
    PROVE  FaceRows' /\ OneLoop' /\ HeldAreUntaken' /\ MergesApart' /\ CurationIsKept
  <1>1. Effects  BY AdvancesHaveEffects
  <1>2. FaceRows' /\ CurationIsKept  BY <1>1, EffectsOnRows, EffectsCurate
  <1>3. Held(w) /\ Apart(w)  BY DEF HeldAreUntaken, MergesApart
  <1> USE DEF Careless, Deserting
  <1>4. ASSUME LoopMoves(w, Unburdened) PROVE LoopMoves(w, Holding \cup Uniting \cup Unburdened) /\ Held(w)' /\ Apart(w)'
    BY <1>4 DEF LoopMoves, Holding, Uniting, Unburdened, Held, Apart
  <1>5. ASSUME LoopMoves(w, Holding \cup Unburdened), Held(w)'
        PROVE  LoopMoves(w, Holding \cup Uniting \cup Unburdened) /\ Held(w)' /\ Apart(w)'
    BY <1>5 DEF LoopMoves, Holding, Uniting, Unburdened, Apart
  <1>6. ASSUME LoopMoves(w, Uniting \cup Unburdened), Apart(w)'
        PROVE  LoopMoves(w, Holding \cup Uniting \cup Unburdened) /\ Held(w)' /\ Apart(w)'
    BY <1>6 DEF LoopMoves, Holding, Uniting, Unburdened, Held
  <1>7. LoopMoves(w, Holding \cup Uniting \cup Unburdened) /\ Held(w)' /\ Apart(w)'
    <2>0. ASSUME LoopMoves(w, Careless) \/ LoopMoves(w, Deserting) PROVE LoopMoves(w, Unburdened)
      BY <2>0 DEF LoopMoves, Unburdened
    <2>1. ASSUME LoopMoves(w, Holding) \/ LoopMoves(w, Holding \cup Careless)
          PROVE  LoopMoves(w, Holding \cup Unburdened)
      BY <2>1 DEF LoopMoves, Unburdened
    <2>2. CASE \/ (\E reports, answers : Snapshot(w, reports, answers)) \/ MatchKnown(w)
               \/ AllKnown(w) \/ Label(w)
      BY <1>3, <1>5, <2>1, <2>2, TakesLoose, TakesOrders
    <2>3. CASE \/ AssignKnown(w) \/ ExtendPerson(w) \/ CreatePerson(w) \/ FillPerson(w)
               \/ StoreExemplars(w)
      BY <1>1, <1>3, <1>5, <2>1, <2>3, HoldsOn
    <2>4. CASE Round(w) \/ MergeFaces(w) \/ MergePerson(w) \/ MergeReferences(w)
      BY <1>1, <1>3, <1>6, <2>4, MergesGoOn
    <2>5. CASE ResetFaces(w) \/ ResetReferences(w) \/ TidyReferences(w)
      BY <1>4, <2>0, <2>5, DesertingMoves
    <2>6. CASE \E reports : Reconcile(w, reports)  BY <1>4, <2>6, ReconcileMoves
    <2> QED
      BY <1>4, <2>0, <2>2, <2>3, <2>4, <2>5, <2>6, CarelessMoves DEF Advances, Work, Fault
  <1>8. \A v \in Loops \ {w} : job[v].pc = "idle" /\ job'[v] = job[v]
    BY <1>7 DEF LoopMoves, OneLoop
  <1>9. OneLoop'  BY <1>7, <1>8 DEF LoopMoves, OneLoop
  <1>10. \A v \in Loops : Held(v)' /\ Apart(v)'
    <2> TAKE v \in Loops
    <2>1. CASE v = w  BY <1>7, <2>1
    <2>2. CASE v # w  BY <1>8, <2>2 DEF Held, Apart
    <2> QED  BY <2>1, <2>2
  <1> QED  BY <1>2, <1>9, <1>10 DEF HeldAreUntaken, MergesApart

\* A loop at rest holds nothing, nor is it amidst a merge.
LEMMA RestersHold ==
    ASSUME NEW w, Resting(w)
    PROVE  Held(w) /\ Apart(w) /\ Deserted(w) /\ Addressed(w)
  BY DEF Resting, Held, Apart, Deserted, Addressed

\* What disturbs neither rows nor loops keeps the loops' side of the invariant.
LEMMA QuietGoesOn ==
    ASSUME FaceRows, OneLoop, HeldAreUntaken, MergesApart,
           UNCHANGED <<shows, faces, people, nextPerson, job>>
    PROVE  FaceRows' /\ OneLoop' /\ HeldAreUntaken' /\ MergesApart' /\ CurationIsKept
  <1>1. FaceRows' /\ CurationIsKept
    <2>1. Effects  BY DEF Effects, Leaves
    <2> QED  BY <2>1, EffectsOnRows, EffectsCurate
  <1>2. OneLoop'  BY DEF OneLoop
  <1>3. \A v \in Loops : Held(v)' /\ Apart(v)'
    BY DEF HeldAreUntaken, MergesApart, Held, Apart, Untaken, Generated, Merging
  <1> QED  BY <1>1, <1>2, <1>3 DEF HeldAreUntaken, MergesApart

\* A loop that starts is the only one.
LEMMA StartGoesOn ==
    ASSUME FaceRows, OneLoop, AllIdle, NEW w \in Loops, Start(w)
    PROVE  /\ FaceRows' /\ OneLoop' /\ HeldAreUntaken' /\ MergesApart' /\ CurationIsKept
           /\ AllRest'
  <1>1. job' = [job EXCEPT ![w].pc = "loop"] /\ UNCHANGED <<shows, faces, people, nextPerson>>
    BY DEF Start, Goes, tables
  <1>2. /\ DOMAIN job = Loops /\ \A v \in Loops : DOMAIN job[v] = DOMAIN NoJob /\ "pc" \in DOMAIN NoJob
        /\ \A v \in Loops : job[v].pc = "idle"
    BY DEF OneLoop, NoJob, AllIdle, At
  <1>3. /\ DOMAIN job' = Loops /\ \A v \in Loops : DOMAIN job'[v] = DOMAIN NoJob
        /\ job'[w].pc = "loop" /\ \A v \in Loops \ {w} : job'[v].pc = "idle"
    BY <1>1, <1>2
  <1>4. OneLoop' /\ AllRest'  BY <1>3 DEF OneLoop, AllRest, Resting
  <1>5. \A v \in Loops : Held(v)' /\ Apart(v)'
    BY <1>3 DEF Held, Apart
  <1>6. FaceRows' /\ CurationIsKept
    <2>1. Effects  BY <1>1 DEF Effects, Leaves
    <2> QED  BY <2>1, EffectsOnRows, EffectsCurate
  <1> QED  BY <1>4, <1>5, <1>6 DEF HeldAreUntaken, MergesApart

\* What the user does while all loops rest disturbs none of them.
LEMMA UserGoesOn ==
    ASSUME FaceRows, OneLoop, AllRest, NEW u, User(u)
    PROVE  FaceRows' /\ OneLoop' /\ HeldAreUntaken' /\ MergesApart' /\ AllRest'
  <1>1. FaceRows' /\ job' = job  BY UserOnRows
  <1>2. OneLoop' /\ AllRest'  BY <1>1 DEF OneLoop, AllRest, Resting
  <1>3. \A v \in Loops : Held(v)' /\ Apart(v)'
    BY <1>1 DEF AllRest, Resting, Held, Apart
  <1> QED  BY <1>1, <1>2, <1>3 DEF HeldAreUntaken, MergesApart

\* Where no request is between its reads and its transaction, the user only reads.
LEMMA UserOnlyAsks ==
    ASSUME NoneAsked, NEW u \in Users, User(u)
    PROVE  UNCHANGED tables
  <1>1. request[u].op = "none"  BY DEF NoneAsked, NoRequest
  <1>2. ~UserWrites(u)
    BY <1>1 DEF UserWrites, Rename, Merge, CreateFromFaces, Disband, LockFace, AssignFace
  <1>3. UserAsks(u)  BY <1>2 DEF User
  <1> QED  BY <1>3 DEF UserAsks, AskRename, AskDisband, AskMerge, AskCreate, AskAssign, Asks

\* After a restart no loop is there, and the rows are as they were.
LEMMA RelaunchGoesOn ==
    ASSUME FaceRows, NEW release \in BOOLEAN, NEW anew \in BOOLEAN, Relaunch(release, anew)
    PROVE  /\ FaceRows' /\ OneLoop' /\ HeldAreUntaken' /\ MergesApart' /\ CurationIsKept
           /\ AllRest' /\ DOMAIN people' = DOMAIN people
  <1>1. /\ job' = [v \in Loops |-> NoJob]
        /\ people' = [p \in DOMAIN people |-> [people[p] EXCEPT !.current = @ /\ ~release]]
        /\ UNCHANGED <<shows, faces, nextPerson>>
    BY DEF Relaunch
  <1>2. FaceRows' /\ CurationIsKept
    <2>1. \A p \in DOMAIN people : DOMAIN people[p] = {"manual", "cover", "current"}  BY DEF FaceRows
    <2>2. /\ DOMAIN people' = DOMAIN people
          /\ \A p \in DOMAIN people' :
                DOMAIN people'[p] = DOMAIN people[p] /\ people'[p].manual = people[p].manual
      BY <1>1, <2>1
    <2>3. Effects  BY <1>1, <2>2 DEF Effects, Thins
    <2> QED  BY <2>3, EffectsOnRows, EffectsCurate
  <1>3. \A v \in Loops : job'[v] = NoJob /\ NoJob.pc = "idle"  BY <1>1 DEF NoJob
  <1>4. OneLoop' /\ AllRest'  BY <1>1, <1>3 DEF OneLoop, AllRest, Resting
  <1>5. \A v \in Loops : Held(v)' /\ Apart(v)'  BY <1>3 DEF Held, Apart
  <1>6. DOMAIN people' = DOMAIN people  BY <1>1
  <1> QED  BY <1>2, <1>4, <1>5, <1>6 DEF HeldAreUntaken, MergesApart

\* Faces stay those of people who are there if they are given to these or to
\* nobody, if people are deleted whose faces they are not, and if they are new.
LEMMA FacesFindTheirs ==
    ASSUME FaceRows, NoFaceOfAStranger, UNCHANGED used,
           \/ faces' = faces /\ DOMAIN people \subseteq DOMAIN people'
           \/ /\ DOMAIN people' = DOMAIN people
              /\ \E F, p : p \in Standing \cup {Nobody} /\ faces' = Assigned(F, p)
           \/ /\ faces' = faces
              /\ \E R : people' = Without(people, R) /\ \A p \in R : FacesOf(p) = {}
           \/ Replaces
    PROVE  NoFaceOfAStranger'
  <1>0. /\ \A f \in DOMAIN faces : DOMAIN faces[f] = {"person", "manual"}
        /\ \A f \in DOMAIN faces : faces[f].person \in Standing \cup {Nobody}
        /\ Len(shows) \in Nat /\ \A f \in DOMAIN faces : f \in Nat /\ f <= Len(shows)
    BY DEF FaceRows, NoFaceOfAStranger, Standing
  <1>1. CASE faces' = faces /\ DOMAIN people \subseteq DOMAIN people'
    BY <1>0, <1>1 DEF NoFaceOfAStranger
  <1>2. ASSUME DOMAIN people' = DOMAIN people, NEW F, NEW p, p \in Standing \cup {Nobody},
               faces' = Assigned(F, p)
        PROVE  NoFaceOfAStranger'
    <2>1. /\ DOMAIN faces' = DOMAIN faces
          /\ \A f \in DOMAIN faces : faces'[f].person \in {p, faces[f].person}
      BY <1>0, <1>2 DEF Assigned
    <2> QED  BY <1>0, <1>2, <2>1 DEF NoFaceOfAStranger, Standing
  <1>3. ASSUME faces' = faces, NEW R, people' = Without(people, R), \A p \in R : FacesOf(p) = {}
        PROVE  NoFaceOfAStranger'
    <2>1. DOMAIN people' = DOMAIN people \ R  BY <1>3 DEF Without
    <2>2. \A f \in DOMAIN faces : faces[f].person \notin R  BY <1>3 DEF FacesOf
    <2> QED  BY <1>0, <1>3, <2>1, <2>2 DEF NoFaceOfAStranger
  <1>4. CASE Replaces
    <2>1. PICK new \in Seq(Nat) :
             /\ DOMAIN faces' \subseteq DOMAIN faces \cup (Len(shows) + 1 .. Len(shows) + Len(new))
             /\ \A f \in DOMAIN faces' :
                   faces'[f] = IF f <= Len(shows) THEN faces[f]
                               ELSE [person |-> Nobody, manual |-> FALSE]
      BY <1>4 DEF Replaces
    <2>2. people' = people  BY <1>4 DEF Replaces
    <2>3. \A f \in DOMAIN faces' : faces'[f].person \in Standing \cup {Nobody}
      <3> TAKE f \in DOMAIN faces'
      <3>1. CASE f <= Len(shows)
        <4>1. f \in DOMAIN faces  BY <1>0, <2>1, <3>1
        <4> QED  BY <1>0, <2>1, <3>1, <4>1
      <3>2. CASE ~(f <= Len(shows))  BY <2>1, <3>2
      <3> QED  BY <3>1, <3>2
    <2> QED  BY <2>2, <2>3 DEF NoFaceOfAStranger, Standing
  <1> QED  BY <1>1, <1>2, <1>3, <1>4

\* Who has faces is there, and exemplars are made of one's own faces.
LEMMA RebuiltAreThere ==
    ASSUME NoFaceOfAStranger, NEW p \in PersonIds, NEW solo, Rebuilt(p, solo) # <<>>
    PROVE  p \in Standing
  <1>1. FacesOf(p) # {}  BY DEF Rebuilt
  <1>2. p # Nobody  BY DEF PersonIds, Nobody
  <1> QED  BY <1>1, <1>2 DEF FacesOf, NoFaceOfAStranger, Standing

\* People and their exemplars fit, wherever the only loop at work is not about to
\* delete those of who has been merged away.
ExemplarsFit == DOMAIN references = PersonIds /\ NoExemplarsOfAStranger

LEMMA OwnersFit ==
    ASSUME OneLoop, OwnersAreThere, NEW w \in Loops, job[w].pc \notin {"idle", "mergeReferences"}
    PROVE  ExemplarsFit
  <1>1. \A v \in Loops : ~At(v, "mergeReferences")  BY DEF OneLoop, At
  <1> QED  BY <1>1 DEF OwnersAreThere, ExemplarsFit, NoExemplarsOfAStranger, Standing

\* The other loops are idle, so that it is the loop at work that matters.
LEMMA WorkerMatters ==
    ASSUME OneLoop, NEW w \in Loops, NEW labels, LoopMoves(w, labels),
           NoFaceOfAStranger', OwnersAreThere', Deserted(w)', Addressed(w)'
    PROVE  PeopleAreThere'
  <1>1. \A v \in Loops \ {w} : job'[v].pc = "idle"  BY DEF LoopMoves, OneLoop
  <1>2. \A v \in Loops : Deserted(v)' /\ Addressed(v)'
    <2> TAKE v \in Loops
    <2>1. CASE v # w  BY <1>1, <2>1 DEF Deserted, Addressed
    <2> QED  BY <2>1
  <1> QED  BY <1>2 DEF PeopleAreThere

LEMMA FitMatters ==
    ASSUME OneLoop, NEW w \in Loops, NoFaceOfAStranger', ExemplarsFit',
           \/ LoopMoves(w, Careless)
           \/ LoopMoves(w, Holding \cup Careless) /\ Addressed(w)'
           \/ LoopMoves(w, Deserting) /\ Deserted(w)'
    PROVE  PeopleAreThere'
  <1>1. OwnersAreThere'  BY DEF ExemplarsFit, NoExemplarsOfAStranger, OwnersAreThere, Standing
  <1>2. CASE LoopMoves(w, Careless)
    <2>1. Deserted(w)' /\ Addressed(w)'  BY <1>2 DEF LoopMoves, Careless, Deserted, Addressed
    <2> QED  BY <1>1, <1>2, <2>1, WorkerMatters
  <1>3. CASE LoopMoves(w, Holding \cup Careless) /\ Addressed(w)'
    <2>1. Deserted(w)'  BY <1>3 DEF LoopMoves, Holding, Careless, Deserted
    <2> QED  BY <1>1, <1>3, <2>1, WorkerMatters
  <1>4. CASE LoopMoves(w, Deserting) /\ Deserted(w)'
    <2>1. Addressed(w)'  BY <1>4 DEF LoopMoves, Deserting, Addressed
    <2> QED  BY <1>1, <1>4, <2>1, WorkerMatters
  <1> QED  BY <1>2, <1>3, <1>4

\* Steps that leave the tables, and those that delete nobody
LEMMA CarelessLeave ==
    ASSUME FaceRows, OneLoop, PeopleAreThere, UNCHANGED used, NEW w \in Loops,
           \/ BeginPass(w) \/ Again(w) \/ Leave(w) \/ (\E S : Dispatch(w, S) \/ Outcome(w, S))
           \/ RequestFails(w) \/ AbandonPass(w) \/ Analysed(w) \/ LabelFails(w) \/ AllPeople(w)
           \/ (\E reports : ReadCovers(w, reports))
           \/ MarkScanned(w) \/ MarkReconciled(w) \/ WriteCovers(w)
    PROVE  PeopleAreThere'
  <1>1. LoopMoves(w, Careless)  BY CarelessMoves
  <1>2. NoFaceOfAStranger /\ OwnersAreThere  BY DEF PeopleAreThere
  <1>3. UNCHANGED <<faces, references>> /\ DOMAIN people' = DOMAIN people
        /\ job[w].pc \notin {"idle", "mergeReferences"}
    <2> USE DEF At, KeepsTables, tables
    <2>1. CASE \/ BeginPass(w) \/ Again(w) \/ Leave(w) \/ (\E S : Dispatch(w, S) \/ Outcome(w, S))
               \/ RequestFails(w) \/ AbandonPass(w) \/ Analysed(w)
      BY <2>1 DEF BeginPass, Again, Leave, Dispatch, Outcome, RequestFails, AbandonPass, Analysed
    <2>2. CASE \/ LabelFails(w) \/ AllPeople(w) \/ (\E reports : ReadCovers(w, reports))
               \/ MarkScanned(w) \/ MarkReconciled(w) \/ WriteCovers(w)
      BY <2>2 DEF LabelFails, AllPeople, ReadCovers, MarkScanned, MarkReconciled, WriteCovers
    <2> QED  BY <2>1, <2>2
  <1>4. ExemplarsFit  BY <1>2, <1>3, OwnersFit
  <1>5. NoFaceOfAStranger'  BY <1>2, <1>3, FacesFindTheirs
  <1>6. ExemplarsFit'  BY <1>3, <1>4 DEF ExemplarsFit, NoExemplarsOfAStranger
  <1> QED  BY <1>1, <1>5, <1>6, FitMatters

\* People are deleted when nothing is left of theirs.
LEMMA DeletionsFit ==
    ASSUME FaceRows, OneLoop, PeopleAreThere, UNCHANGED used, NEW w \in Loops,
           ResetPeople(w) \/ TidyPeople(w)
    PROVE  PeopleAreThere'
  <1>1. LoopMoves(w, Careless)  BY CarelessMoves
  <1>2. NoFaceOfAStranger /\ OwnersAreThere /\ Deserted(w)  BY DEF PeopleAreThere
  <1>3. ASSUME NEW R, people' = Without(people, R), UNCHANGED <<faces, references>>,
               job[w].pc \notin {"idle", "mergeReferences"},
               \A p \in R : FacesOf(p) = {}, \A p \in R \cap PersonIds : references[p] = <<>>
        PROVE  PeopleAreThere'
    <2>1. ExemplarsFit  BY <1>2, <1>3, OwnersFit
    <2>2. NoFaceOfAStranger'  BY <1>2, <1>3, FacesFindTheirs
    <2>3. DOMAIN people' = DOMAIN people \ R  BY <1>3 DEF Without
    <2>4. ExemplarsFit'  BY <1>3, <2>1, <2>3 DEF ExemplarsFit, NoExemplarsOfAStranger
    <2> QED  BY <1>1, <2>2, <2>4, FitMatters
  <1>4. CASE ResetPeople(w)
    <2>1. job[w].pc = "resetPeople" /\ people' = Without(people, Generated)
          /\ UNCHANGED <<faces, references>>
      BY <1>4 DEF ResetPeople, At
    <2>2. /\ \A p \in Generated : FacesOf(p) = {}
          /\ \A p \in Generated \cap PersonIds : references[p] = <<>>
      BY <1>2, <2>1 DEF Deserted
    <2> QED  BY <1>3, <2>1, <2>2
  <1>5. CASE TidyPeople(w)
    <2>1. job[w].pc = "tidyPeople" /\ people' = Without(people, Empty)
          /\ UNCHANGED <<faces, references>>
      BY <1>5 DEF TidyPeople, At
    <2>2. /\ \A p \in Empty : FacesOf(p) = {}
          /\ \A p \in Empty \cap PersonIds : references[p] = <<>>
      BY <1>2, <2>1 DEF Deserted, Empty, WithFaces, Generated
    <2> QED  BY <1>3, <2>1, <2>2
  <1> QED  BY <1>4, <1>5

\* Faces are detached or replaced, and exemplars made of those that one still has.
LEMMA DetachmentsFit ==
    ASSUME FaceRows, OneLoop, PeopleAreThere, UNCHANGED used, NEW w \in Loops,
           Effects, (\E reports : Detach(w, reports)) \/ RebuildDetached(w) \/ Apply(w)
    PROVE  PeopleAreThere'
  <1>1. LoopMoves(w, Careless)  BY CarelessMoves
  <1>2. NoFaceOfAStranger /\ OwnersAreThere  BY DEF PeopleAreThere
  <1>3. CASE \E reports : Detach(w, reports)
    <2>1. PICK F : faces' = Assigned(F, Nobody)  BY <1>3 DEF Detach
    <2>2. job[w].pc = "detach" /\ UNCHANGED <<people, references>>  BY <1>3 DEF Detach, At
    <2>3. NoFaceOfAStranger'  BY <1>2, <2>1, <2>2, FacesFindTheirs
    <2>4. ExemplarsFit'  BY <1>2, <2>2, OwnersFit DEF ExemplarsFit, NoExemplarsOfAStranger
    <2> QED  BY <1>1, <2>3, <2>4, FitMatters
  <1>4. CASE RebuildDetached(w)
    <2>1. /\ job[w].pc = "rebuild" /\ UNCHANGED <<people, faces>>
          /\ references' = [p \in PersonIds |->
                IF p \in job[w].members THEN Rebuilt(p, SoloPhotos) ELSE references[p]]
      BY <1>4 DEF RebuildDetached, At
    <2>2. NoFaceOfAStranger'  BY <1>2, <2>1, FacesFindTheirs
    <2>3. ExemplarsFit  BY <1>2, <2>1, OwnersFit
    <2>4. ExemplarsFit'
      BY <1>2, <2>1, <2>3, RebuiltAreThere DEF ExemplarsFit, NoExemplarsOfAStranger, Standing
    <2> QED  BY <1>1, <2>2, <2>4, FitMatters
  <1>5. CASE Apply(w)
    <2>1. job[w].pc = "analyse" /\ UNCHANGED <<people, references>>  BY <1>5 DEF Apply, At
    <2>2. Replaces  BY <1>5, ApplyReplaces
    <2>3. NoFaceOfAStranger'  BY <1>2, <2>2, FacesFindTheirs
    <2>4. ExemplarsFit'  BY <1>2, <2>1, OwnersFit DEF ExemplarsFit, NoExemplarsOfAStranger
    <2> QED  BY <1>1, <2>3, <2>4, FitMatters
  <1> QED  BY <1>3, <1>4, <1>5

\* What leads up to a deletion
LEMMA DesertersFit ==
    ASSUME FaceRows, OneLoop, PeopleAreThere, UNCHANGED used, NEW w \in Loops,
           ResetFaces(w) \/ ResetReferences(w) \/ TidyReferences(w)
    PROVE  PeopleAreThere'
  <1>0. /\ LoopMoves(w, Deserting)
        /\ ResetFaces(w) => job'[w].pc = "resetReferences"
        /\ ResetReferences(w) => job'[w].pc = "resetPeople"
        /\ TidyReferences(w) => job'[w].pc = "tidyPeople"
    BY DesertingMoves
  <1>1. NoFaceOfAStranger /\ OwnersAreThere /\ Deserted(w)  BY DEF PeopleAreThere
  <1>2. job[w].pc \in {"reset", "resetReferences", "tidy"} /\ people' = people
    BY DEF ResetFaces, ResetReferences, TidyReferences, At
  <1>3. ExemplarsFit  BY <1>1, <1>2, OwnersFit
  <1>4. CASE ResetFaces(w)
    <2>1. faces' = Assigned(OfGenerated, Nobody) /\ references' = references
      BY <1>4 DEF ResetFaces
    <2>2. NoFaceOfAStranger'  BY <1>1, <1>2, <2>1, FacesFindTheirs
    <2>3. \A p \in Generated : FacesOf(p)' = {}
      <3> SUFFICES ASSUME NEW p \in Generated, NEW f \in DOMAIN faces', faces'[f].person = p
                   PROVE  FALSE
        BY DEF FacesOf
      <3>1. f \in DOMAIN faces /\ DOMAIN faces[f] = {"person", "manual"} /\ p \in Nat /\ p # Nobody
        BY <2>1 DEF Assigned, FaceRows, Generated, Nobody
      <3>2. CASE f \in OfGenerated  BY <2>1, <3>1, <3>2 DEF Assigned
      <3>3. CASE f \notin OfGenerated
        <4>1. faces[f].person = p  BY <2>1, <3>1, <3>3 DEF Assigned
        <4> QED  BY <3>1, <3>3, <4>1 DEF OfGenerated, FacesOf
      <3> QED  BY <3>2, <3>3
    <2>4. Deserted(w)'  BY <1>0, <1>2, <1>4, <2>3 DEF Deserted, Generated
    <2>5. ExemplarsFit'  BY <1>2, <1>3, <2>1 DEF ExemplarsFit, NoExemplarsOfAStranger
    <2> QED  BY <1>0, <2>2, <2>4, <2>5, FitMatters
  <1>5. CASE ResetReferences(w)
    <2>1. /\ references' = [p \in PersonIds |-> IF p \in Outlived THEN <<>> ELSE references[p]]
          /\ faces' = faces /\ job[w].pc = "resetReferences"
      BY <1>5 DEF ResetReferences, At
    <2>2. NoFaceOfAStranger'  BY <1>1, <1>2, <2>1, FacesFindTheirs
    <2>3. /\ \A p \in Generated : FacesOf(p) = {}
          /\ \A p \in Generated \cap PersonIds : references'[p] = <<>>
      BY <1>1, <2>1 DEF Deserted, Outlived
    <2>4. Deserted(w)'  BY <1>0, <1>2, <1>5, <2>1, <2>3 DEF Deserted, Generated, FacesOf
    <2>5. ExemplarsFit'  BY <1>2, <1>3, <2>1 DEF ExemplarsFit, NoExemplarsOfAStranger
    <2> QED  BY <1>0, <2>2, <2>4, <2>5, FitMatters
  <1>6. CASE TidyReferences(w)
    <2>1. /\ references' = [p \in PersonIds |-> IF p \in Empty THEN <<>> ELSE references[p]]
          /\ faces' = faces
      BY <1>6 DEF TidyReferences
    <2>2. NoFaceOfAStranger'  BY <1>1, <1>2, <2>1, FacesFindTheirs
    <2>3. \A p \in Empty \cap PersonIds : references'[p] = <<>>  BY <2>1
    <2>4. Deserted(w)'
      BY <1>0, <1>2, <1>6, <2>1, <2>3 DEF Deserted, Empty, Generated, WithFaces, FacesOf
    <2>5. ExemplarsFit'  BY <1>2, <1>3, <2>1 DEF ExemplarsFit, NoExemplarsOfAStranger
    <2> QED  BY <1>0, <2>2, <2>4, <2>5, FitMatters
  <1> QED  BY <1>4, <1>5, <1>6

\* Without exemplars nobody is similar enough, so that only who is known stands
\* out.
LEMMA OnlyTheKnownStandOut ==
    ASSUME NEW w
    PROVE  /\ \A f : \A p \in KnownAs(w, f) : job[w].known[p] # <<>>
           /\ \A C : \A p \in ClusterIs(w, C) :
                 job[w].known[p] # <<>> /\ \E f \in C : p \in job[w].near[f]
  <1>1. AssignFloor \in Nat \ {0}  BY JobOK
  <1>2. Max({-1}) = -1  BY DEF Max
  <1>3. \A f : BestSimilarity(f, <<>>) = -1
    <2> TAKE f
    <2>1. {-1} \cup {Alike(f, <<>>[n]) : n \in DOMAIN <<>>} = {-1}  OBVIOUS
    <2> QED  BY <1>2, <2>1 DEF BestSimilarity
  <1>4. \A C : ClusterScore(C, <<>>) = -1
    <2> TAKE C
    <2> DEFINE mean(e) == MapThenSumSet(LAMBDA f : Alike(f, e), C) \div Cardinality(C)
    <2>1. {-1} \cup {mean(<<>>[n]) + CentreGain : n \in DOMAIN <<>>} = {-1}  OBVIOUS
    <2>2. ClusterScore(C, <<>>) = Max({-1} \cup {mean(<<>>[n]) + CentreGain : n \in DOMAIN <<>>})
      BY DEF ClusterScore
    <2> QED  BY <1>2, <2>1, <2>2
  <1>5. \A f : \A p \in KnownAs(w, f) : job[w].known[p] # <<>>
    <2> SUFFICES ASSUME NEW f, NEW p \in KnownAs(w, f), job[w].known[p] = <<>> PROVE FALSE
      OBVIOUS
    <2>1. p \in job[w].near[f] /\ BestSimilarity(f, job[w].known[p]) >= AssignFloor
      BY DEF KnownAs, StandsOut
    <2> QED  BY <1>1, <1>3, <2>1
  <1>6. \A C : \A p \in ClusterIs(w, C) :
           job[w].known[p] # <<>> /\ \E f \in C : p \in job[w].near[f]
    <2> SUFFICES ASSUME NEW C, NEW p \in ClusterIs(w, C)
                 PROVE  job[w].known[p] # <<>> /\ \E f \in C : p \in job[w].near[f]
      OBVIOUS
    <2>1. /\ p \in UNION {job[w].near[f] : f \in C}
          /\ ClusterScore(C, job[w].known[p]) >= AssignFloor
      BY DEF ClusterIs, StandsOut
    <2> QED  BY <1>1, <1>4, <2>1
  <1> QED  BY <1>5, <1>6

\* Whom the faces that are taken may show is there, ...
LEMMA TakenFit ==
    ASSUME OneLoop, PeopleAreThere, UNCHANGED used, NEW w \in Loops,
           NEW reports, NEW answers, Snapshot(w, reports, answers)
    PROVE  PeopleAreThere'
  <1> DEFINE F == {f \in Loose : reports => ~Small(f)}
             N(f) == {faces[g].person : g \in
                        {h \in DOMAIN faces \ {f} : Alike(f, h) >= RecognitionFloor}} \ {Nobody}
             n == [f \in F |-> IF mode = "store" /\ answers THEN N(f) ELSE PersonIds]
             K == IF reports THEN references ELSE [p \in PersonIds |-> <<>>]
             next == IF Stopped(w) \/ F = {} THEN "reconcile" ELSE "match"
             j == [job[w] EXCEPT !.pc = next, !.members = F, !.sized = reports, !.known = K, !.near = n]
  <1>0. DOMAIN job = Loops /\ DOMAIN job[w] = DOMAIN NoJob
        /\ {"pc", "members", "sized", "known", "near"} \subseteq DOMAIN NoJob
    BY DEF OneLoop, NoJob
  <1>1. /\ job' = [job EXCEPT ![w] = j] /\ job[w].pc = "cluster"
        /\ UNCHANGED <<faces, people, references>>
    BY <1>0 DEF Snapshot, At, KeepsTables, tables
  <1>2. LoopMoves(w, Holding \cup Careless)  BY TakesLoose
  <1>3. NoFaceOfAStranger /\ ExemplarsFit
    BY <1>1, OwnersFit DEF PeopleAreThere
  <1>4. NoFaceOfAStranger' /\ ExemplarsFit'
    BY <1>1, <1>3 DEF NoFaceOfAStranger, ExemplarsFit, NoExemplarsOfAStranger
  <1>5. /\ \A p \in PersonIds : K[p] # <<>> => p \in Standing
        /\ \A f \in F : n[f] \subseteq Standing \cup PersonIds
        /\ DOMAIN n = F
    BY <1>3 DEF ExemplarsFit, NoExemplarsOfAStranger, NoFaceOfAStranger, Standing
  <1>6. next \in {"reconcile", "match"}  OBVIOUS
  <1> HIDE DEF F, N, n, K, next
  <1>7. j.pc = next /\ j.members = F /\ j.known = K /\ j.near = n  BY <1>0
  <1> HIDE DEF j
  <1>8. job'[w] = j  BY <1>0, <1>1
  <1>9. Addressed(w)'  BY <1>1, <1>5, <1>6, <1>7, <1>8 DEF Addressed, Standing
  <1> QED  BY <1>2, <1>4, <1>9, FitMatters

\* ... and so is whom they are found to show, ...
LEMMA ChoicesFit ==
    ASSUME OneLoop, HeldAreUntaken, PeopleAreThere, UNCHANGED used, NEW w \in Loops,
           MatchKnown(w) \/ AllKnown(w) \/ Label(w)
    PROVE  PeopleAreThere'
  <1>0. DOMAIN job = Loops /\ DOMAIN job[w] = DOMAIN NoJob
        /\ {"pc", "members", "known", "near", "orders", "clusters"} \subseteq DOMAIN NoJob
    BY DEF OneLoop, NoJob
  <1>1. UNCHANGED <<faces, people, references>> /\ job[w].pc \in {"match", "assign", "label"}
    BY DEF MatchKnown, AllKnown, Label, At, KeepsTables, tables
  <1>2. LoopMoves(w, Holding \cup Careless)  BY TakesOrders DEF HeldAreUntaken
  <1>3. NoFaceOfAStranger /\ ExemplarsFit /\ Addressed(w)
    BY <1>1, OwnersFit DEF PeopleAreThere
  <1>4. NoFaceOfAStranger' /\ ExemplarsFit'
    BY <1>1, <1>3 DEF NoFaceOfAStranger, ExemplarsFit, NoExemplarsOfAStranger
  <1>5. /\ \A p \in PersonIds : job[w].known[p] # <<>> => p \in Standing
        /\ \A f \in DOMAIN job[w].near : job[w].near[f] \subseteq Standing \cup PersonIds
        /\ job[w].members \subseteq DOMAIN job[w].near
    BY <1>1, <1>3 DEF Addressed
  <1>6. CASE MatchKnown(w)
    <2> DEFINE O == Orders(w)
               R == job[w].members \ UNION {o.faces : o \in O}
    <2>1. job' = [job EXCEPT ![w] = [job[w] EXCEPT !.pc = "assign", !.orders = O, !.members = R]]
      BY <1>0, <1>6 DEF MatchKnown
    <2>2. \A o \in O : o.person \in Standing
      <3> DEFINE claimed(p) == {f \in job[w].members : p \in KnownAs(w, f)}
      <3> TAKE o \in O
      <3>1. o.person \in PersonIds /\ claimed(o.person) # {}  BY DEF Orders
      <3>2. job[w].known[o.person] # <<>>  BY <3>1, OnlyTheKnownStandOut
      <3> QED  BY <1>5, <3>1, <3>2
    <2>3. R \subseteq job[w].members  OBVIOUS
    <2> HIDE DEF O, R
    <2>4. /\ job'[w].pc = "assign" /\ job'[w].orders = O /\ job'[w].members = R
          /\ job'[w].known = job[w].known /\ job'[w].near = job[w].near
      BY <1>0, <2>1
    <2>5. Addressed(w)'  BY <1>1, <1>5, <2>2, <2>3, <2>4 DEF Addressed, Standing
    <2> QED  BY <1>2, <1>4, <2>5, FitMatters
  <1>7. CASE AllKnown(w)
    <2> DEFINE next == IF job[w].members = {} THEN "reconcile" ELSE "label"
    <2>1. job' = [job EXCEPT ![w].pc = next]  BY <1>7 DEF AllKnown, Goes
    <2>2. next \in {"reconcile", "label"}  OBVIOUS
    <2> HIDE DEF next
    <2>3. /\ job'[w].pc = next /\ job'[w].members = job[w].members
          /\ job'[w].known = job[w].known /\ job'[w].near = job[w].near
      BY <1>0, <2>1
    <2>4. Addressed(w)'  BY <1>1, <1>5, <2>2, <2>3 DEF Addressed, Standing
    <2> QED  BY <1>2, <1>4, <2>4, FitMatters
  <1>8. CASE Label(w)
    <2> DEFINE L3 == ClustersOf(job[w].members)
    <2>1. job' = [job EXCEPT ![w] = [job[w] EXCEPT !.pc = "found", !.clusters = L3]]
      BY <1>0, <1>8 DEF Label
    <2>2. \A C \in L3 : C \subseteq job[w].members  BY DEF ClustersOf
    <2> HIDE DEF L3
    <2>3. /\ job'[w].pc = "found" /\ job'[w].clusters = L3
          /\ job'[w].known = job[w].known /\ job'[w].near = job[w].near
      BY <1>0, <2>1
    <2>4. Addressed(w)'  BY <1>1, <1>5, <2>2, <2>3 DEF Addressed, Standing
    <2> QED  BY <1>2, <1>4, <2>4, FitMatters
  <1> QED  BY <1>6, <1>7, <1>8

\* ... so that faces are given only to people who are there.
LEMMA GivenFit ==
    ASSUME FaceRows, OneLoop, HeldAreUntaken, PeopleAreThere, Effects, UNCHANGED used, NEW w \in Loops,
           \/ AssignKnown(w) \/ ExtendPerson(w) \/ CreatePerson(w) \/ FillPerson(w) \/ StoreExemplars(w)
    PROVE  PeopleAreThere'
  <1>0. DOMAIN job = Loops /\ DOMAIN job[w] = DOMAIN NoJob
        /\ {"pc", "members", "known", "near", "orders", "clusters", "newcomer"} \subseteq DOMAIN NoJob
    BY DEF OneLoop, NoJob
  <1>1. LoopMoves(w, Holding \cup Careless)  BY HoldsOn DEF HeldAreUntaken, LoopMoves
  <1>2. job[w].pc \in {"assign", "found", "newcomer", "exemplars"}
    BY DEF AssignKnown, ExtendPerson, CreatePerson, FillPerson, StoreExemplars, At
  <1>3. NoFaceOfAStranger /\ ExemplarsFit /\ Addressed(w)
    BY <1>2, OwnersFit DEF PeopleAreThere
  <1>4. /\ \A p \in PersonIds : job[w].known[p] # <<>> => p \in Standing
        /\ \A f \in DOMAIN job[w].near : job[w].near[f] \subseteq Standing \cup PersonIds
    BY <1>2, <1>3 DEF Addressed
  <1>5. CASE AssignKnown(w)
    <2>1. PICK o \in job[w].orders :
             faces' = Assigned(o.faces, o.person) /\ job' = [job EXCEPT ![w].orders = @ \ {o}]
      BY <1>5 DEF AssignKnown
    <2>2. job[w].pc = "assign" /\ UNCHANGED <<people, references>>  BY <1>5 DEF AssignKnown, At
    <2>3. \A q \in job[w].orders : q.person \in Standing  BY <1>3, <2>2 DEF Addressed
    <2>4. NoFaceOfAStranger'  BY <1>3, <2>1, <2>2, <2>3, FacesFindTheirs
    <2>5. /\ job'[w].pc = "assign" /\ job'[w].orders \subseteq job[w].orders
          /\ job'[w].known = job[w].known /\ job'[w].near = job[w].near
          /\ job'[w].members = job[w].members
      BY <1>0, <2>1, <2>2
    <2>6. job[w].members \subseteq DOMAIN job[w].near  BY <1>3, <2>2 DEF Addressed
    <2>7. Addressed(w)'  BY <1>4, <2>2, <2>3, <2>5, <2>6 DEF Addressed, Standing
    <2>8. ExemplarsFit'  BY <1>3, <2>2 DEF ExemplarsFit, NoExemplarsOfAStranger
    <2> QED  BY <1>1, <2>4, <2>7, <2>8, FitMatters
  \* Clusters are taken one by one.
  <1>6. ASSUME job[w].pc \in {"found", "newcomer", "exemplars"},
               job'[w].pc \in {"found", "newcomer", "exemplars"},
               job'[w].clusters \subseteq job[w].clusters,
               job'[w].known = job[w].known, job'[w].near = job[w].near,
               DOMAIN people \subseteq DOMAIN people',
               job'[w].pc # "found" => job'[w].newcomer \in DOMAIN people'
        PROVE  Addressed(w)'
    <2>1. \A C \in job[w].clusters : C \subseteq DOMAIN job[w].near  BY <1>3, <1>6 DEF Addressed
    <2> QED  BY <1>4, <1>6, <2>1 DEF Addressed, Standing
  <1>7. CASE ExtendPerson(w)
    <2>1. job[w].pc = "found" /\ UNCHANGED <<people, references>>  BY <1>7 DEF ExtendPerson, At
    <2>2. PICK C \in job[w].clusters :
             /\ \E p \in ClusterIs(w, C) : faces' = Assigned(C, p)
             /\ job' = [job EXCEPT ![w].clusters = @ \ {C}]
      BY <1>7 DEF ExtendPerson
    <2>3. C \subseteq DOMAIN job[w].near  BY <1>3, <2>1 DEF Addressed
    <2>4. \A p \in ClusterIs(w, C) : p \in Standing  BY <1>4, <2>3, OnlyTheKnownStandOut
    <2>5. NoFaceOfAStranger'  BY <1>3, <2>1, <2>2, <2>4, FacesFindTheirs
    <2>6. /\ job'[w].pc = "found" /\ job'[w].clusters \subseteq job[w].clusters
          /\ job'[w].known = job[w].known /\ job'[w].near = job[w].near
      BY <1>0, <2>1, <2>2
    <2>7. Addressed(w)'  BY <1>6, <2>1, <2>6
    <2>8. ExemplarsFit'  BY <1>3, <2>1 DEF ExemplarsFit, NoExemplarsOfAStranger
    <2> QED  BY <1>1, <2>5, <2>7, <2>8, FitMatters
  <1>8. CASE CreatePerson(w)
    <2>1. /\ job[w].pc = "found" /\ UNCHANGED <<faces, references>>
          /\ job' = [job EXCEPT ![w].pc = "newcomer", ![w].newcomer = nextPerson]
          /\ \E r : people' = WithRow(people, nextPerson, r)
      BY <1>8 DEF CreatePerson, At
    <2>2. DOMAIN people' = DOMAIN people \cup {nextPerson}  BY <2>1 DEF WithRow
    <2>3. NoFaceOfAStranger'  BY <1>3, <2>1, <2>2, FacesFindTheirs
    <2>4. /\ job'[w].pc = "newcomer" /\ job'[w].clusters = job[w].clusters
          /\ job'[w].known = job[w].known /\ job'[w].near = job[w].near
          /\ job'[w].newcomer = nextPerson
      BY <1>0, <2>1
    <2>5. Addressed(w)'  BY <1>6, <2>1, <2>2, <2>4
    <2>6. ExemplarsFit'  BY <1>3, <2>1, <2>2 DEF ExemplarsFit, NoExemplarsOfAStranger
    <2> QED  BY <1>1, <2>3, <2>5, <2>6, FitMatters
  <1>9. CASE FillPerson(w)
    <2>1. /\ job[w].pc = "newcomer" /\ UNCHANGED <<people, references>>
          /\ job' = [job EXCEPT ![w].pc = "exemplars"]
          /\ \E C : faces' = Assigned(C, job[w].newcomer)
      BY <1>9 DEF FillPerson, At, Goes
    <2>2. job[w].newcomer \in DOMAIN people  BY <1>3, <2>1 DEF Addressed
    <2>3. NoFaceOfAStranger'  BY <1>3, <2>1, <2>2, FacesFindTheirs DEF Standing
    <2>4. /\ job'[w].pc = "exemplars" /\ job'[w].clusters = job[w].clusters
          /\ job'[w].known = job[w].known /\ job'[w].near = job[w].near
          /\ job'[w].newcomer = job[w].newcomer
      BY <1>0, <2>1
    <2>5. Addressed(w)'  BY <1>6, <2>1, <2>2, <2>4
    <2>6. ExemplarsFit'  BY <1>3, <2>1 DEF ExemplarsFit, NoExemplarsOfAStranger
    <2> QED  BY <1>1, <2>3, <2>5, <2>6, FitMatters
  <1>10. CASE StoreExemplars(w)
    <2>1. PICK C, E :
             /\ references' = [references EXCEPT ![job[w].newcomer] = E]
             /\ job' = [job EXCEPT ![w].pc = "found", ![w].clusters = @ \ {C}]
      BY <1>10 DEF StoreExemplars
    <2>2. job[w].pc = "exemplars" /\ UNCHANGED <<faces, people>>  BY <1>10 DEF StoreExemplars, At
    <2>3. job[w].newcomer \in DOMAIN people  BY <1>3, <2>2 DEF Addressed
    <2>4. NoFaceOfAStranger'  BY <1>3, <2>2, FacesFindTheirs
    <2>5. /\ job'[w].pc = "found" /\ job'[w].clusters \subseteq job[w].clusters
          /\ job'[w].known = job[w].known /\ job'[w].near = job[w].near
      BY <1>0, <2>1
    <2>6. Addressed(w)'  BY <1>6, <2>2, <2>5
    <2>7. ExemplarsFit'
      BY <1>3, <2>1, <2>2, <2>3 DEF ExemplarsFit, NoExemplarsOfAStranger
    <2> QED  BY <1>1, <2>4, <2>6, <2>7, FitMatters
  <1> QED  BY <1>5, <1>7, <1>8, <1>9, <1>10

\* Where everybody is compared, exemplars are made of those who have faces.
LEMMA ComparisonFits ==
    ASSUME FaceRows, Effects, OneLoop, MergesApart, PeopleAreThere, UNCHANGED used, NEW w \in Loops,
           Round(w) \/ \E reports : Reconcile(w, reports)
    PROVE  PeopleAreThere'
  <1>0. DOMAIN job = Loops /\ DOMAIN job[w] = DOMAIN NoJob /\ {"pc", "merges"} \subseteq DOMAIN NoJob
    BY DEF OneLoop, NoJob
  <1>1. job[w].pc \in {"round", "reconcile"} /\ UNCHANGED <<faces, people>>
    BY DEF Round, Reconcile, At, KeepsTables, tables
  <1>2. NoFaceOfAStranger /\ ExemplarsFit  BY <1>1, OwnersFit DEF PeopleAreThere
  <1>3. NoFaceOfAStranger'  BY <1>1, <1>2 DEF NoFaceOfAStranger
  <1>4. ExemplarsFit'
    <2>1. CASE Round(w)
      <3>1. references' = Compared  BY <2>1 DEF Round
      <3>2. DOMAIN Compared = PersonIds /\ \A p \in PersonIds : Compared[p] # <<>> => p \in Standing
        BY <1>2 DEF Compared, Generated, ExemplarsFit, NoExemplarsOfAStranger, Standing
      <3> QED  BY <1>1, <3>1, <3>2 DEF ExemplarsFit, NoExemplarsOfAStranger, Standing
    <2>2. CASE \E reports : Reconcile(w, reports)
      <3>1. references' = references  BY <2>2 DEF Reconcile, KeepsTables, tables
      <3> QED  BY <1>1, <1>2, <3>1 DEF ExemplarsFit, NoExemplarsOfAStranger
    <2> QED  BY <2>1, <2>2
  <1>5. OwnersAreThere'  BY <1>4 DEF ExemplarsFit, NoExemplarsOfAStranger, OwnersAreThere, Standing
  <1>6. /\ LoopMoves(w, Uniting \cup Unburdened)
        /\ job'[w].pc \in {"markAll", "mergeFaces", "covers", "round"}
    <2>1. CASE Round(w)
      <3>1. LoopMoves(w, Uniting \cup Unburdened)  BY <2>1, MergesGoOn DEF MergesApart
      <3>2. PICK M, next : /\ job' = [job EXCEPT ![w].pc = next, ![w].merges = M]
                           /\ next \in {"markAll", "mergeFaces"}
        BY <2>1 DEF Round
      <3> QED  BY <1>0, <3>1, <3>2
    <2>2. CASE \E reports : Reconcile(w, reports)
      BY <2>2, ReconcileMoves DEF LoopMoves, Unburdened
    <2> QED  BY <2>1, <2>2
  <1>7. Deserted(w)' /\ Addressed(w)'  BY <1>6 DEF Deserted, Addressed
  <1> QED  BY <1>3, <1>5, <1>6, <1>7, WorkerMatters

\* Who is merged away loses the faces, is deleted, and loses the exemplars.
LEMMA MergesFit ==
    ASSUME FaceRows, Effects, OneLoop, MergesApart, PeopleAreThere, UNCHANGED used, NEW w \in Loops,
           MergeFaces(w) \/ MergePerson(w) \/ MergeReferences(w)
    PROVE  PeopleAreThere'
  <1>0. DOMAIN job = Loops /\ DOMAIN job[w] = DOMAIN NoJob /\ {"pc", "merges"} \subseteq DOMAIN NoJob
    BY DEF OneLoop, NoJob
  <1>1. job[w].pc \in {"mergeFaces", "mergePerson", "mergeReferences"}
    BY DEF MergeFaces, MergePerson, MergeReferences, At
  <1>2. /\ job[w].merges \subseteq Nat \X Nat
        /\ \A x, y \in job[w].merges : {x[1], x[2]} \cap {y[1], y[2]} # {} => x = y
        /\ \A x \in job[w].merges : x[1] # x[2] /\ x[1] \in DOMAIN people
    BY <1>1 DEF MergesApart, Apart
  <1>3. /\ \A x \in Merging(w) : x[1] # x[2] /\ x[1] \in DOMAIN people
        /\ \A x, y \in Merging(w) : x = y
    BY <1>2, OneIsNext DEF Merging
  <1>4. LoopMoves(w, Uniting \cup Unburdened)  BY MergesGoOn DEF MergesApart
  <1>5. NoFaceOfAStranger /\ OwnersAreThere /\ Deserted(w)  BY DEF PeopleAreThere
  <1>6. CASE MergeFaces(w)
    <2>1. PICK pq \in Merging(w) : faces' = Assigned(FacesOf(pq[2]), pq[1])
      BY <1>6 DEF MergeFaces
    <2>2. /\ job[w].pc = "mergeFaces" /\ job' = [job EXCEPT ![w].pc = "mergePerson"]
          /\ UNCHANGED <<people, references>>
      BY <1>6 DEF MergeFaces, At, Goes
    <2>3. job'[w].pc = "mergePerson" /\ job'[w].merges = job[w].merges  BY <1>0, <2>2
    <2>4. NoFaceOfAStranger'  BY <1>3, <1>5, <2>1, <2>2, FacesFindTheirs DEF Standing
    <2>5. ExemplarsFit  BY <1>5, <2>2, OwnersFit
    <2>6. OwnersAreThere'
      BY <2>2, <2>5 DEF ExemplarsFit, NoExemplarsOfAStranger, OwnersAreThere, Standing
    <2>7. Merging(w)' = Merging(w)  BY <2>3 DEF Merging
    <2>8. FacesOf(pq[2])' = {}
      <3> SUFFICES ASSUME NEW f \in DOMAIN faces', faces'[f].person = pq[2] PROVE FALSE
        BY DEF FacesOf
      <3>1. f \in DOMAIN faces /\ DOMAIN faces[f] = {"person", "manual"}
        BY <2>1 DEF Assigned, FaceRows
      <3>2. CASE f \in FacesOf(pq[2])
        <4>1. faces'[f].person = pq[1]  BY <2>1, <3>1, <3>2 DEF Assigned
        <4> QED  BY <1>3, <4>1
      <3>3. CASE f \notin FacesOf(pq[2])
        <4>1. faces'[f] = faces[f]  BY <2>1, <3>1, <3>3 DEF Assigned
        <4> QED  BY <3>1, <3>3, <4>1 DEF FacesOf
      <3> QED  BY <3>2, <3>3
    <2>9. Deserted(w)'
      <3>1. \A x \in Merging(w)' : x = pq  BY <1>3, <2>7
      <3>2. \A x \in Merging(w)' : FacesOf(x[2])' = {}  BY <2>8, <3>1
      <3> QED  BY <2>3, <3>2 DEF Deserted
    <2>10. Addressed(w)'  BY <2>3 DEF Addressed
    <2> QED  BY <1>4, <2>4, <2>6, <2>9, <2>10, WorkerMatters
  <1>7. CASE MergePerson(w)
    <2>1. PICK pq \in Merging(w) : people' = Without(people, {pq[2]})
      BY <1>7 DEF MergePerson
    <2>2. /\ job[w].pc = "mergePerson" /\ job' = [job EXCEPT ![w].pc = "mergeReferences"]
          /\ UNCHANGED <<faces, references>>
      BY <1>7 DEF MergePerson, At, Goes
    <2>3. job'[w].pc = "mergeReferences" /\ job'[w].merges = job[w].merges  BY <1>0, <2>2
    <2>4. \A p \in {pq[2]} : FacesOf(p) = {}  BY <1>5, <2>2 DEF Deserted
    <2>5. NoFaceOfAStranger'  BY <1>5, <2>1, <2>2, <2>4, FacesFindTheirs
    <2>6. ExemplarsFit  BY <1>5, <2>2, OwnersFit
    <2>7. DOMAIN people' = DOMAIN people \ {pq[2]}  BY <2>1 DEF Without
    <2>8. Merging(w)' = Merging(w) /\ At(w, "mergeReferences")'  BY <2>3 DEF Merging, At
    <2>9. OwnersAreThere'
      BY <2>2, <2>6, <2>7, <2>8 DEF ExemplarsFit, NoExemplarsOfAStranger, OwnersAreThere, Standing
    <2>10. Deserted(w)' /\ Addressed(w)'  BY <2>3 DEF Deserted, Addressed
    <2> QED  BY <1>4, <2>5, <2>9, <2>10, WorkerMatters
  <1>8. CASE MergeReferences(w)
    <2>1. PICK pq \in Merging(w) :
             /\ \E anew : references' = [references EXCEPT ![pq[2]] = <<>>, ![pq[1]] = anew]
             /\ people' = [p \in DOMAIN people |->
                   IF p = pq[1] THEN [people[p] EXCEPT !.current = TRUE] ELSE people[p]]
             /\ job' = [job EXCEPT ![w].merges = @ \ {pq},
                           ![w].pc = IF job[w].merges = {pq} THEN "round" ELSE "mergeFaces"]
      BY <1>8 DEF MergeReferences
    <2>2. job[w].pc = "mergeReferences" /\ faces' = faces  BY <1>8 DEF MergeReferences, At
    <2>3. DOMAIN people' = DOMAIN people  BY <2>1
    <2>4. NoFaceOfAStranger'  BY <1>5, <2>2, <2>3, FacesFindTheirs
    <2>5. ExemplarsFit'
      <3>1. DOMAIN references' = PersonIds  BY <1>5, <2>1 DEF OwnersAreThere
      <3>2. ASSUME NEW p \in PersonIds, references'[p] # <<>>, p \notin Standing PROVE FALSE
        <4>1. p # pq[1]  BY <1>3, <3>2 DEF Standing
        <4>2. p # pq[2] /\ references[p] # <<>>  BY <1>5, <2>1, <3>2, <4>1 DEF OwnersAreThere
        <4>3. PICK v \in Loops : At(v, "mergeReferences") /\ \E x \in Merging(v) : p = x[2]
          BY <1>5, <3>2, <4>2 DEF OwnersAreThere
        <4>4. v = w  BY <2>2, <4>3 DEF OneLoop, At
        <4> QED  BY <1>3, <4>2, <4>3, <4>4
      <3> QED  BY <2>3, <3>1, <3>2 DEF ExemplarsFit, NoExemplarsOfAStranger, Standing
    <2>6. OwnersAreThere'  BY <2>5 DEF ExemplarsFit, NoExemplarsOfAStranger, OwnersAreThere, Standing
    <2>7. job'[w].pc \in {"round", "mergeFaces"}  BY <1>0, <2>1
    <2>8. Deserted(w)' /\ Addressed(w)'  BY <2>7 DEF Deserted, Addressed
    <2> QED  BY <1>4, <2>4, <2>6, <2>8, WorkerMatters
  <1> QED  BY <1>6, <1>7, <1>8

\* The job makes no requests, and cuts nobody off.
LEMMA AdvancesAskNothing ==
    ASSUME NEW w, Advances(w) \/ Start(w)
    PROVE  UNCHANGED <<catalogVars, used>>
  <1>1. CASE Start(w)  BY <1>1 DEF Start
  <1>2. CASE Reads(w)
    <2>1. CASE \/ BeginPass(w) \/ Again(w) \/ Leave(w) \/ (\E S : Dispatch(w, S) \/ Outcome(w, S))
               \/ RequestFails(w) \/ AbandonPass(w) \/ Analysed(w)
      BY <2>1 DEF BeginPass, Again, Leave, Dispatch, Outcome, RequestFails, AbandonPass, Analysed,
                  KeepsControl
    <2>2. CASE \/ (\E reports, answers : Snapshot(w, reports, answers)) \/ MatchKnown(w) \/ AllKnown(w)
               \/ Label(w) \/ LabelFails(w) \/ AllPeople(w)
               \/ \E reports : Reconcile(w, reports) \/ ReadCovers(w, reports)
      BY <2>2 DEF Snapshot, MatchKnown, AllKnown, Label, LabelFails, AllPeople, Reconcile, ReadCovers,
                  KeepsControl
    <2>3. CASE \/ ResetReferences(w) \/ RebuildDetached(w) \/ StoreExemplars(w) \/ Round(w)
               \/ TidyReferences(w) \/ MarkScanned(w)
      BY <2>3 DEF ResetReferences, RebuildDetached, StoreExemplars, Round, TidyReferences, MarkScanned,
                  KeepsControl
    <2> QED  BY <1>2, <2>1, <2>2, <2>3 DEF Reads
  <1>3. CASE Assigning(w)
    BY <1>3 DEF Assigning, ResetFaces, Detach, AssignKnown, ExtendPerson, FillPerson, MergeFaces,
                KeepsControl
  <1>4. CASE Updating(w) \/ CreatePerson(w) \/ Apply(w)
    BY <1>4 DEF Updating, ResetPeople, MergePerson, MergeReferences, MarkReconciled, WriteCovers,
                TidyPeople, CreatePerson, Apply, KeepsControl
  <1> QED  BY <1>1, <1>2, <1>3, <1>4, AdvancesAre

\* No step of a loop leaves a face or exemplars to somebody who is gone.
LEMMA AdvancesFit ==
    ASSUME FaceRows, OneLoop, HeldAreUntaken, MergesApart, PeopleAreThere,
           NEW w \in Loops, Advances(w)
    PROVE  PeopleAreThere'
  <1>0. used' = used  BY AdvancesAskNothing
  <1>1. Effects  BY AdvancesHaveEffects
  <1>2. CASE \/ BeginPass(w) \/ Again(w) \/ Leave(w) \/ (\E S : Dispatch(w, S) \/ Outcome(w, S))
             \/ RequestFails(w) \/ AbandonPass(w) \/ Analysed(w) \/ LabelFails(w) \/ AllPeople(w)
             \/ (\E reports : ReadCovers(w, reports))
             \/ MarkScanned(w) \/ MarkReconciled(w) \/ WriteCovers(w)
    BY <1>0, <1>2, CarelessLeave
  <1>3. CASE ResetPeople(w) \/ TidyPeople(w)  BY <1>0, <1>3, DeletionsFit
  <1>4. CASE (\E reports : Detach(w, reports)) \/ RebuildDetached(w) \/ Apply(w)
    BY <1>0, <1>1, <1>4, DetachmentsFit
  <1>5. CASE ResetFaces(w) \/ ResetReferences(w) \/ TidyReferences(w)  BY <1>0, <1>5, DesertersFit
  <1>6. CASE \E reports, answers : Snapshot(w, reports, answers)  BY <1>0, <1>6, TakenFit
  <1>7. CASE MatchKnown(w) \/ AllKnown(w) \/ Label(w)  BY <1>0, <1>7, ChoicesFit
  <1>8. CASE \/ AssignKnown(w) \/ ExtendPerson(w) \/ CreatePerson(w) \/ FillPerson(w)
             \/ StoreExemplars(w)
    BY <1>0, <1>1, <1>8, GivenFit
  <1>9. CASE Round(w) \/ \E reports : Reconcile(w, reports)  BY <1>0, <1>1, <1>9, ComparisonFits
  <1>10. CASE MergeFaces(w) \/ MergePerson(w) \/ MergeReferences(w)  BY <1>0, <1>1, <1>10, MergesFit
  <1> QED
    BY <1>2, <1>3, <1>4, <1>5, <1>6, <1>7, <1>8, <1>9, <1>10 DEF Advances, Work, Fault

\* Nobody asks for anything: such requests fit.
LEMMA NobodyAsksAmiss ==
    ASSUME NoneAsked'
    PROVE  RequestsFit'
  <1>1. \A u \in Users : request'[u] = NoRequest /\ NoRequest.op = "none"
    BY DEF NoneAsked, NoRequest
  <1> QED  BY <1>1 DEF NoneAsked, RequestsFit, Fits

\* While all loops rest, people and their exemplars fit, and that is all.
LEMMA RestersFit ==
    ASSUME AllRest, OwnersAreThere
    PROVE  ExemplarsFit
  <1>1. \A v \in Loops : ~At(v, "mergeReferences")  BY DEF AllRest, Resting, At
  <1> QED  BY <1>1 DEF OwnersAreThere, ExemplarsFit, NoExemplarsOfAStranger, Standing

LEMMA RestMatters ==
    ASSUME AllRest', NoFaceOfAStranger', ExemplarsFit'
    PROVE  PeopleAreThere'
  <1>1. OwnersAreThere'  BY DEF ExemplarsFit, NoExemplarsOfAStranger, OwnersAreThere, Standing
  <1>2. \A v \in Loops : Deserted(v)' /\ Addressed(v)'
    BY DEF AllRest, Resting, Deserted, Addressed
  <1> QED  BY <1>1, <1>2 DEF PeopleAreThere

\* A request is made of people who are there, and of no others.
LEMMA AsksFit ==
    ASSUME NoFaceOfAStranger, ExemplarsFit, NEW u \in Users, OthersWait(u), RequestsFit,
           UNCHANGED used,
           scenario.users = "between", scenario' = scenario, UserAsks(u)
    PROVE  NoFaceOfAStranger' /\ ExemplarsFit' /\ RequestsFit'
  <1>0. DOMAIN request = Users /\ \A v \in Users \ {u} : request[v] = NoRequest
    BY DEF RequestsFit, OthersWait
  <1>1. ASSUME NEW r, Fits(r), Asks(u, r)
        PROVE  NoFaceOfAStranger' /\ ExemplarsFit' /\ RequestsFit'
    <2>1. request' = [request EXCEPT ![u] = r] /\ UNCHANGED tables  BY <1>1 DEF Asks
    <2>2. UNCHANGED <<faces, people, references>>  BY <2>1 DEF tables
    <2>3. NoFaceOfAStranger' /\ ExemplarsFit'
      BY <2>2 DEF NoFaceOfAStranger, ExemplarsFit, NoExemplarsOfAStranger
    <2>4. NoRequest.op = "none"  BY DEF NoRequest
    <2>5. DOMAIN request' = Users /\ request'[u] = r /\ \A v \in Users \ {u} : request'[v] = NoRequest
      BY <1>0, <2>1
    <2>6. \A v \in Users : Fits(request[v])'
      <3> TAKE v \in Users
      <3>1. CASE v = u  BY <1>1, <2>2, <2>5, <3>1 DEF Fits
      <3>2. CASE v # u  BY <2>4, <2>5, <3>2 DEF Fits
      <3> QED  BY <3>1, <3>2
    <2> QED  BY <2>3, <2>5, <2>6 DEF RequestsFit
  <1>2. CASE AskRename(u)
    <2>1. \A p : Fits([op |-> "rename", person |-> p])  BY DEF Fits
    <2> QED  BY <1>1, <1>2, <2>1 DEF AskRename
  <1>3. CASE AskDisband(u)
    <2>1. \A p : Fits([op |-> "disband", person |-> p])  BY DEF Fits
    <2> QED  BY <1>1, <1>3, <2>1 DEF AskDisband
  <1>4. CASE AskMerge(u)
    <2>1. PICK into, sources, union, cover :
             /\ into \in DOMAIN people \ sources
             /\ Asks(u, [op |-> "merge", person |-> into, sources |-> sources,
                         union |-> union, cover |-> cover])
      BY <1>4 DEF AskMerge
    <2>2. Fits([op |-> "merge", person |-> into, sources |-> sources,
                union |-> union, cover |-> cover])
      BY <2>1 DEF Fits
    <2> QED  BY <1>1, <2>1, <2>2
  <1>5. CASE AskCreate(u)
    <2>1. PICK F, chosen, cover :
             Asks(u, [op |-> "create", faces |-> F, chosen |-> chosen, cover |-> cover])
      BY <1>5 DEF AskCreate
    <2>2. Fits([op |-> "create", faces |-> F, chosen |-> chosen, cover |-> cover])  BY DEF Fits
    <2> QED  BY <1>1, <2>1, <2>2
  <1>6. CASE AskAssign(u)
    <2>1. PICK f \in DOMAIN faces, p \in DOMAIN people \cup {Nobody} :
             \/ Asks(u, [op |-> "lock", face |-> f])
             \/ /\ faces[f].person \in DOMAIN people \cup {Nobody}
                /\ \E promotes, before, after :
                      Asks(u, [op |-> "assign", face |-> f, person |-> p,
                               previous |-> faces[f].person, promotes |-> promotes,
                               before |-> before, after |-> after])
      BY <1>6 DEF AskAssign
    <2>2. Fits([op |-> "lock", face |-> f])  BY DEF Fits
    <2>3. \A promotes, before, after : faces[f].person \in DOMAIN people \cup {Nobody} =>
             Fits([op |-> "assign", face |-> f, person |-> p,
                   previous |-> faces[f].person, promotes |-> promotes,
                   before |-> before, after |-> after])
      BY DEF Fits
    <2> QED  BY <1>1, <2>1, <2>2, <2>3
  <1> QED  BY <1>2, <1>3, <1>4, <1>5, <1>6 DEF UserAsks

\* What it writes then leaves no face and no exemplars to who is gone.
LEMMA WritesFit ==
    ASSUME FaceRows, NoFaceOfAStranger, ExemplarsFit, NEW u \in Users, OthersWait(u), RequestsFit,
           used.cut = {}, UNCHANGED used,
           scenario.users = "between", scenario' = scenario, UserWrites(u)
    PROVE  NoFaceOfAStranger' /\ ExemplarsFit' /\ RequestsFit'
  <1> DEFINE r == request[u]
  <1>0. /\ DOMAIN request = Users /\ \A v \in Users \ {u} : request[v] = NoRequest
        /\ Fits(r)
    BY DEF RequestsFit, OthersWait
  <1>1. /\ \A f \in DOMAIN faces : DOMAIN faces[f] = {"person", "manual"}
        /\ \A f \in DOMAIN faces : faces[f].person \in DOMAIN people \cup {Nobody}
        /\ DOMAIN references = PersonIds
        /\ \A p \in PersonIds : references[p] # <<>> => p \in DOMAIN people
        /\ Nobody \notin PersonIds
    BY DEF FaceRows, NoFaceOfAStranger, ExemplarsFit, NoExemplarsOfAStranger, PersonIds, Nobody
  <1>2. RequestsFit'
    <2>1. Responded(u)
      BY DEF UserWrites, Rename, Merge, CreateFromFaces, Disband, LockFace, AssignFace
    <2>2. request' = [request EXCEPT ![u] = NoRequest]  BY <2>1 DEF Responded
    <2>3. NoRequest.op = "none"  BY DEF NoRequest
    <2>4. DOMAIN request' = Users /\ \A v \in Users : request'[v] = NoRequest  BY <1>0, <2>2
    <2> QED  BY <2>3, <2>4 DEF RequestsFit, Fits
  <1>3. ASSUME DOMAIN faces' = DOMAIN faces,
               \A f \in DOMAIN faces : faces'[f].person \in DOMAIN people' \cup {Nobody},
               DOMAIN references' = PersonIds,
               \A p \in PersonIds : references'[p] # <<>> => p \in DOMAIN people'
        PROVE  NoFaceOfAStranger' /\ ExemplarsFit'
    BY <1>3 DEF NoFaceOfAStranger, ExemplarsFit, NoExemplarsOfAStranger
  <1>4. ASSUME NEW F, NEW p, faces' = Curated(F, p)
        PROVE  /\ DOMAIN faces' = DOMAIN faces
               /\ \A f \in DOMAIN faces :
                     faces'[f].person = IF f \in F THEN p ELSE faces[f].person
    BY <1>1, <1>4 DEF Curated
  <1>5. CASE Rename(u)
    <2>1. DOMAIN people' = DOMAIN people /\ UNCHANGED <<faces, references>>  BY <1>5 DEF Rename
    <2> QED  BY <1>1, <1>2, <1>3, <2>1
  <1>6. CASE Merge(u)
    <2> DEFINE F == UNION {FacesOf(p) : p \in r.sources}
               kept == IF r.person \in DOMAIN people
                       THEN [people EXCEPT ![r.person] = [@ EXCEPT !.manual = TRUE, !.cover = r.cover]]
                       ELSE people
    <2>1. /\ r.op = "merge"
          /\ faces' = [f \in DOMAIN faces |->
                [faces[f] EXCEPT !.person = IF f \in F THEN r.person ELSE @,
                                 !.manual = @ \/ faces[f].person \in Locked(r)]]
          /\ people' = Without(kept, r.sources)
          /\ references' = [p \in PersonIds |->
                IF p = r.person THEN r.union ELSE IF p \in r.sources THEN <<>>
                ELSE references[p]]
      BY <1>6 DEF Merge
    <2>2. r.person \in DOMAIN people \ r.sources  BY <1>0, <2>1 DEF Fits
    <2>3. DOMAIN kept = DOMAIN people  OBVIOUS
    <2>4. DOMAIN people' = DOMAIN people \ r.sources
      <3> HIDE DEF kept
      <3> QED  BY <2>1, <2>3 DEF Without
    <2>5. \A f \in DOMAIN faces : f \notin F => faces[f].person \notin r.sources  BY DEF FacesOf
    <2>6. \A f \in DOMAIN faces : faces'[f].person = IF f \in F THEN r.person ELSE faces[f].person
      <3> HIDE DEF F, r
      <3> QED  BY <1>1, <2>1
    <2>7. DOMAIN faces' = DOMAIN faces  BY <2>1
    <2> HIDE DEF F, r
    <2>8. \A f \in DOMAIN faces : faces'[f].person \in DOMAIN people' \cup {Nobody}
      BY <1>1, <2>2, <2>4, <2>5, <2>6
    <2> QED  BY <1>1, <1>2, <1>3, <2>1, <2>2, <2>4, <2>7, <2>8
  <1>7. CASE CreateFromFaces(u)
    <2>1. /\ \E c : people' = WithRow(people, nextPerson, c)
          /\ faces' = Curated(r.faces, nextPerson)
          /\ references' = [references EXCEPT ![nextPerson] = r.chosen]
      BY <1>7 DEF CreateFromFaces
    <2>2. DOMAIN people' = DOMAIN people \cup {nextPerson}  BY <2>1 DEF WithRow
    <2> HIDE DEF r
    <2> QED  BY <1>1, <1>2, <1>3, <1>4, <2>1, <2>2
  <1>8. CASE Disband(u)
    <2>1. /\ faces' = Curated(FacesOf(r.person), Nobody)
          /\ references' = [references EXCEPT ![r.person] = <<>>]
          /\ people' = Without(people, {r.person})
      BY <1>8 DEF Disband
    <2>2. DOMAIN people' = DOMAIN people \ {r.person}  BY <2>1 DEF Without
    <2>3. \A f \in DOMAIN faces : faces[f].person = r.person => f \in FacesOf(r.person)
      BY DEF FacesOf
    <2> HIDE DEF r
    <2>4. \A f \in DOMAIN faces : faces'[f].person \in DOMAIN people' \cup {Nobody}
      BY <1>1, <1>4, <2>1, <2>2, <2>3
    <2> QED  BY <1>1, <1>2, <1>3, <1>4, <2>1, <2>2, <2>4
  <1>9. CASE LockFace(u)
    <2>1. /\ faces' = [f \in DOMAIN faces |->
                          IF f = r.face THEN [faces[f] EXCEPT !.manual = TRUE] ELSE faces[f]]
          /\ UNCHANGED <<people, references>>
      BY <1>9 DEF LockFace
    <2> HIDE DEF r
    <2> QED  BY <1>1, <1>2, <1>3, <2>1
  <1>10. CASE AssignFace(u)
    <2>1. /\ r.op = "assign"
          /\ faces' = Curated({r.face}, r.person)
          /\ people' = Promoted(r)
          /\ references' = [p \in PersonIds |->
                IF p = r.person THEN r.after ELSE IF p = r.previous THEN r.before
                ELSE references[p]]
      BY <1>10 DEF AssignFace
    <2>2. {r.person, r.previous} \subseteq DOMAIN people \cup {Nobody}  BY <1>0, <2>1 DEF Fits
    <2>3. DOMAIN people' = DOMAIN people  BY <2>1 DEF Promoted
    <2> HIDE DEF r
    <2> DEFINE F == {r.face}
    <2>4. faces' = Curated(F, r.person)  BY <2>1
    <2> HIDE DEF F
    <2>5. /\ DOMAIN faces' = DOMAIN faces
          /\ \A f \in DOMAIN faces :
                faces'[f].person = IF f \in F THEN r.person ELSE faces[f].person
      BY <1>4, <2>4
    <2>6. \A f \in DOMAIN faces : faces'[f].person \in DOMAIN people' \cup {Nobody}
      BY <1>1, <2>2, <2>3, <2>5
    <2>7. \A p \in PersonIds : references'[p] # <<>> => p \in DOMAIN people'
      BY <1>1, <2>1, <2>2, <2>3
    <2>8. DOMAIN references' = PersonIds  BY <2>1
    <2> QED  BY <1>2, <1>3, <2>5, <2>6, <2>7, <2>8
  <1> QED  BY <1>5, <1>6, <1>7, <1>8, <1>9, <1>10 DEF UserWrites

\* What leaves rows, loops and requests leaves people and exemplars fit.
LEMMA QuietFits ==
    ASSUME RequestsFit, PeopleAreThere, CutByCrashes, scenario' = scenario,
           "cut" \in DOMAIN used', used'.cut = used.cut,
           UNCHANGED <<faces, people, references, job, request>>
    PROVE  RequestsFit' /\ PeopleAreThere' /\ CutByCrashes'
  <1>1. RequestsFit'  BY DEF RequestsFit, Fits, NoneAsked
  <1>2. CutByCrashes'  BY DEF CutByCrashes, May
  <1>3. NoFaceOfAStranger' /\ OwnersAreThere'
    BY DEF PeopleAreThere, NoFaceOfAStranger, OwnersAreThere, At, Merging, Standing
  <1>4. \A v \in Loops : Deserted(v)' /\ Addressed(v)'
    BY DEF PeopleAreThere, Deserted, Addressed, Generated, Empty, WithFaces, FacesOf, Merging, Standing
  <1> QED  BY <1>1, <1>2, <1>3, <1>4 DEF PeopleAreThere

\* Who acts when, unless users act at any time
LEMMA StepsAre ==
    ASSUME scenario \in Scenarios, scenario.users # "ever", RequestsFit, MCNext
    PROVE  \/ NoneAsked /\ \E w \in Loops : (AllIdle /\ Start(w)) \/ Advances(w)
           \/ scenario.users = "between" /\ \E u \in Users : OthersWait(u) /\ User(u)
           \/ (\E i : PhotoChanged(i)) \/ StopRecognition
           \/ \E release, anew \in BOOLEAN :
                 Relaunch(release, anew) /\ (AllRest \/ May("crash"))
  <1>1. scenario.users = "never" \/ scenario.users = "between"
    BY DEF Scenarios, Untouched, Managed, Renewed, Troubled, Fragmented, Interrupted, Raced
  <1>2. scenario.users = "between" \/ NoneAsked  BY <1>1 DEF RequestsFit
  <1> QED  BY <1>1, <1>2 DEF MCNext, Advances

\* The invariant is kept, and with it what the user curated while no request is
\* on its way.
LEMMA FacesStep ==
    ASSUME FacesInv, [MCNext]_MCVars
    PROVE  /\ FacesInv'
           /\ scenario.users = "between" /\ NoneAsked => CurationIsKept
  <1>0. scenario' = scenario /\ scenario \in Scenarios  BY DEF MCNext, MCVars, FacesInv
  <1>1. CASE scenario.users = "ever"  BY <1>0, <1>1 DEF FacesInv
  <1>2. CASE scenario.users # "ever"
    <2> DEFINE Goal == /\ FaceRows' /\ OneLoop' /\ HeldAreUntaken' /\ MergesApart'
                       /\ RequestsFit' /\ CutByCrashes' /\ PeopleAreThere'
                       /\ NoneAsked => CurationIsKept
    <2>0. /\ FaceRows /\ OneLoop /\ HeldAreUntaken /\ MergesApart
          /\ RequestsFit /\ CutByCrashes /\ PeopleAreThere
      BY <1>2 DEF FacesInv
    <2>1. ASSUME NoneAsked, AllIdle, NEW w \in Loops, Start(w) PROVE Goal
      <3>1. /\ FaceRows' /\ OneLoop' /\ HeldAreUntaken' /\ MergesApart' /\ CurationIsKept /\ AllRest'
        BY <2>0, <2>1, StartGoesOn
      <3>2. UNCHANGED <<faces, people, references, request, used>>
        BY <2>1 DEF Start, tables, catalogVars
      <3>3. AllRest  BY <2>1 DEF AllIdle, AllRest, Resting, At
      <3>4. NoFaceOfAStranger /\ ExemplarsFit  BY <2>0, <3>3, RestersFit DEF PeopleAreThere
      <3>5. NoFaceOfAStranger' /\ ExemplarsFit'
        BY <3>2, <3>4 DEF NoFaceOfAStranger, ExemplarsFit, NoExemplarsOfAStranger
      <3>6. PeopleAreThere'  BY <3>1, <3>5, RestMatters
      <3>7. RequestsFit'  BY <2>1, <3>2, NobodyAsksAmiss DEF NoneAsked
      <3>8. CutByCrashes'  BY <1>0, <2>0, <3>2 DEF CutByCrashes, May
      <3> QED  BY <3>1, <3>6, <3>7, <3>8
    <2>2. ASSUME NoneAsked, NEW w \in Loops, Advances(w) PROVE Goal
      <3>1. FaceRows' /\ OneLoop' /\ HeldAreUntaken' /\ MergesApart' /\ CurationIsKept
        BY <2>0, <2>2, AdvancesGoOn
      <3>2. PeopleAreThere'  BY <2>0, <2>2, AdvancesFit
      <3>3. request' = request /\ used' = used  BY <2>2, AdvancesAskNothing DEF catalogVars
      <3>4. RequestsFit'  BY <2>2, <3>3, NobodyAsksAmiss DEF NoneAsked
      <3>5. CutByCrashes'  BY <1>0, <2>0, <3>3 DEF CutByCrashes, May
      <3> QED  BY <3>1, <3>2, <3>4, <3>5
    <2>3. ASSUME scenario.users = "between", NEW u \in Users, OthersWait(u), User(u) PROVE Goal
      <3>1. AllRest  BY <2>3 DEF OthersWait
      <3>2. FaceRows' /\ OneLoop' /\ HeldAreUntaken' /\ MergesApart' /\ AllRest'
        BY <2>0, <2>3, <3>1, UserGoesOn
      <3>3. NoFaceOfAStranger /\ ExemplarsFit  BY <2>0, <3>1, RestersFit DEF PeopleAreThere
      <3>4. (UserAsks(u) \/ UserWrites(u)) /\ used' = used  BY <2>3 DEF User
      <3>5. ~May("crash")
        BY <1>0, <2>3
           DEF Scenarios, Untouched, Managed, Renewed, Troubled, Fragmented, Interrupted, Raced,
               May
      <3>6. used.cut = {} /\ CutByCrashes'  BY <1>0, <2>0, <3>4, <3>5 DEF CutByCrashes, May
      <3>7. NoFaceOfAStranger' /\ ExemplarsFit' /\ RequestsFit'
        BY <1>0, <2>0, <2>3, <3>3, <3>4, <3>6, AsksFit, WritesFit
      <3>8. PeopleAreThere'  BY <3>2, <3>7, RestMatters
      <3>9. ASSUME NoneAsked PROVE CurationIsKept
        <4>1. UNCHANGED tables  BY <2>3, <3>9, UserOnlyAsks
        <4>2. Effects  BY <4>1 DEF tables, Effects, Leaves
        <4> QED  BY <2>0, <4>2, EffectsCurate
      <3> QED  BY <3>2, <3>7, <3>8, <3>6, <3>9
    <2>4. ASSUME UNCHANGED <<shows, faces, people, references, nextPerson, job, request>>,
                 "cut" \in DOMAIN used', used'.cut = used.cut
          PROVE  Goal
      BY <1>0, <2>0, <2>4, QuietGoesOn, QuietFits
    <2>5. ASSUME NEW release \in BOOLEAN, NEW anew \in BOOLEAN, Relaunch(release, anew),
                 AllRest \/ May("crash")
          PROVE  Goal
      <3>1. /\ FaceRows' /\ OneLoop' /\ HeldAreUntaken' /\ MergesApart' /\ CurationIsKept /\ AllRest'
            /\ DOMAIN people' = DOMAIN people
        BY <2>0, <2>5, RelaunchGoesOn
      <3>2. /\ people' = [p \in DOMAIN people |-> [people[p] EXCEPT !.current = @ /\ ~release]]
            /\ UNCHANGED <<faces, references>> /\ NoneAsked'
        BY <2>5 DEF Relaunch, NoneAsked
      <3>3. "cut" \in DOMAIN used' /\ used'.cut = used.cut \cup HalfMerged
        BY <2>0, <2>5 DEF Relaunch, CutByCrashes
      <3>4. NoFaceOfAStranger' /\ ExemplarsFit'
        <4>1. NoFaceOfAStranger /\ OwnersAreThere  BY <2>0 DEF PeopleAreThere
        <4>2. \A p \in PersonIds : references[p] # <<>> => p \in Standing \cup HalfMerged
          BY <4>1 DEF OwnersAreThere, HalfMerged
        <4>3. NoFaceOfAStranger'  BY <3>1, <3>2, <3>3, <4>1 DEF NoFaceOfAStranger
        <4> QED
          BY <3>1, <3>2, <3>3, <4>1, <4>2, <4>3
             DEF OwnersAreThere, ExemplarsFit, NoExemplarsOfAStranger, Standing
      <3>5. PeopleAreThere'  BY <3>1, <3>4, RestMatters
      <3>6. RequestsFit'  BY <3>2, NobodyAsksAmiss
      <3>7. CutByCrashes'
        <4>1. AllRest => HalfMerged = {}  BY DEF AllRest, Resting, HalfMerged, At
        <4> QED  BY <1>0, <2>0, <2>5, <3>3, <4>1 DEF CutByCrashes, May
      <3> QED  BY <3>1, <3>5, <3>6, <3>7
    <2> HIDE DEF Goal
    <2>6. ASSUME UNCHANGED MCVars PROVE Goal
      <3>1. UNCHANGED <<shows, faces, people, references, nextPerson, job, request>>
        BY <2>6 DEF MCVars, recognitionVars, tables, catalogVars
      <3>2. used' = used  BY <2>6 DEF MCVars, recognitionVars
      <3> QED  BY <2>0, <2>4, <3>1, <3>2 DEF CutByCrashes
    <2>7. ASSUME (\E i : PhotoChanged(i)) \/ StopRecognition PROVE Goal
      <3>1. UNCHANGED <<shows, faces, people, references, nextPerson, job, request>>
        BY <2>7 DEF PhotoChanged, StopRecognition, tables, catalogVars
      <3>2. "cut" \in DOMAIN used' /\ used'.cut = used.cut
        BY <2>0, <2>7 DEF PhotoChanged, StopRecognition, CutByCrashes
      <3> QED  BY <2>4, <3>1, <3>2
    <2>8. ASSUME MCNext PROVE Goal
      BY <1>0, <1>2, <2>0, <2>1, <2>2, <2>3, <2>5, <2>7, <2>8, StepsAre
    <2>9. Goal  BY <2>6, <2>8
    <2> QED  BY <1>0, <1>2, <2>9 DEF Goal, FacesInv
  <1> QED  BY <1>1, <1>2

\* The tables are empty at the start, or an older release's.
LEMMA FacesStart == MCInit => FacesInv
  <1> SUFFICES ASSUME MCInit PROVE FacesInv  OBVIOUS
  <1>1. /\ scenario \in Scenarios /\ job = [v \in Loops |-> NoJob] /\ NoneAsked
        /\ IF May("old") THEN OldTables ELSE EmptyTables
        /\ "cut" \in DOMAIN used /\ used.cut = {}
    BY DEF MCInit, JobInit, NoRequests, NoneAsked
  <1>2. \A v \in Loops : job[v] = NoJob /\ NoJob.pc = "idle"  BY <1>1 DEF NoJob
  <1>3. OneLoop  BY <1>1, <1>2 DEF OneLoop
  <1>4. HeldAreUntaken /\ MergesApart /\ AllRest
    BY <1>2 DEF HeldAreUntaken, MergesApart, Held, Apart, AllRest, Resting
  <1>5. RequestsFit
    <2>1. \A u \in Users : request[u] = NoRequest /\ NoRequest.op = "none"
      BY <1>1 DEF NoneAsked, NoRequest
    <2> QED  BY <1>1, <2>1 DEF NoneAsked, RequestsFit, Fits
  <1>6. ASSUME FaceRows, NoFaceOfAStranger, references = [p \in PersonIds |-> <<>>]
        PROVE  FacesInv
    <2>1. OwnersAreThere  BY <1>6 DEF OwnersAreThere
    <2>2. \A v \in Loops : Deserted(v) /\ Addressed(v)  BY <1>2 DEF Deserted, Addressed
    <2>3. PeopleAreThere  BY <1>6, <2>1, <2>2 DEF PeopleAreThere
    <2>4. CutByCrashes  BY <1>1 DEF CutByCrashes
    <2> QED  BY <1>1, <1>3, <1>4, <1>5, <1>6, <2>3, <2>4 DEF FacesInv
  <1>7. CASE EmptyTables
    <2>1. FaceRows  BY <1>7 DEF EmptyTables, FaceRows
    <2>2. NoFaceOfAStranger  BY <1>7 DEF EmptyTables, NoFaceOfAStranger
    <2> QED  BY <1>6, <1>7, <2>1, <2>2 DEF EmptyTables
  <1>8. CASE May("old") /\ OldTables
    <2>1. shows = <<1, 2, 3, 4, 5, 6>> /\ shows \in Seq(Nat) /\ Len(shows) = 6
      BY <1>8 DEF OldTables
    <2>2. /\ DOMAIN faces = 1 .. 6
          /\ \A f \in DOMAIN faces : /\ DOMAIN faces[f] = {"person", "manual"}
                                     /\ faces[f].person \in {1, 2, 3, Nobody}
      BY <1>8 DEF OldTables, Looks
    <2>3. DOMAIN people = 1 .. 3 /\ nextPerson = 4
          /\ \A p \in DOMAIN people : DOMAIN people[p] = {"manual", "cover", "current"}
      BY <1>8 DEF OldTables
    <2>4. FaceRows  BY <2>1, <2>2, <2>3 DEF FaceRows
    <2>5. NoFaceOfAStranger  BY <2>2, <2>3 DEF NoFaceOfAStranger
    <2> QED  BY <1>6, <1>8, <2>4, <2>5 DEF OldTables
  <1> QED  BY <1>1, <1>7, <1>8

\* Unless a user edits the catalogue during a pass, no face is ever somebody's
\* who is not there, and nobody who is gone has exemplars once all loops rest,
\* for any photos and looks, thresholds, batches and users, also after failures
\* of the services, stops, re-analysis and merging, and after crashes at any
\* statement of a re-clustering, an assignment or a merging, but for whose row
\* was deleted and whose exemplars were not (manager.go: resetGeneratedPeople,
\* replaceFaces, deleteEmptyPeople; reconcile.go: clusterAssign, mergePeople;
\* catalog.go).
THEOREM PeopleStayThere == MCSpec => []SerialPeopleAreThere
  <1>1. MCInit => FacesInv  BY FacesStart
  <1>2. FacesInv /\ [MCNext]_MCVars => FacesInv'  BY FacesStep
  <1>3. FacesInv => SerialPeopleAreThere
    BY RestersFit DEF FacesInv, SerialPeopleAreThere, PeopleAreThere, ExemplarsFit
  <1> QED  BY <1>1, <1>2, <1>3, PTL DEF MCSpec

\* What the user curated between passes is still so after them, for any photos
\* and looks, thresholds, batches, loops and users, also when all photos are
\* analysed or clustered anew and people of an older generation are merged
\* (reconcile.go: clusterAssign, reconcileRound, mergePeople; manager.go:
\* deleteEmptyPeople, resetGeneratedPeople).
THEOREM SerialCurationKept == MCSpec => SerialCurationIsKept
  <1>1. MCInit => FacesInv  BY FacesStart
  <1>2. FacesInv /\ [MCNext]_MCVars => FacesInv'  BY FacesStep
  <1>3. FacesInv /\ [MCNext]_MCVars
            => [scenario.users = "between" /\ NoneAsked => CurationIsKept]_MCVars
    BY FacesStep
  <1> QED  BY <1>1, <1>2, <1>3, PTL DEF MCSpec, SerialCurationIsKept
=============================================================================
