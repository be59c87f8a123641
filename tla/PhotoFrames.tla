---------------------------- MODULE PhotoFrames ----------------------------
(***************************************************************************)
(* Photos that are stored on their side.  The faces service sees the       *)
(* stored pixels, a browser and a thumbnail show them turned as the EXIF   *)
(* tag Orientation says; so the box of a face is mapped before it is       *)
(* drawn, and a thumbnail is turned before it is scaled.                   *)
(*                                                                         *)
(* The headers of a file are a sequence of segments (JPEG) or chunks (PNG) *)
(* of some kinds, the tags of an EXIF block a sequence of entries.  The    *)
(* coordinates of a box are whole numbers.                                 *)
(***************************************************************************)
EXTENDS Integers, Sequences

CONSTANTS
    PhotoFiles,   \* the files there are
    FaceBoxes,    \* the boxes of faces in them
    NotShown

VARIABLE lightbox  \* the photo that is shown, its thumbnail, a face in it and the box drawn over it

ASSUME PhotoFramesAssumption ==
    /\ \A file \in PhotoFiles : file.width \in Nat /\ file.height \in Nat
    /\ FaceBoxes \subseteq [x : Nat, y : Nat, width : Nat, height : Nat]
    /\ NotShown \notin [file : PhotoFiles, face : FaceBoxes]

-----------------------------------------------------------------------------
(* The orientation of a file *)

\* parseTIFFOrientation: the first entry with the tag decides; one that is
\* cut off ends the search.
ParseTIFFOrientation(entries) ==
    LET found == {i \in 1 .. Len(entries) : entries[i].tag \in {"orientation", "cut off"}}
        first == CHOOSE i \in found : \A j \in found : i <= j
        sound == /\ found # {}
                 /\ entries[first].tag = "orientation" /\ entries[first].short
                 /\ entries[first].value \in 1 .. 8
    IN  IF sound THEN entries[first].value ELSE 0

\* What is passed over on the way to the EXIF block: standalone markers, other
\* segments, chunks, and an APP1 segment that is not of EXIF.
Skipped == {"standalone", "other", "xmp"}

ReadExifOrientation(file) ==
    LET stops == {i \in 1 .. Len(file.segments) : file.segments[i].kind \notin Skipped}
        first == CHOOSE i \in stops : \A j \in stops : i <= j
    IN  IF file.format \in {"jpeg", "png"} /\ stops # {} /\ file.segments[first].kind = "exif"
        THEN ParseTIFFOrientation(file.segments[first].entries)
        ELSE 0

-----------------------------------------------------------------------------
(* Thumbnails *)

\* The pixels of a file, each told by its place
Decoded(file) ==
    [width |-> file.width, height |-> file.height,
     at |-> [x \in 0 .. file.width - 1 |-> [y \in 0 .. file.height - 1 |-> <<x, y>>]]]

\* The helpers of the imaging library, which turn counterclockwise
FlipH(i) ==
    [width |-> i.width, height |-> i.height,
     at |-> [x \in 0 .. i.width - 1 |-> i.at[i.width - 1 - x]]]
FlipV(i) ==
    [width |-> i.width, height |-> i.height,
     at |-> [x \in 0 .. i.width - 1 |-> [y \in 0 .. i.height - 1 |-> i.at[x][i.height - 1 - y]]]]
Rotate180(i) ==
    [width |-> i.width, height |-> i.height,
     at |-> [x \in 0 .. i.width - 1 |-> [y \in 0 .. i.height - 1 |-> i.at[i.width - 1 - x][i.height - 1 - y]]]]
Rotate90(i) ==
    [width |-> i.height, height |-> i.width,
     at |-> [x \in 0 .. i.height - 1 |-> [y \in 0 .. i.width - 1 |-> i.at[i.width - 1 - y][x]]]]
Rotate270(i) ==
    [width |-> i.height, height |-> i.width,
     at |-> [x \in 0 .. i.height - 1 |-> [y \in 0 .. i.width - 1 |-> i.at[y][i.height - 1 - x]]]]

\* mutant: the helpers are taken to turn clockwise
ApplyClockwise(i, orientation) ==
    CASE orientation = 2 -> FlipH(i)
      [] orientation = 3 -> Rotate180(i)
      [] orientation = 4 -> FlipV(i)
      [] orientation = 5 -> FlipH(Rotate90(i))
      [] orientation = 6 -> Rotate90(i)
      [] orientation = 7 -> FlipH(Rotate270(i))
      [] orientation = 8 -> Rotate270(i)
      [] OTHER -> i

ApplyOrientation(i, orientation) ==
    CASE orientation = 2 -> FlipH(i)
      [] orientation = 3 -> Rotate180(i)
      [] orientation = 4 -> FlipV(i)
      [] orientation = 5 -> FlipH(Rotate270(i))
      [] orientation = 6 -> Rotate270(i)
      [] orientation = 7 -> FlipH(Rotate90(i))
      [] orientation = 8 -> Rotate90(i)
      [] OTHER -> i

-----------------------------------------------------------------------------
(* Boxes *)

\* A file that cannot be decoded has no frame of its own.
ReadImageFrame(file) ==
    IF ~file.decodable
    THEN [width |-> 0, height |-> 0, orientation |-> 1]
    ELSE [width |-> file.width, height |-> file.height,
          orientation |-> IF ReadExifOrientation(file) \in 2 .. 8 THEN ReadExifOrientation(file) ELSE 1]

MapPoint(frame, x, y) ==
    CASE frame.orientation = 2 -> <<frame.width - x, y>>
      [] frame.orientation = 3 -> <<frame.width - x, frame.height - y>>
      [] frame.orientation = 4 -> <<x, frame.height - y>>
      [] frame.orientation = 5 -> <<y, x>>
      [] frame.orientation = 6 -> <<frame.height - y, x>>
      [] frame.orientation = 7 -> <<frame.height - y, frame.width - x>>
      [] frame.orientation = 8 -> <<y, frame.width - x>>

Least(m, n) == IF m < n THEN m ELSE n
AbsDiff(m, n) == IF m < n THEN n - m ELSE m - n

NormalizeBox(frame, box) ==
    IF frame.orientation \notin 2 .. 8 \/ frame.width <= 0 \/ frame.height <= 0
    THEN box
    ELSE LET first == MapPoint(frame, box.x, box.y)
             second == MapPoint(frame, box.x + box.width, box.y + box.height)
         IN  [x |-> Least(first[1], second[1]), y |-> Least(first[2], second[2]),
              width |-> AbsDiff(second[1], first[1]), height |-> AbsDiff(second[2], first[2])]

-----------------------------------------------------------------------------

FramesInit == lightbox = NotShown

\* handleGetImageFaces, and the thumbnail of the photo (generateThumbnail)
ShowPhoto(file, face) ==
    lightbox' = [file |-> file,
                 face |-> face,
                 thumbnail |-> ApplyOrientation(Decoded(file), ReadExifOrientation(file)),
                 drawn |-> NormalizeBox(ReadImageFrame(file), face)]

FramesNext == \E file \in PhotoFiles, face \in FaceBoxes : ShowPhoto(file, face)

FramesSpec == FramesInit /\ [][FramesNext]_lightbox

-----------------------------------------------------------------------------
(* Where the EXIF standard has a browser show a stored pixel.  It says on  *)
(* which side of the shown image the first stored row is, and the first    *)
(* stored column.                                                          *)

FirstRow == <<"top", "top", "bottom", "bottom", "left", "right", "right", "left">>
FirstColumn == <<"left", "right", "right", "left", "top", "top", "bottom", "bottom">>

From(side, n, size) == IF side \in {"left", "top"} THEN n ELSE size - 1 - n

ShownX(orientation, file, x, y) ==
    IF FirstColumn[orientation] \in {"left", "right"}
    THEN From(FirstColumn[orientation], x, file.width)
    ELSE From(FirstRow[orientation], y, file.height)

ShownY(orientation, file, x, y) ==
    IF FirstRow[orientation] \in {"top", "bottom"}
    THEN From(FirstRow[orientation], y, file.height)
    ELSE From(FirstColumn[orientation], x, file.width)

\* The pixel at x, y is inside the box.
Inside(box, x, y) ==
    /\ box.x <= x /\ x < box.x + box.width
    /\ box.y <= y /\ y < box.y + box.height

Tagged(file) == IF ReadExifOrientation(file) = 0 THEN 1 ELSE ReadExifOrientation(file)

\* Every pixel of a photo is where a browser shows it: in the thumbnail, and
\* in the box that is drawn around a face just if it belongs to the face
\* (applyOrientation, ImageFrame.NormalizeBox).
FacesAreFramed ==
    (lightbox # NotShown /\ lightbox.file.decodable) =>
        \A x \in 0 .. lightbox.file.width - 1, y \in 0 .. lightbox.file.height - 1 :
            LET u == ShownX(Tagged(lightbox.file), lightbox.file, x, y)
                v == ShownY(Tagged(lightbox.file), lightbox.file, x, y)
            IN  /\ lightbox.thumbnail.at[u][v] = <<x, y>>
                /\ Inside(lightbox.drawn, u, v) <=> Inside(lightbox.face, x, y)
=============================================================================
