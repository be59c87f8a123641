--------------------------- MODULE Enhancements ---------------------------
(***************************************************************************)
(* The enhancement of a photo by a language model.  The tool               *)
(* enhance_image_quality puts the new image next to the photo, in a        *)
(* temporary file; the user looks at it and has it replace the photo,      *)
(* saved as a copy, or rejected.                                           *)
(*                                                                         *)
(* An image is a number: 1 is the photo as it was, every enhancement has a *)
(* number of its own, and 0 is no file.  A file is written or copied in    *)
(* one step.  The tags that are copied along do not matter, and what is    *)
(* invalidated when the photo is replaced is part of GallerySync and       *)
(* Thumbnails.                                                             *)
(***************************************************************************)
EXTENDS Naturals

CONSTANTS
    Clients,         \* requests that are served at the same time
    MaxImages,       \* bound on the images
    Names            \* 1 .. n, the names photo_enhanced, photo_enhanced_2 ... in their order

VARIABLES
    photo,       \* the image in the photo's file
    enhanced,    \* the image in the temporary file
    copies,      \* the images in the files of the copies
    backup,      \* the image in the photo's file in ExifBackupDir
    configured,  \* whether ExifBackupDir is set
    photoRow,    \* the image whose hash the photo's row has
    copyRows,    \* the images whose hash the copies' rows have, 0 without a row
    work,        \* what each request does next, and what it has seen
    images       \* how many images there have been

enhancementVars == <<photo, enhanced, copies, backup, configured, photoRow, copyRows, work, images>>

None == 0
Images == 0 .. MaxImages
Idle == [pc |-> "idle", image |-> None, name |-> 0]

EnhancementsOK ==
    /\ {photo, enhanced, backup, photoRow, images} \subseteq Images /\ configured \in BOOLEAN
    /\ {copies, copyRows} \subseteq [Names -> Images]
    /\ work \in [Clients -> [pc : {"idle", "asks", "backsUp", "renames", "reads", "updates", "names",
                                   "copies", "cleans", "hashes", "registers"},
                             image : Images, name : Names \cup {0}]]

EnhancementsInit ==
    /\ photo = 1 /\ photoRow = 1 /\ images = 1
    /\ enhanced = None /\ backup = None
    /\ copies = [n \in Names |-> None] /\ copyRows = [n \in Names |-> None]
    /\ configured \in BOOLEAN
    /\ work = [c \in Clients |-> Idle]

At(c, pc) == work[c].pc = pc
Goes(c, pc) == work' = [work EXCEPT ![c].pc = pc]
Ends(c) == work' = [work EXCEPT ![c] = Idle]

-----------------------------------------------------------------------------
(* runImageEnhancement *)

EnhanceImageQuality(c) ==
    /\ At(c, "idle") /\ Goes(c, "asks")
    /\ UNCHANGED <<photo, enhanced, copies, backup, configured, photoRow, copyRows, images>>

\* The model, or its editor of images, answers with an image; a former one
\* that nobody has decided on is overwritten (extractAndSaveDataURL).
Enhanced(c) ==
    /\ At(c, "asks") /\ images < MaxImages
    /\ images' = images + 1
    /\ enhanced' = images + 1
    /\ Ends(c)
    /\ UNCHANGED <<photo, copies, backup, configured, photoRow, copyRows>>

\* A call fails, the answer is only text, or its image cannot be saved.
NotEnhanced(c) ==
    /\ At(c, "asks") /\ Ends(c)
    /\ UNCHANGED <<photo, enhanced, copies, backup, configured, photoRow, copyRows, images>>

-----------------------------------------------------------------------------
(* handleReplaceEnhancement *)

ReplaceEnhancement(c) ==
    /\ At(c, "idle") /\ enhanced # None /\ Goes(c, "backsUp")
    /\ UNCHANGED <<photo, enhanced, copies, backup, configured, photoRow, copyRows, images>>

\* A copy that fails is logged.
BackUp(c) ==
    /\ At(c, "backsUp") /\ Goes(c, "renames")
    /\ IF configured THEN backup' \in {backup, photo} ELSE UNCHANGED backup
    /\ UNCHANGED <<photo, enhanced, copies, configured, photoRow, copyRows, images>>

Rename(c) ==
    /\ At(c, "renames")
    /\ IF enhanced = None
       THEN Ends(c) /\ UNCHANGED <<photo, enhanced>>
       ELSE photo' = enhanced /\ enhanced' = None /\ Goes(c, "reads")
    /\ UNCHANGED <<copies, backup, configured, photoRow, copyRows, images>>

ReadReplaced(c) ==
    /\ At(c, "reads")
    /\ work' = [work EXCEPT ![c].pc = "updates", ![c].image = photo]
    /\ UNCHANGED <<photo, enhanced, copies, backup, configured, photoRow, copyRows, images>>

UpdateRow(c) ==
    /\ At(c, "updates") /\ Ends(c)
    /\ photoRow' = work[c].image
    /\ UNCHANGED <<photo, enhanced, copies, backup, configured, copyRows, images>>

\* The row is not found, the file cannot be hashed, or the row cannot be saved:
\* the photo is replaced all the same.
UpdateFails(c) ==
    /\ work[c].pc \in {"reads", "updates"} /\ Ends(c)
    /\ UNCHANGED <<photo, enhanced, copies, backup, configured, photoRow, copyRows, images>>

-----------------------------------------------------------------------------
(* handleSaveCopyEnhancement *)

SaveCopyEnhancement(c) ==
    /\ At(c, "idle") /\ enhanced # None /\ Goes(c, "names")
    /\ UNCHANGED <<photo, enhanced, copies, backup, configured, photoRow, copyRows, images>>

\* mutant: the first name is taken whether there is such a file or not
FirstCopyPath(n) == n = 1

FindAvailableCopyPath(n) == copies[n] = None /\ \A m \in Names : m < n => copies[m] # None

ChooseName(c) ==
    /\ At(c, "names")
    /\ \E n \in Names : FindAvailableCopyPath(n) /\ work' = [work EXCEPT ![c].pc = "copies", ![c].name = n]
    /\ UNCHANGED <<photo, enhanced, copies, backup, configured, photoRow, copyRows, images>>

\* Without the temporary file nothing is created.
CopyFile(c) ==
    /\ At(c, "copies")
    /\ IF enhanced = None
       THEN Ends(c) /\ UNCHANGED copies
       ELSE copies' = [copies EXCEPT ![work[c].name] = enhanced] /\ Goes(c, "cleans")
    /\ UNCHANGED <<photo, enhanced, backup, configured, photoRow, copyRows, images>>

CleanUp(c) ==
    /\ At(c, "cleans") /\ Goes(c, "hashes")
    /\ enhanced' = None
    /\ UNCHANGED <<photo, copies, backup, configured, photoRow, copyRows, images>>

HashCopy(c) ==
    /\ At(c, "hashes")
    /\ work' = [work EXCEPT ![c].pc = "registers", ![c].image = copies[work[c].name]]
    /\ UNCHANGED <<photo, enhanced, copies, backup, configured, photoRow, copyRows, images>>

\* The path of a row is unique.
RegisterCopy(c) ==
    LET n == work[c].name
    IN  /\ At(c, "registers") /\ Ends(c)
        /\ copyRows' = IF copyRows[n] = None THEN [copyRows EXCEPT ![n] = work[c].image] ELSE copyRows
        /\ UNCHANGED <<photo, enhanced, copies, backup, configured, photoRow, images>>

-----------------------------------------------------------------------------
\* handleRejectEnhancement
RejectEnhancement(c) ==
    /\ At(c, "idle") /\ enhanced' = None
    /\ UNCHANGED <<photo, copies, backup, configured, photoRow, copyRows, work, images>>

\* The core ends, and starts again.
Crash ==
    /\ \E c \in Clients : ~At(c, "idle")
    /\ work' = [c \in Clients |-> Idle]
    /\ UNCHANGED <<photo, enhanced, copies, backup, configured, photoRow, copyRows, images>>

Decisions(c) ==
    \/ ReplaceEnhancement(c) \/ BackUp(c) \/ Rename(c) \/ ReadReplaced(c) \/ UpdateRow(c)
    \/ UpdateFails(c)
    \/ SaveCopyEnhancement(c) \/ ChooseName(c) \/ CopyFile(c) \/ CleanUp(c) \/ HashCopy(c)
    \/ RegisterCopy(c)
    \/ RejectEnhancement(c)

EnhancementSteps ==
    \E c \in Clients : EnhanceImageQuality(c) \/ Enhanced(c) \/ NotEnhanced(c) \/ Decisions(c)

=============================================================================
