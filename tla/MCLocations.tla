----------------------------- MODULE MCLocations -----------------------------
(***************************************************************************)
(* PhotoLocations on a small instance.                                     *)
(***************************************************************************)
EXTENDS PhotoLocations

CONSTANT MaxClaims  \* bound on requests, edits by other programs and restarts

VARIABLES unresolved, \* photos whose last reading or resolving has failed
          claims

-----------------------------------------------------------------------------
(* Who works at a photo *)

\* A write from its beginning until its row is saved, or an extraction.
Writers(p) ==
    {w \in Workers : /\ works[w].pc # "idle" /\ works[w].kind \in {"update", "batch", "direct"}
                     /\ p \in works[w].left \/ (works[w].photo = p /\ works[w].pc # "next")}
Extractors(p) == {w \in Workers : works[w].kind = "extract" /\ works[w].photo = p}

\* Writes of one photo do not overlap, nor do its extractions, and no two
\* backups of one name are made in one second: nothing in the code prevents
\* any of the three.
Serial ==
    \A p \in Photos :
       /\ \A v, w \in Writers(p)' : v = w
       /\ \A v, w \in Extractors(p)' : v = w
       /\ \A c \in Places \cup {Nowhere} : Edit(p, c) => Writers(p) = {}
OneBackupPerSecond == \A w \in Workers : Backup(w) => BackupOf(works[w].photo) \notin DOMAIN backups

Ended(w) == works[w].pc # "idle" /\ works'[w].pc = "idle"
Saving(w) == SaveRequest(w) \/ SaveExtracted(w)

Failed(w) ==
    \/ Saving(w) /\ works[w].geo = Nowhere
    \/ Ended(w) /\ works[w].kind = "extract" /\ ~Saving(w)
Succeeded(w) == Saving(w) /\ works[w].geo # Nowhere /\ refs'[works[w].photo] = works[w].geo

LocationWatch ==
    unresolved' = (unresolved \cup {works[w].photo : w \in {v \in Workers : Failed(v)}})
                  \ {works[w].photo : w \in {v \in Workers : Succeeded(v)}}

Claim ==
    \/ \E w \in Workers : /\ works[w].pc = "idle" /\ works'[w].pc # "idle" /\ works'[w].kind # "extract"
                         /\ ~\E v \in Workers : GiveUpInBatch(v, w)
    \/ CoreRestarts \/ ExifRestarts
    \/ \E p \in Photos, c \in Places \cup {Nowhere} : Edit(p, c)

Init == LocationsInit /\ unresolved = {} /\ claims = 0
Next ==
    /\ LocationsNext
    /\ claims' = IF Claim THEN claims + 1 ELSE claims
    /\ claims' <= MaxClaims
    /\ Serial /\ OneBackupPerSecond
    /\ LocationWatch

-----------------------------------------------------------------------------
\* However the writing of a photo's position ends, by a failed attempt, a crash
\* of the service or of core, the photo's other tags are in its file or in a
\* backup of that name (gps_writer.go WriteGPS strips all tags on its third
\* attempt).
TagsAreKept ==
    \A p \in Photos :
        \/ image[p].tags = p
        \/ /\ image[p].tags = NoTags
           /\ \E b \in DOMAIN backups : b[1] = BaseName[p] /\ backups[b] = p

\* Once core knows a file and nobody works at it, the photo refers to the place
\* its file names, whether a request, the agent or another program put it
\* there, unless resolving it has failed.
Quiet(p) == known[p] /\ Writers(p) = {} /\ Extractors(p) = {}
LocationIsCurrent ==
    \A p \in Photos \ unresolved : Quiet(p) /\ image[p].place # Nowhere => refs[p] = image[p].place

\* Neither service asks Nominatim for a place it has an answer for, however many
\* requests for it come at once.
AskedOnce == \A s \in Services, c \in Places : asked[s][c] <= 1
=============================================================================
