-------------------------- MODULE MCEnhancements --------------------------
(***************************************************************************)
(* Enhancements, and what must be remembered of their past.  Decisions     *)
(* meet, as they do when a user clicks twice or has two windows; but what  *)
(* holds is stated of pasts in which no two replacements and no            *)
(* enhancement and another request have met: there the code may overwrite  *)
(* the backup of the original, or the image that a decision is about.      *)
(***************************************************************************)
EXTENDS Enhancements

VARIABLES met,        \* such requests have met
          unsynced,   \* the core has crashed, or could not update a row
          backedUp,   \* requests that have copied the photo into the backup directory
          lost,       \* a request has replaced an image that it had copied there, and it is not there
          saved       \* the copies that there have been, with their images

Init ==
    /\ EnhancementsInit
    /\ met = FALSE /\ unsynced = FALSE /\ lost = FALSE
    /\ backedUp = {} /\ saved = {}

Replacing == {c \in Clients : work[c].pc \in {"backsUp", "renames", "reads", "updates"}}
Meet ==
    \E c \in Clients : \E d \in Clients \ {c} :
        \/ {c, d} \subseteq Replacing
        \/ At(c, "asks") /\ ~At(d, "idle")

BacksUp(c) ==
    /\ At(c, "backsUp") /\ work'[c].pc = "renames"
    /\ configured /\ (backup' # backup \/ backup' = photo)
Replaces(c) == At(c, "renames") /\ work'[c].pc = "reads"
Copies(c) == At(c, "copies") /\ work'[c].pc = "cleans"

Remembered ==
    /\ met' = (met \/ Meet')
    /\ backedUp' = {c \in Clients : work'[c].pc = "renames" /\ (c \in backedUp \/ BacksUp(c))}
    /\ lost' = (lost \/ \E c \in backedUp : Replaces(c) /\ backup # photo)
    /\ saved' = saved \cup {<<work[c].name, enhanced>> : c \in {d \in Clients : Copies(d)}}

Next ==
    \/ /\ EnhancementSteps /\ Remembered
       /\ unsynced' = (unsynced \/ \E c \in Clients : UpdateFails(c))
    \/ Crash /\ Remembered /\ unsynced' = TRUE

\* Where no such requests have met: an image that is replaced is in the backup
\* directory, unless copying it there has failed; what was saved as a copy stays
\* what it was, under a name of its own; every row has the hash of its file,
\* but that of a photo whose replacement is under way, or has failed after it
\* (handleReplaceEnhancement, handleSaveCopyEnhancement, findAvailableCopyPath).
ChoicesAreKept ==
    /\ EnhancementsOK
    /\ ~met => /\ ~lost
               /\ \A s \in saved : copies[s[1]] = s[2]
               /\ \A n \in Names : copyRows[n] \in {None, copies[n]}
               /\ Replacing = {} /\ ~unsynced => photoRow = photo
=============================================================================
