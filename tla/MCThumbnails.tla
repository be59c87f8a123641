---------------------------- MODULE MCThumbnails ----------------------------
(***************************************************************************)
(* Thumbnails on a small instance, with what the code is known to leave    *)
(* stale or torn kept apart from what it must keep right.                  *)
(***************************************************************************)
EXTENDS Thumbnails, TLC

CONSTANT MaxUpsets  \* bound on restarts, toggles, moves and failures

VARIABLES excused,   \* photos with a thumbnail the code leaves behind
          overtaken, \* readers whose thumbnail was removed while they read it
          upsets

-----------------------------------------------------------------------------
(* What the code leaves behind *)

\* A restart comes between the end of a photo's thumbnail and the row saved
\* before it, in the middle of a write, or after a move that was not kept.
Elsewhere(p) == \E d \in Dirs \ {cacheDir} : thumbs[d][p] # Absent
Interrupted(p) ==
    \/ \E t \in Tasks : tasks[t].photo = p /\ tasks[t].pc \in {"invalidate", "write"}
    \/ ConfiguredDir # cacheDir /\ Has(p)
    \/ Elsewhere(p)

Cleared(p) ==
    /\ \A d \in Dirs : thumbs'[d][p] = Absent
    /\ \A t \in Tasks : tasks'[t].photo = p => tasks'[t].pc \notin {"set", "write"}

\* Nothing is removed while the cache is off, nor for a photo that is discarded.
\* A thumbnail that cannot be removed stays as it is, one that cannot be written
\* to its end stays torn, and a move leaves what it could not move, or has moved
\* when it fails, in the other directory; nobody looks after either again.
Missed(p) ==
    \/ Restart /\ Interrupted(p)
    \/ /\ row'[p] = Absent /\ ~Cleared(p)
       /\ \A t \in Tasks : tasks'[t].photo = p => tasks'[t].pc # "invalidate"
    \/ \E t \in Tasks :
          /\ tasks[t].photo = p
          /\ (Invalidate(t) /\ ~enabled) \/ InvalidateFails(t) \/ WriteFails(t)
    \/ EndMove /\ Has(p)
    \/ MoveFails /\ thumbs[move.to][p] # Absent
    \/ pass = "without" /\ row'[p] # row[p] /\ tasks' = tasks

ThumbnailWatch ==
    /\ excused' = {p \in Photos : (p \in excused \/ Missed(p)) /\ ~Cleared(p)}
    /\ overtaken' =
         {t \in Tasks : /\ tasks'[t].pc = "read"
                        /\ \/ t \in overtaken
                           \/ tasks[t].pc = "read" /\ thumbs'[tasks[t].dir][tasks[t].photo] = Absent}

Failure ==
    \/ \E t \in Tasks : SetFails(t) \/ WriteFails(t) \/ InvalidateFails(t)
    \/ \E p \in Photos : LeaveThumb(p)

Upset == enabled' # enabled \/ Restart \/ (\E d \in Dirs : MoveTo(d)) \/ Failure

Init == ThumbnailsInit /\ excused = {} /\ overtaken = {} /\ upsets = 0
Next ==
    /\ ThumbnailsNext
    /\ upsets' = IF Upset THEN upsets + 1 ELSE upsets
    /\ upsets' <= MaxUpsets
    /\ ThumbnailWatch

-----------------------------------------------------------------------------
\* The photo is as its row says, and nobody has yet to remove its thumbnail.
Settled(p) ==
    /\ file[p] # Absent /\ row[p] = file[p]
    /\ \A t \in Tasks : tasks[t].photo = p => tasks[t].pc \notin {"invalidate", "replaced"}

Writing(p) == \E t \in Tasks : tasks[t].photo = p /\ tasks[t].pc = "write" /\ holder = t

\* A settled photo's thumbnail, if it has one, shows the photo as it is, and is
\* whole unless it is just being written: whatever synchronisation, scans,
\* replacements, requests, a move of the cache and a restart did at once, and
\* whichever thumbnail of another photo could not be written, moved or removed
\* (service.go, thumbnails.go, background_sync.go).
ThumbnailsAreCurrent ==
    \A p \in Photos \ excused :
        Settled(p) => thumbs[cacheDir][p] \in {Absent, file[p]} \/ Writing(p)

\* GetOrGenerate reads the file after it has given back its lock, and still
\* finds a whole thumbnail unless the thumbnail was removed under it.
AnswersAreWhole ==
    \A t \in Tasks : Answer(t) = Torn => t \in overtaken \/ tasks[t].photo \in excused
=============================================================================
