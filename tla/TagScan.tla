-------------------------------- MODULE TagScan --------------------------------
(***************************************************************************)
(* The background tagging of photos: TagScanManager's schedule loop, its   *)
(* passes over the untagged photos, and the pauses by which AI tasks and   *)
(* users hold it (backend/core/internal/application/imaging/tag_scan.go,   *)
(* llm_ocr.go, interfaces/handler/handlers_tag_scan.go, handlers_llm.go).  *)
(*                                                                         *)
(* Read, check and block are steps of their own wherever the code lets go  *)
(* of its mutex between them.  What tags say and how rows of tags and      *)
(* embeddings are written is TagEmbeddings' matter; here an image has tags *)
(* or has none.                                                            *)
(***************************************************************************)
EXTENDS BackgroundManager, Schedule, FiniteSets

CONSTANTS
    MaxId,         \* the greatest primary key
    Images,        \* image_files.id
    Tasks,         \* AI tasks that may run at once
    Users,         \* users that may pause and resume at once
    Settings,      \* what the administrator may set the schedule to
    MaxDepth       \* bound: pauses held at once

ASSUME ConstantsOK ==
    /\ MaxId \in Nat /\ Images \subseteq 1 .. MaxId
    /\ Tasks \cap Users = {}
    /\ Settings \subseteq Schedules
    /\ MaxDepth \in Nat

VARIABLES
    clock,      \* the time on the user's wall clock
    mgr,        \* the tag-scan background.Manager
    schedule,   \* tsm.schedule
    notifying,  \* an UpdateSchedule has yet to send on scheduleCh
    depth,      \* tsm.pauseDepth; tsm.paused is depth > 0
    resumeCh,   \* whether the buffered resumeCh holds a token
    caller,     \* what each task and user is doing with the scanner
    loop,       \* the locals of scheduleLoop and scanWindow, and the cursor
    progress,   \* tsm.progress
    tags,       \* the images that have rows in image_tags
    errors      \* the images that have a row in image_processing_errors

gallery == <<tags, errors>>
pauses == <<depth, resumeCh, caller>>
vars == <<clock, mgr, schedule, notifying, depth, resumeCh, caller, loop, progress, tags, errors>>

\* Where the loop can receive on scheduleCh
Listening == {"off", "rest", "sleep"}

\* Where it is inside scanWindow
Scanning == {"count", "check", "paused", "find", "call", "insert", "record"}

Callers == Tasks \cup Users

\* Start: the loop begins, with the schedule in the database
Init ==
    /\ clock \in Instants
    /\ mgr = Started(NewManager)
    /\ schedule \in Settings
    /\ notifying = FALSE
    /\ depth = 0 /\ resumeCh = FALSE
    /\ caller = [c \in Callers |-> "idle"]
    /\ loop = [pc |-> "read", seen |-> schedule, timer |-> Never, then |-> "rest",
               cursor |-> 0, image |-> 0]
    /\ progress = [total |-> 0, scanned |-> 0]
    /\ tags \in SUBSET Images
    /\ errors = {}

stopped == IsClosed(mgr, Done(mgr))

Tick ==
    /\ clock' = Later(clock)
    /\ loop' = [loop EXCEPT !.timer = Approached(loop.timer, clock)]
    /\ UNCHANGED <<mgr, schedule, notifying, pauses, progress, gallery>>

-------------------------------------------------------------------------------
(* scheduleLoop *)

\* Read the schedule; choose between waiting for another one, a pass, and the
\* timer.
Read ==
    /\ loop.pc = "read"
    /\ loop' = [loop EXCEPT !.seen = schedule, !.then = "rest", !.pc =
           IF ~schedule.enabled \/ schedule.days = {} THEN "to off"
           ELSE IF IsWindowOpenAt(schedule, clock) THEN "count"
           ELSE "plan"]
    /\ UNCHANGED <<clock, mgr, schedule, notifying, pauses, progress, gallery>>

\* calculateNextWindowOpen reads the schedule and the clock once more.
Plan ==
    /\ loop.pc = "plan"
    /\ loop' = [loop EXCEPT !.pc = "to sleep", !.timer = NextOpeningAt(schedule, clock)]
    /\ UNCHANGED <<clock, mgr, schedule, notifying, pauses, progress, gallery>>

Block ==
    /\ loop.pc \in {"to off", "to sleep"}
    /\ loop' = [loop EXCEPT !.pc = IF loop.pc = "to off" THEN "off" ELSE "sleep"]
    /\ UNCHANGED <<clock, mgr, schedule, notifying, pauses, progress, gallery>>

\* The timer fires: a pass, and straight back to reading the schedule
WindowOpens ==
    /\ loop.pc = "sleep"
    /\ HasCome(loop.timer, clock)
    /\ loop' = [loop EXCEPT !.pc = "count", !.then = "read", !.timer = Never]
    /\ UNCHANGED <<clock, mgr, schedule, notifying, pauses, progress, gallery>>

\* The 30 seconds after a pass are over.
RestOver ==
    /\ loop.pc = "rest"
    /\ loop' = [loop EXCEPT !.pc = "read"]
    /\ UNCHANGED <<clock, mgr, schedule, notifying, pauses, progress, gallery>>

\* mutant: the loop does not listen to the stop while it rests
Deaf == {"off", "sleep"}

\* Where the loop selects on stopCh
MayStop == Listening

LoopStops ==
    /\ loop.pc \in MayStop
    /\ stopped
    /\ loop' = [loop EXCEPT !.pc = "done", !.timer = Never]
    /\ UNCHANGED <<clock, mgr, schedule, notifying, pauses, progress, gallery>>

-------------------------------------------------------------------------------
(* scanWindow *)

\* Untagged images without a permanent error
Untagged == Images \ (tags \cup errors)

\* mutant: the query starts at the cursor, not behind it
FromCursor == {i \in Untagged : i >= loop.cursor}

\* ... AND image_files.id > cursor
AfterCursor == {i \in Untagged : i > loop.cursor}

Count ==
    /\ loop.pc = "count"
    /\ IF Untagged = {}
       THEN /\ loop' = [loop EXCEPT !.pc = loop.then]
            /\ UNCHANGED progress
       ELSE /\ loop' = [loop EXCEPT !.pc = "check", !.cursor = 0]
            /\ progress' = [total |-> Cardinality(Untagged), scanned |-> 0]
    /\ UNCHANGED <<clock, mgr, schedule, notifying, pauses, gallery>>

paused == depth > 0

\* The window, the pause and the stop, in this order
Check ==
    /\ loop.pc = "check"
    /\ loop' = [loop EXCEPT !.pc =
           IF ~IsWindowOpenAt(schedule, clock) THEN loop.then
           ELSE IF paused THEN "paused"
           ELSE IF stopped THEN loop.then
           ELSE "find"]
    /\ UNCHANGED <<clock, mgr, schedule, notifying, pauses, progress, gallery>>

\* mutant: the loop goes on to an image without looking again
Onward == "find"

\* Where the loop goes on after a pause
Resumed == "check"

\* <-resumeCh, to which only Resume and nothing of a stop leads
Wake ==
    /\ loop.pc = "paused"
    /\ resumeCh
    /\ resumeCh' = FALSE
    /\ loop' = [loop EXCEPT !.pc = Resumed]
    /\ UNCHANGED <<clock, mgr, schedule, notifying, depth, caller, progress, gallery>>

\* mutant: a pass that finds no image looks again
Again == "check"

\* Where a pass without a further image goes on
NoMore == loop.then

Find ==
    /\ loop.pc = "find"
    /\ loop' = IF AfterCursor = {}
               THEN [loop EXCEPT !.pc = NoMore]
               ELSE [loop EXCEPT !.pc = "call",
                        !.image = CHOOSE i \in AfterCursor : \A j \in AfterCursor : i <= j]
    /\ UNCHANGED <<clock, mgr, schedule, notifying, pauses, progress, gallery>>

\* The database does not answer: the pass takes it for the end of its images.
QueryFails ==
    /\ loop.pc \in {"count", "find"}
    /\ loop' = [loop EXCEPT !.pc = loop.then]
    /\ UNCHANGED <<clock, mgr, schedule, notifying, pauses, progress, gallery>>

-------------------------------------------------------------------------------
(* processImage and the end of scanWindow's loop body *)

\* Cursor and progress move on, whatever became of the image.
Advance ==
    /\ loop' = [loop EXCEPT !.pc = "check", !.cursor = loop.image, !.image = 0]
    /\ progress' = [progress EXCEPT !.scanned = @ + 1]

\* The model answers: the image's tags are deleted, then inserted if there
\* are any.
AnsweredWithTags ==
    /\ loop.pc = "call"
    /\ tags' = tags \ {loop.image}
    /\ loop' = [loop EXCEPT !.pc = "insert"]
    /\ UNCHANGED <<clock, mgr, schedule, notifying, pauses, progress, errors>>

AnsweredWithNone ==
    /\ loop.pc = "call"
    /\ tags' = tags \ {loop.image}
    /\ Advance
    /\ UNCHANGED <<clock, mgr, schedule, notifying, pauses, errors>>

Insert ==
    /\ loop.pc = "insert"
    /\ tags' = tags \cup {loop.image}
    /\ Advance
    /\ UNCHANGED <<clock, mgr, schedule, notifying, pauses, errors>>

\* No instrument, no client, or an error that may pass; or the insertion fails.
Fails ==
    /\ loop.pc \in {"call", "insert"}
    /\ Advance
    /\ UNCHANGED <<clock, mgr, schedule, notifying, pauses, gallery>>

\* The file cannot be decoded: leave a record, so that no pass tries it again.
FailsForGood ==
    /\ loop.pc = "call"
    /\ loop' = [loop EXCEPT !.pc = "record"]
    /\ UNCHANGED <<clock, mgr, schedule, notifying, pauses, progress, gallery>>

Record ==
    /\ loop.pc = "record"
    /\ \/ errors' = errors \cup {loop.image}
       \/ UNCHANGED errors  \* the database refuses
    /\ Advance
    /\ UNCHANGED <<clock, mgr, schedule, notifying, pauses, tags>>

-------------------------------------------------------------------------------
(* Pauses *)

\* What the channel holds after a RequestPause: a stale token is drained when
\* the first pause begins.
Drained == IF depth = 0 THEN FALSE ELSE resumeCh

\* mutant: the depth is a flag
Raised == 1

Deeper == depth + 1

RequestPause ==
    IF mgr.running
    THEN depth' = Deeper /\ resumeCh' = Drained
    ELSE UNCHANGED <<depth, resumeCh>>

\* mutant: Resume compares the depth before it counts down
SendsAtZero == depth = 0

\* The last Resume sends, after it has let go of the mutex.
Sends == depth = 1

\* Resume up to the release of the mutex
Resume(c) ==
    /\ depth' = IF depth > 0 THEN depth - 1 ELSE 0
    /\ caller' = [caller EXCEPT ![c] = IF Sends THEN "signal" ELSE "idle"]

\* resumeCh <- struct{}{}, unless the buffer is full
Signal(c) ==
    /\ caller[c] = "signal"
    /\ resumeCh' = TRUE
    /\ caller' = [caller EXCEPT ![c] = "idle"]
    /\ UNCHANGED <<clock, mgr, schedule, notifying, depth, loop, progress, gallery>>

\* StartRecognizeAsync, StartAiActionAsync: the scanner is held for the task.
TaskBegins(t) ==
    /\ caller[t] = "idle"
    /\ RequestPause
    /\ caller' = [caller EXCEPT ![t] = "working"]
    /\ UNCHANGED <<clock, mgr, schedule, notifying, loop, progress, gallery>>

\* A task that made tags saves them ...
TaskSaves(t, i) ==
    /\ caller[t] = "working"
    /\ tags' = tags \cup {i}
    /\ caller' = [caller EXCEPT ![t] = "saved"]
    /\ UNCHANGED <<clock, mgr, schedule, notifying, depth, resumeCh, loop, progress, errors>>

\* ... and whatever came of it, the scanner is let go.
TaskEnds(t) ==
    /\ caller[t] \in {"working", "saved"}
    /\ Resume(t)
    /\ UNCHANGED <<clock, mgr, schedule, notifying, resumeCh, loop, progress, gallery>>

UserPauses(u) ==
    /\ caller[u] = "idle" /\ depth < MaxDepth
    /\ RequestPause
    /\ UNCHANGED <<clock, mgr, schedule, notifying, caller, loop, progress, gallery>>

UserResumes(u) ==
    /\ caller[u] = "idle"
    /\ Resume(u)
    /\ UNCHANGED <<clock, mgr, schedule, notifying, resumeCh, loop, progress, gallery>>

-------------------------------------------------------------------------------
(* The administrator and the gallery *)

\* handleUpdateLlmSettings asks whether the scanner runs; UpdateSchedule
\* sets the schedule ...
SetSchedule(s) ==
    /\ mgr.running /\ ~notifying
    /\ schedule' = s
    /\ notifying' = TRUE
    /\ UNCHANGED <<clock, mgr, pauses, loop, progress, gallery>>

\* mutant: the loop takes the notification and blocks again
HeardNothing == loop

\* The loop if the channel is sent to now
Heard ==
    IF loop.pc \in Listening
    THEN [loop EXCEPT !.pc = "read", !.timer = Never]
    ELSE loop

\* ... and then sends, which nobody notices unless the loop is blocked.
Notify ==
    /\ notifying
    /\ notifying' = FALSE
    /\ loop' = Heard
    /\ UNCHANGED <<clock, mgr, schedule, pauses, progress, gallery>>

\* Shutdown
StopScan ==
    /\ mgr.running
    /\ mgr' = Stop(mgr)
    /\ UNCHANGED <<clock, schedule, notifying, pauses, loop, progress, gallery>>

\* The content of a file changes (InvalidateTagsAndEmbeddings).
FileChanges(i) ==
    /\ i \in tags \cup errors
    /\ tags' = tags \ {i}
    /\ errors' = errors \ {i}
    /\ UNCHANGED <<clock, mgr, schedule, notifying, pauses, loop, progress>>

-------------------------------------------------------------------------------
\* What one of the scanner's goroutine's steps does when nothing goes wrong
Scan ==
    \/ Read \/ Plan \/ Block \/ WindowOpens \/ RestOver
    \/ Count \/ Check \/ Wake \/ Find \/ AnsweredWithTags \/ Insert

Fail == QueryFails \/ AnsweredWithNone \/ Fails \/ FailsForGood \/ Record

TaskStep(t) == TaskEnds(t) \/ Signal(t) \/ \E i \in Images : TaskSaves(t, i)

Next ==
    \/ Tick \/ Scan \/ Fail \/ LoopStops
    \/ \E t \in Tasks : TaskBegins(t) \/ TaskStep(t)
    \/ \E u \in Users : UserPauses(u) \/ UserResumes(u) \/ Signal(u)
    \/ \E s \in Settings : SetSchedule(s)
    \/ Notify \/ StopScan
    \/ \E i \in Images : FileChanges(i)

\* The goroutine is scheduled and its calls return (the HTTP client and the
\* database have timeouts); a caller that has a token to send sends it.  A
\* select chooses at random among what is ready, so a stop that is ready again
\* and again is chosen.
Fairness ==
    /\ WF_vars(Scan \/ Fail)
    /\ SF_vars(LoopStops)
    /\ WF_vars(Notify)
    /\ \A c \in Callers : WF_vars(Signal(c))

Spec == Init /\ [][Next]_vars /\ Fairness

-------------------------------------------------------------------------------
(* Properties *)

\* The state of TagScanManager and of its callers is well-typed.
TypeOK ==
    /\ clock \in Instants
    /\ mgr \in Manager
    /\ schedule \in Settings
    /\ notifying \in BOOLEAN
    /\ depth \in Nat
    /\ resumeCh \in BOOLEAN
    /\ caller \in [Callers -> {"idle", "working", "saved", "signal"}]
    /\ loop \in [pc : Scanning \cup Listening \cup {"read", "plan", "to off", "to sleep", "done"},
                 seen : Settings, timer : Moments, then : {"rest", "read"},
                 cursor : Images \cup {0}, image : Images \cup {0}]
    /\ progress \in [total : Nat, scanned : Nat]
    /\ tags \subseteq Images /\ errors \subseteq Images

\* While an AI task is at work the scanner is held: pauseDepth counts every
\* task at work, until the shutdown (StartRecognizeAsync, StartAiActionAsync; "RequestPause
\* requests the scanner to pause (for AI task coordination)").
TasksHoldScanner ==
    mgr.running => depth >= Cardinality({t \in Tasks : caller[t] \in {"working", "saved"}})

\* A scanner that waits on resumeCh although nobody holds it any longer goes
\* on, or is held anew (RequestPause, Resume, scanWindow).
PauseEnds == loop.pc = "paused" /\ ~paused ~> loop.pc # "paused" \/ paused

\* A pass ends, unless it is paused: every image it looks at, failed or not,
\* is behind it afterwards (scanWindow, processImage).
PassesEnd == loop.pc \in Scanning ~> loop.pc \notin Scanning \/ paused

\* While the loop sleeps until the next opening of the schedule it read, that
\* schedule's window is closed (scheduleLoop, NextWindowOpenAt: "returns the
\* next instant the schedule's window opens on a selected weekday").
NoWindowMissed ==
    loop.pc = "sleep" /\ schedule = loop.seen /\ IsWindowOpenAt(schedule, clock)
        => HasCome(loop.timer, clock)

\* The loop gets to work by the schedule it was given last, unless it is
\* paused or stopped (UpdateSchedule: "updates the schedule at runtime and
\* restarts the loop").
UpdateIsSeen ==
    \A s \in Settings :
        schedule = s /\ loop.seen # s ~>
            loop.seen = s \/ schedule # s \/ paused \/ loop.pc = "done"

\* A stopped scanner's goroutine returns, unless a pause holds it (Stop).
StopEndsLoop == stopped ~> loop.pc = "done" \/ paused

\* A pass over a gallery whose files do not change takes no more images than
\* it counted when it began, so that Remaining does not fall below zero
\* (scanWindow, GetStatus).
CountIsKept == progress.scanned <= progress.total
===============================================================================
