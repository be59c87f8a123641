------------------------------ MODULE MCTagScan ------------------------------
(***************************************************************************)
(* Small instances of TagScan.  One run explores several scenarios; see    *)
(* MCTagEmbeddings.  A day has four minutes.                               *)
(***************************************************************************)
EXTENDS TagScan

CONSTANT Scenarios

\* What a scenario may consist of: the schedules, moments and tags a behaviour
\* begins with, who pauses the scanner, and what else may happen.
ASSUME ScenariosOK ==
    \A s \in Scenarios :
        /\ s.begin \subseteq Settings /\ s.clocks \subseteq Instants
        /\ s.tagged \subseteq SUBSET Images /\ s.callers \subseteq Callers

VARIABLES
    scenario,
    begun      \* history: images the scanner took since the pause began

At(days, start, end) == [enabled |-> TRUE, days |-> days, start |-> start, end |-> end]

Always == At(Weekdays, 0, 0)
Noon == At({1, 2, 4}, 1, 2)
WholeDay == At({6}, 0, 0)
Off == [Noon EXCEPT !.enabled = FALSE]
NoDays == [Noon EXCEPT !.days = {}]
\* DefaultSchedule(ScheduleTagScan): Monday to Friday, 22:00 to 7:00
Nights == At(1 .. 5, 3, 1)

AllSettings == {Always, Noon, WholeDay, Off, NoDays, Nights}

Midnights == [day : Weekdays, minute : {0}]
Midnight == {[day |-> 0, minute |-> 0]}

Calendar == [begin |-> {Noon, WholeDay}, clocks |-> Midnights, tagged |-> {{1}},
             callers |-> {}, may |-> {"tick"}]
Tuning == [begin |-> {Always, Noon, Off}, clocks |-> Midnights, tagged |-> {{1}},
           callers |-> {}, may |-> {"tick", "tune", "stop"}]
Working == [begin |-> {Always}, clocks |-> Midnight, tagged |-> SUBSET Images,
            callers |-> Tasks, may |-> {"fail", "stop"}]
Browsing == [Working EXCEPT !.callers = Callers, !.may = {"fail"}]
Changing == [Working EXCEPT !.callers = {}, !.may = {"fail", "change"}]
Every == {Calendar, Tuning, Working, Browsing, Changing}

MCVars == <<vars, scenario, begun>>

MCInit ==
    /\ Init
    /\ scenario \in Scenarios
    /\ schedule \in scenario.begin /\ clock \in scenario.clocks /\ tags \in scenario.tagged
    /\ begun = 0

\* The scanner takes an image; a pause begins
Takes == loop.pc = "find" /\ loop'.pc = "call"
PauseBegins == depth = 0 /\ depth' > 0

\* Minutes are long beside the steps from one reading of the clock to the next
\* (Tick), and this administrator sets the schedule when the loop is not
\* between reading it and blocking (SetSchedule).
MCNext ==
    /\ UNCHANGED scenario
    /\ \/ "tick" \in scenario.may /\ loop.pc # "plan" /\ Tick
       \/ Scan \/ LoopStops
       \/ "fail" \in scenario.may /\ Fail
       \/ \E t \in Tasks \cap scenario.callers : TaskBegins(t) \/ TaskStep(t)
       \/ \E u \in Users \cap scenario.callers : UserPauses(u) \/ UserResumes(u) \/ Signal(u)
       \/ /\ "tune" \in scenario.may
          /\ loop.pc \notin {"to off", "plan", "to sleep"}
          /\ \E s \in Settings : SetSchedule(s)
       \/ Notify
       \/ "stop" \in scenario.may /\ StopScan
       \/ "change" \in scenario.may /\ \E i \in Images : FileChanges(i)
    /\ begun' = IF PauseBegins \/ depth' = 0 THEN 0 ELSE IF Takes THEN begun + 1 ELSE begun

MCSpec == MCInit /\ [][MCNext]_MCVars /\ Fairness

\* While AI tasks are at work, and no user resumes the scanner for them, it is
\* held; and once a pause begins it takes one more image at most, the one it had
\* already looked up the pause for, even if a token of an earlier pause arrives
\* late (StartRecognizeAsync, StartAiActionAsync, RequestPause, Resume, scanWindow).
PausesHold ==
    /\ scenario.callers \cap Users = {} => TasksHoldScanner
    /\ begun <= 1

\* No window is slept through that opens at the schedule's start on every day
\* it opens on: one that ends after it starts, or is the whole of its days; and
\* while no file changes a pass takes no more images than it counted
\* (NextWindowOpenAt, scanWindow).
WindowsAreUsed ==
    /\ TypeOK
    /\ schedule.start < schedule.end \/ schedule.start = 0 => NoWindowMissed
    /\ "change" \notin scenario.may => CountIsKept

\* Pauses that nobody prolongs end, passes end, the schedule given last is the
\* one worked by, and a stop ends the loop (scheduleLoop, scanWindow, Stop).
LoopGoesOn == PauseEnds /\ PassesEnd /\ UpdateIsSeen /\ StopEndsLoop
===============================================================================
