----------------------------- MODULE TagScanProofs -----------------------------
(***************************************************************************)
(* What holds of the tag scan for every length of the day, every set of    *)
(* photos, tasks, users and schedules, and every scenario: the types, that *)
(* pauses hold the scanner, that no window is slept through, and that no   *)
(* pass takes more photos than it counted.                                 *)
(***************************************************************************)
EXTENDS MCTagScan, WellFoundedInduction, FiniteSetTheorems, TLAPS

\* A set of numbers has a least one (ORDER BY id LIMIT 1 finds a row if there
\* is one).
LEMMA LeastNat ==
    ASSUME NEW T, T \subseteq Nat, T # {}
    PROVE  \E x \in T : \A y \in T : x <= y
  <1>1. PICK x \in T : \A y \in T : ~ (<<y, x>> \in OpToRel(<, Nat))
    BY WFMin, NatLessThanWellFounded
  <1>2. \A y \in T : ~ (y < x)  BY <1>1 DEF OpToRel
  <1> QED  BY <1>2

(* Moments *)

LEMMA LaterTyped == ASSUME NEW t \in Instants PROVE Later(t) \in Instants
  BY DayLengthOK DEF Later, Instants, Weekdays, Minutes

\* In the week to come a schedule with a weekday opens on some day, and on a
\* first one.
LEMMA NextOpening ==
    ASSUME NEW s \in Schedules, NEW t \in Instants, s.days # {}
    PROVE  \E n \in 0 .. 7 :
              /\ NextOpeningAt(s, t) = [ahead |-> n, minute |-> s.start]
              /\ OpensAhead(s, t, n)
              /\ \A m \in 0 .. n - 1 : ~OpensAhead(s, t, m)
  <1> DEFINE T == {n \in 0 .. 7 : OpensAhead(s, t, n)}
  <1>1. T # {}
    <2>1. PICK d \in s.days : TRUE  OBVIOUS
    <2>2. d \in 0 .. 6 /\ t.day \in 0 .. 6  BY DEF Schedules, Instants, Weekdays
    <2>3. \E n \in 1 .. 7 : (t.day + n) % 7 = d
      <3>1. CASE d > t.day
        <4>1. d - t.day \in 1 .. 7 /\ t.day + (d - t.day) = d /\ d % 7 = d  BY <2>2, <3>1
        <4> QED  BY <4>1
      <3>2. CASE d <= t.day
        <4>1. d + 7 - t.day \in 1 .. 7 /\ t.day + (d + 7 - t.day) = d + 7 /\ (d + 7) % 7 = d
          BY <2>2, <3>2
        <4> QED  BY <4>1
      <3> QED  BY <2>2, <3>1, <3>2
    <2>4. PICK n \in 1 .. 7 : (t.day + n) % 7 = d  BY <2>3
    <2>5. n \in T  BY <2>4 DEF OpensAhead, DayAhead
    <2> QED  BY <2>5
  <1>2. PICK n \in T : \A m \in T : n <= m  BY <1>1, LeastNat
  <1> DEFINE First(k) == OpensAhead(s, t, k) /\ \A m \in 0 .. k - 1 : ~OpensAhead(s, t, m)
  <1>3. n \in 0 .. 7 /\ First(n)  BY <1>2
  <1>4. ASSUME NEW k \in 0 .. 7, First(k) PROVE k = n  BY <1>3, <1>4
  <1>5. (CHOOSE k \in 0 .. 7 : First(k)) = n  BY <1>3, <1>4
  <1>6. NextOpeningAt(s, t) = [ahead |-> n, minute |-> s.start]  BY <1>5 DEF NextOpeningAt
  <1> QED  BY <1>3, <1>6

LEMMA NextOpeningTyped ==
    ASSUME NEW s \in Schedules, NEW t \in Instants PROVE NextOpeningAt(s, t) \in Moments
  <1>1. CASE s.days = {}  BY <1>1 DEF NextOpeningAt, Moments
  <1>2. CASE s.days # {}  BY <1>2, NextOpening DEF Moments, Schedules
  <1> QED  BY <1>1, <1>2

LEMMA ApproachedTyped ==
    ASSUME NEW m \in Moments, NEW t \in Instants PROVE Approached(m, t) \in Moments
  BY DayLengthOK DEF Approached, Moments, Never, Minutes

-------------------------------------------------------------------------------
(* Types *)

LoopRecord == [pc : Scanning \cup Listening \cup {"read", "plan", "to off", "to sleep", "done"},
               seen : Settings, timer : Moments, then : {"rest", "read"},
               cursor : Images \cup {0}, image : Images \cup {0}]

\* The scanner has an image while it is at work on one.
AtImage == {"call", "insert", "record"}
Typed == TypeOK /\ (loop.pc \in AtImage => loop.image \in Images)

USE DEF gallery, pauses

LEMMA InitTyped == Init => Typed
  <1> SUFFICES ASSUME Init PROVE Typed  OBVIOUS
  <1>1. mgr \in Manager
    <2>1. NewManager \in Manager /\ NewManager.stopChan + 1 \in Nat  BY DEF NewManager, Manager
    <2> QED  BY <2>1 DEF Init, Started, Manager
  <1>2. loop \in LoopRecord  BY DEF Init, LoopRecord, Scanning, Listening, Moments, Never
  <1> QED  BY <1>1, <1>2 DEF Init, Typed, TypeOK, AtImage, LoopRecord

LEMMA ClockTyped == ASSUME Typed, Tick PROVE Typed'
  <1>1. clock' \in Instants  BY LaterTyped DEF Tick, Typed, TypeOK
  <1>2. Approached(loop.timer, clock) \in Moments  BY ApproachedTyped DEF Typed, TypeOK
  <1> QED  BY <1>1, <1>2 DEF Tick, Typed, TypeOK

LEMMA LoopTyped ==
    ASSUME Typed, Read \/ Plan \/ Block \/ WindowOpens \/ RestOver \/ LoopStops
    PROVE  Typed'
  <1> USE DEF Typed, TypeOK, Scanning, Listening, AtImage
  <1>1. CASE Read  BY <1>1 DEF Read
  <1>2. CASE Plan
    <2>1. NextOpeningAt(schedule, clock) \in Moments  BY NextOpeningTyped, ConstantsOK
    <2> QED  BY <1>2, <2>1 DEF Plan
  <1>3. CASE Block  BY <1>3 DEF Block
  <1>4. CASE WindowOpens  BY <1>4 DEF WindowOpens, Moments
  <1>5. CASE RestOver  BY <1>5 DEF RestOver
  <1>6. CASE LoopStops  BY <1>6 DEF LoopStops, Moments
  <1> QED  BY <1>1, <1>2, <1>3, <1>4, <1>5, <1>6

LEMMA UntaggedFinite == IsFiniteSet(Untagged)
  <1>1. IsFiniteSet(1 .. MaxId)  BY FS_Interval, ConstantsOK
  <1> QED  BY <1>1, FS_Subset, ConstantsOK DEF Untagged

\* The query finds the least image after the cursor, if there is any.
LEMMA FirstAfterCursor ==
    ASSUME AfterCursor # {}
    PROVE  LET i == CHOOSE i \in AfterCursor : \A j \in AfterCursor : i <= j
           IN  i \in AfterCursor /\ \A j \in AfterCursor : i <= j
  <1>1. Images \subseteq Nat  BY ConstantsOK
  <1>2. AfterCursor \subseteq Nat  BY <1>1 DEF AfterCursor, Untagged
  <1>3. \E i \in AfterCursor : \A j \in AfterCursor : i <= j  BY <1>2, LeastNat
  <1> QED  BY <1>3

LEMMA PassTyped ==
    ASSUME Typed, Count \/ Check \/ Wake \/ Find \/ QueryFails
    PROVE  Typed'
  <1> USE DEF Typed, TypeOK, Scanning, Listening, AtImage
  <1>1. CASE Count
    <2> DEFINE n == Cardinality(Untagged)
    <2>1. n \in Nat  BY UntaggedFinite, FS_CardinalityType
    <2>2. progress' \in {progress, [total |-> n, scanned |-> 0]}  BY <1>1 DEF Count
    <2>3. \/ loop' = [loop EXCEPT !.pc = loop.then]
          \/ loop' = [loop EXCEPT !.pc = "check", !.cursor = 0]
      BY <1>1 DEF Count
    <2> HIDE DEF n
    <2>4. progress' \in [total : Nat, scanned : Nat]
      <3>1. progress \in [total : Nat, scanned : Nat]  OBVIOUS
      <3> QED  BY ONLY <2>1, <2>2, <3>1
    <2>5. loop' \in LoopRecord /\ loop'.pc \notin AtImage  BY <2>3 DEF LoopRecord
    <2> QED  BY <1>1, <2>4, <2>5 DEF Count, LoopRecord
  <1>2. CASE Check  BY <1>2 DEF Check
  <1>3. CASE Wake  BY <1>3 DEF Wake, Resumed
  <1>4. CASE Find
    <2> DEFINE i == CHOOSE i \in AfterCursor : \A j \in AfterCursor : i <= j
    <2>1. AfterCursor # {} => i \in Images
      <3>1. AfterCursor \subseteq Images  BY DEF AfterCursor, Untagged
      <3> QED  BY <3>1, FirstAfterCursor
    <2> HIDE DEF i
    <2>2. \/ loop' = [loop EXCEPT !.pc = loop.then]
          \/ AfterCursor # {} /\ loop' = [loop EXCEPT !.pc = "call", !.image = i]
      BY <1>4 DEF Find, NoMore, i
    <2> QED  BY <1>4, <2>1, <2>2 DEF Find
  <1>5. CASE QueryFails  BY <1>5 DEF QueryFails
  <1> QED  BY <1>1, <1>2, <1>3, <1>4, <1>5

LEMMA ImageTyped ==
    ASSUME Typed, \/ AnsweredWithTags \/ AnsweredWithNone \/ Insert \/ Fails
                  \/ FailsForGood \/ Record
    PROVE  Typed'
  <1> USE DEF Typed, TypeOK, Scanning, Listening, AtImage
  <1>1. Advance /\ loop.pc \in AtImage
            => loop' \in LoopRecord /\ loop'.pc = "check" /\ progress' \in [total : Nat, scanned : Nat]
    <2> SUFFICES ASSUME Advance, loop.pc \in AtImage
                 PROVE  /\ loop' \in LoopRecord /\ loop'.pc = "check"
                        /\ progress' \in [total : Nat, scanned : Nat]
      OBVIOUS
    <2>1. loop' = [loop EXCEPT !.pc = "check", !.cursor = loop.image, !.image = 0]  BY DEF Advance
    <2>2. loop' \in LoopRecord /\ loop'.pc = "check"  BY <2>1 DEF LoopRecord
    <2>3. progress \in [total : Nat, scanned : Nat]  OBVIOUS
    <2>4. progress' = [progress EXCEPT !.scanned = progress.scanned + 1]  BY DEF Advance
    <2>5. progress' \in [total : Nat, scanned : Nat]  BY ONLY <2>3, <2>4
    <2> QED  BY <2>2, <2>5
  <1>2. CASE AnsweredWithTags  BY <1>2 DEF AnsweredWithTags
  <1>3. CASE AnsweredWithNone  BY <1>1, <1>3 DEF AnsweredWithNone, LoopRecord
  <1>4. CASE Insert  BY <1>1, <1>4 DEF Insert, LoopRecord
  <1>5. CASE Fails  BY <1>1, <1>5 DEF Fails, LoopRecord
  <1>6. CASE FailsForGood  BY <1>6 DEF FailsForGood
  <1>7. CASE Record  BY <1>1, <1>7 DEF Record, LoopRecord
  <1> QED  BY <1>2, <1>3, <1>4, <1>5, <1>6, <1>7

LEMMA PauseTyped ==
    ASSUME Typed,
           \/ \E t \in Tasks : TaskBegins(t) \/ TaskStep(t)
           \/ \E u \in Users : UserPauses(u) \/ UserResumes(u) \/ Signal(u)
    PROVE  Typed'
  <1> USE DEF Typed, TypeOK, Callers
  <1>1. RequestPause => depth' \in Nat /\ resumeCh' \in BOOLEAN
    <2>1. depth \in Nat /\ resumeCh \in BOOLEAN  OBVIOUS
    <2>2. depth + 1 \in Nat  BY ONLY <2>1
    <2> QED  BY ONLY <2>1, <2>2 DEF RequestPause, Deeper, Drained
  <1>2. ASSUME NEW c \in Callers, Resume(c)
        PROVE  depth' \in Nat /\ caller' \in [Callers -> {"idle", "working", "saved", "signal"}]
    <2>1. depth' \in Nat
      <3>1. depth \in Nat  OBVIOUS
      <3> QED  BY ONLY <1>2, <3>1 DEF Resume
    <2>2. caller' \in [Callers -> {"idle", "working", "saved", "signal"}]  BY <1>2 DEF Resume
    <2> QED  BY <2>1, <2>2
  <1>3. ASSUME NEW t \in Tasks, TaskBegins(t) PROVE Typed'
    <2>1. caller' \in [Callers -> {"idle", "working", "saved", "signal"}]  BY <1>3 DEF TaskBegins
    <2> QED  BY <1>1, <1>3, <2>1 DEF TaskBegins
  <1>4. ASSUME NEW t \in Tasks, NEW i \in Images, TaskSaves(t, i) PROVE Typed'
    BY <1>4 DEF TaskSaves
  <1>5. ASSUME NEW t \in Tasks, TaskEnds(t) PROVE Typed'  BY <1>2, <1>5 DEF TaskEnds
  <1>6. ASSUME NEW c \in Callers, Signal(c) PROVE Typed'  BY <1>6 DEF Signal
  <1>7. ASSUME NEW u \in Users, UserPauses(u) PROVE Typed'  BY <1>1, <1>7 DEF UserPauses
  <1>8. ASSUME NEW u \in Users, UserResumes(u) PROVE Typed'  BY <1>2, <1>8 DEF UserResumes
  <1> QED  BY <1>3, <1>4, <1>5, <1>6, <1>7, <1>8 DEF TaskStep

LEMMA OthersTyped ==
    ASSUME Typed,
           \/ \E s \in Settings : SetSchedule(s)
           \/ Notify \/ StopScan
           \/ \E i \in Images : FileChanges(i)
    PROVE  Typed'
  <1> USE DEF Typed, TypeOK
  <1>1. ASSUME NEW s \in Settings, SetSchedule(s) PROVE Typed'  BY <1>1 DEF SetSchedule
  <1>2. CASE Notify
    BY <1>2 DEF Notify, Heard, Listening, Scanning, Moments, AtImage
  <1>3. CASE StopScan
    <2>1. mgr' \in Manager  BY <1>3 DEF StopScan, Stop, Manager
    <2> QED  BY <1>3, <2>1 DEF StopScan
  <1>4. ASSUME NEW i \in Images, FileChanges(i) PROVE Typed'  BY <1>4 DEF FileChanges
  <1> QED  BY <1>1, <1>2, <1>3, <1>4

LEMMA StepTyped == Typed /\ [Next]_vars => Typed'
  <1>1. Typed /\ UNCHANGED vars => Typed'  BY DEF Typed, TypeOK, vars
  <1> QED
    BY <1>1, ClockTyped, LoopTyped, PassTyped, ImageTyped, PauseTyped, OthersTyped
    DEF Next, Scan, Fail
\* A step of a scenario is a step of the scanner and its callers.
LEMMA ScenarioStep == MCNext => Next /\ UNCHANGED scenario
  BY DEF MCNext, Next, Callers

-------------------------------------------------------------------------------
(* Pauses *)

AtWork == {t \in Tasks : caller[t] \in {"working", "saved"}}

\* Everyone at work is counted by the depth, and once a pause has begun the
\* scanner takes only the image that it had looked up the pause for.
PauseCounts ==
    /\ IsFiniteSet(AtWork)
    /\ mgr.running => depth >= Cardinality(AtWork)
OneMore ==
    /\ begun \in {0, 1}
    /\ begun = 1 => depth > 0 /\ loop.pc # "find"

LEMMA WorkBegins ==
    ASSUME Typed, PauseCounts, NEW t \in Tasks, TaskBegins(t)
    PROVE  PauseCounts'
  <1>1. caller \in [Callers -> {"idle", "working", "saved", "signal"}] /\ depth \in Nat
    BY DEF Typed, TypeOK
  <1>2. caller[t] = "idle" /\ caller' = [caller EXCEPT ![t] = "working"] /\ mgr' = mgr
    BY DEF TaskBegins
  <1>3. AtWork' = AtWork \cup {t} /\ t \notin AtWork  BY <1>1, <1>2 DEF AtWork, Callers
  <1>4. /\ IsFiniteSet(AtWork')
        /\ Cardinality(AtWork') = Cardinality(AtWork) + 1 /\ Cardinality(AtWork) \in Nat
    BY <1>3, FS_AddElement, FS_CardinalityType DEF PauseCounts
  <1>5. mgr.running => depth' = depth + 1
    BY DEF TaskBegins, RequestPause, Deeper
  <1> QED  BY <1>1, <1>2, <1>4, <1>5 DEF PauseCounts

LEMMA WorkEnds ==
    ASSUME Typed, PauseCounts, NEW t \in Tasks, TaskEnds(t)
    PROVE  PauseCounts'
  <1>1. caller \in [Callers -> {"idle", "working", "saved", "signal"}] /\ depth \in Nat
    BY DEF Typed, TypeOK
  <1>2. PICK next \in {"signal", "idle"} : caller' = [caller EXCEPT ![t] = next]
    BY DEF TaskEnds, Resume
  <1>3. AtWork' = AtWork \ {t} /\ t \in AtWork  BY <1>1, <1>2 DEF TaskEnds, AtWork, Callers
  <1>4. /\ IsFiniteSet(AtWork')
        /\ Cardinality(AtWork') = Cardinality(AtWork) - 1
        /\ Cardinality(AtWork) \in Nat /\ Cardinality(AtWork') \in Nat
    BY <1>3, FS_RemoveElement, FS_CardinalityType DEF PauseCounts
  <1>5. depth' = (IF depth > 0 THEN depth - 1 ELSE 0) /\ mgr' = mgr  BY DEF TaskEnds, Resume
  <1> QED  BY <1>1, <1>4, <1>5 DEF PauseCounts

\* A step of anybody but a user
LEMMA CountsKept ==
    ASSUME Typed, PauseCounts, [MCNext]_MCVars, scenario.callers \cap Users = {}
    PROVE  PauseCounts'
  <1>1. CASE \E t \in Tasks : TaskBegins(t)  BY <1>1, WorkBegins
  <1>2. CASE \E t \in Tasks : TaskEnds(t)  BY <1>2, WorkEnds
  <1>3. CASE \E t \in Tasks : Signal(t) \/ \E i \in Images : TaskSaves(t, i)
    <2>1. PICK t \in Tasks : Signal(t) \/ \E i \in Images : TaskSaves(t, i)  BY <1>3
    <2>2. caller \in [Callers -> {"idle", "working", "saved", "signal"}]  BY DEF Typed, TypeOK
    <2>3. \/ caller[t] = "signal" /\ caller' = [caller EXCEPT ![t] = "idle"]
          \/ caller[t] = "working" /\ caller' = [caller EXCEPT ![t] = "saved"]
      BY <2>1 DEF Signal, TaskSaves
    <2>4. AtWork' = AtWork  BY <2>2, <2>3 DEF AtWork, Callers
    <2> QED  BY <2>1, <2>4 DEF Signal, TaskSaves, PauseCounts
  <1>4. CASE StopScan
    BY <1>4 DEF StopScan, Stop, PauseCounts, AtWork, Typed, TypeOK, Manager
  <1>5. CASE UNCHANGED <<mgr, depth, caller>>  BY <1>5 DEF PauseCounts, AtWork
  <1>6. ~StopScan /\ ~(\E t \in Tasks : TaskBegins(t) \/ TaskStep(t)) => UNCHANGED <<mgr, depth, caller>>
    BY DEF MCNext, MCVars, vars, Tick, Scan, Fail, Read, Plan, Block, WindowOpens, RestOver, Count,
        Check, Wake, Find, AnsweredWithTags, Insert, QueryFails, AnsweredWithNone, Fails,
        FailsForGood, Record, LoopStops, SetSchedule, Notify, FileChanges
  <1> QED  BY <1>1, <1>2, <1>3, <1>4, <1>5, <1>6 DEF TaskStep

\* The scanner takes a further image only where it has seen no pause.
LEMMA LooksFirst ==
    ASSUME Typed, Next, loop'.pc = "find", loop.pc # "find"
    PROVE  depth = 0
  <1>1. loop \in LoopRecord /\ depth \in Nat  BY DEF Typed, TypeOK, LoopRecord
  <1>2. ~Tick /\ ~Read /\ ~Plan /\ ~Block /\ ~WindowOpens /\ ~RestOver /\ ~LoopStops
    BY <1>1 DEF Tick, Read, Plan, Block, WindowOpens, RestOver, LoopStops, LoopRecord
  <1>3. ~Count /\ ~Wake /\ ~Find /\ ~QueryFails
    BY <1>1 DEF Count, Wake, Resumed, Find, NoMore, QueryFails, LoopRecord
  <1>4. ~AnsweredWithTags /\ ~AnsweredWithNone /\ ~Insert /\ ~Fails /\ ~FailsForGood /\ ~Record
    BY <1>1 DEF AnsweredWithTags, AnsweredWithNone, Insert, Fails, FailsForGood, Record, Advance, LoopRecord
  <1>5. ~Notify /\ ~StopScan /\ ~(\E s \in Settings : SetSchedule(s)) /\ ~(\E i \in Images : FileChanges(i))
    BY <1>1 DEF Notify, Heard, StopScan, SetSchedule, FileChanges, LoopRecord
  <1>6. ~(\E t \in Tasks : TaskBegins(t) \/ TaskStep(t))
    BY <1>1 DEF TaskBegins, TaskStep, TaskEnds, TaskSaves, Signal
  <1>7. ~(\E u \in Users : UserPauses(u) \/ UserResumes(u) \/ Signal(u))
    BY <1>1 DEF UserPauses, UserResumes, Signal
  <1>8. CASE Check
    <2>1. loop.then # "find"  BY <1>1 DEF LoopRecord
    <2>2. paused => loop'.pc \in {loop.then, "paused"}
      <3>1. \A p : [loop EXCEPT !.pc = p].pc = p  BY <1>1 DEF LoopRecord
      <3> QED  BY <1>8, <3>1 DEF Check
    <2> QED  BY <1>1, <2>1, <2>2 DEF paused
  <1> QED  BY <1>2, <1>3, <1>4, <1>5, <1>6, <1>7, <1>8 DEF Next, Scan, Fail

LEMMA OneMoreKept ==
    ASSUME Typed, OneMore, [MCNext]_MCVars
    PROVE  OneMore'
  <1>1. depth \in Nat /\ depth' \in Nat
    <2>1. Typed'  BY StepTyped, ScenarioStep DEF MCVars, vars
    <2> QED  BY <2>1 DEF Typed, TypeOK
  <1>2. CASE UNCHANGED MCVars  BY <1>2 DEF MCVars, vars, OneMore
  <1>3. CASE MCNext
    <2>1. begun' = IF PauseBegins \/ depth' = 0 THEN 0 ELSE IF Takes THEN begun + 1 ELSE begun
      BY <1>3 DEF MCNext
    <2>2. CASE PauseBegins \/ depth' = 0  BY <2>1, <2>2 DEF OneMore
    <2>3. CASE ~PauseBegins /\ depth' # 0 /\ Takes
      <3>1. begun = 0 /\ begun' = 1 /\ loop'.pc # "find"  BY <2>1, <2>3 DEF OneMore, Takes
      <3> QED  BY <1>1, <2>3, <3>1 DEF OneMore
    <2>4. CASE ~PauseBegins /\ depth' # 0 /\ ~Takes
      <3>1. depth > 0  BY <1>1, <2>4 DEF PauseBegins
      <3>2. loop.pc # "find" => loop'.pc # "find"
        BY <1>1, <1>3, <3>1, LooksFirst, ScenarioStep
      <3> QED  BY <1>1, <2>1, <2>4, <3>2 DEF OneMore
    <2> QED  BY <2>2, <2>3, <2>4
  <1> QED  BY <1>2, <1>3

\* While AI tasks are at work, and no user resumes the scanner for them, it is
\* held; and in a pause it takes one more image at most, however late a token of
\* an earlier pause arrives (RequestPause, Resume, scanWindow).
THEOREM PausesAreKept == MCSpec => []PausesHold
  <1> DEFINE Inv == /\ Typed /\ OneMore
                    /\ scenario.callers \cap Users = {} => PauseCounts
  <1>1. MCInit => Inv
    <2> SUFFICES ASSUME MCInit PROVE Inv  OBVIOUS
    <2>1. AtWork = {}  BY DEF MCInit, Init, AtWork, Callers
    <2>2. PauseCounts  BY <2>1, FS_EmptySet DEF MCInit, Init, PauseCounts
    <2> QED  BY <2>2, InitTyped DEF MCInit, OneMore
  <1>2. Inv /\ [MCNext]_MCVars => Inv'
    <2> SUFFICES ASSUME Inv, [MCNext]_MCVars PROVE Inv'  OBVIOUS
    <2>1. [Next]_vars /\ scenario' = scenario  BY ScenarioStep DEF MCVars
    <2> QED  BY <2>1, StepTyped, CountsKept, OneMoreKept
  <1>3. Inv => PausesHold
    BY DEF PausesHold, PauseCounts, AtWork, TasksHoldScanner, OneMore
  <1> QED  BY <1>1, <1>2, <1>3, PTL DEF MCSpec

-------------------------------------------------------------------------------
(* Windows *)

\* The window opens at the schedule's start on every day it opens on.
Regular(s) == s.start < s.end \/ s.start = 0

\* Before the moment m to come, no minute is in the window any more.
NoneBefore(s, m, t) ==
    /\ m.ahead \in 0 .. 7 /\ m.minute \in Minutes
    /\ HasCome(m, t) \/
       \A n \in 0 .. m.ahead, x \in Minutes :
          /\ DayAhead(t, n) \in s.days
          /\ n = 0 => t.minute <= x
          /\ n = m.ahead => x < m.minute
         => ~WithinBounds(s, x)

LEMMA OpeningIsNext ==
    ASSUME NEW s \in Schedules, NEW t \in Instants, s.days # {}, Regular(s),
           ~IsWindowOpenAt(s, t)
    PROVE  NoneBefore(s, NextOpeningAt(s, t), t)
  <1> DEFINE m == NextOpeningAt(s, t)
  <1>1. PICK k \in 0 .. 7 : /\ m = [ahead |-> k, minute |-> s.start]
                            /\ OpensAhead(s, t, k)
                            /\ \A n \in 0 .. k - 1 : ~OpensAhead(s, t, n)
    BY NextOpening
  <1>2. m.ahead = k /\ m.minute = s.start  BY <1>1
  <1> HIDE DEF m
  <1>3. s.start \in Nat /\ s.end \in Nat /\ t.minute \in Nat /\ s.start \in Minutes
    BY DayLengthOK DEF Schedules, Instants, Minutes
  <1>4. ASSUME NEW n \in 0 .. k, NEW x \in Minutes, DayAhead(t, n) \in s.days,
               n = 0 => t.minute <= x, n = k => x < s.start
        PROVE  ~WithinBounds(s, x)
    <2>1. x \in Nat  BY DayLengthOK DEF Minutes
    <2>2. CASE n = k  BY <1>3, <1>4, <2>1, <2>2 DEF WithinBounds, Regular
    <2>3. CASE n < k
      <3>1. n \in 0 .. k - 1  BY <2>3
      <3>2. n = 0 /\ s.start <= t.minute  BY <1>1, <1>3, <1>4, <3>1 DEF OpensAhead
      <3>3. DayAhead(t, 0) = t.day  BY DEF DayAhead, Instants, Weekdays
      <3>4. ~WithinBounds(s, t.minute)  BY <1>4, <3>2, <3>3 DEF IsWindowOpenAt
      <3>5. s.start < s.end /\ s.end < t.minute  BY <1>3, <3>2, <3>4 DEF WithinBounds, Regular
      <3> QED  BY <1>3, <1>4, <2>1, <3>2, <3>5 DEF WithinBounds
    <2> QED  BY <2>2, <2>3
  <1>5. NoneBefore(s, m, t)  BY <1>2, <1>3, <1>4 DEF NoneBefore
  <1> QED  BY <1>5 DEF m

LEMMA TimeGoesOn ==
    ASSUME NEW s \in Schedules, NEW t \in Instants, NEW m \in Moments, NoneBefore(s, m, t)
    PROVE  NoneBefore(s, Approached(m, t), Later(t))
  <1>1. m.ahead \in 0 .. 7 /\ m.minute \in Minutes /\ m # Never /\ m \in [ahead : 0 .. 7, minute : Minutes]
    BY DEF NoneBefore, Never, Moments
  <1>2. t.minute \in Nat /\ t.day \in 0 .. 6 /\ t \in [day : 0 .. 6, minute : Minutes]
    BY DayLengthOK DEF Instants, Minutes, Weekdays
  <1>3. Minutes \subseteq Nat /\ \A x \in Minutes : x <= DayLength - 1  BY DayLengthOK DEF Minutes
  <1>4. CASE t.minute < DayLength - 1
    <2>1. Approached(m, t) = m  BY <1>4 DEF Approached
    <2>2. Later(t).day = t.day /\ Later(t).minute = t.minute + 1  BY <1>2, <1>4 DEF Later
    <2>3. CASE HasCome(m, t)
      <3>1. m.minute \in Nat  BY <1>1, <1>3
      <3>2. HasCome(m, Later(t))  BY <1>2, <2>2, <2>3, <3>1 DEF HasCome
      <3> QED  BY <1>1, <2>1, <3>2 DEF NoneBefore
    <2>4. CASE ~HasCome(m, t)
      <3>1. ASSUME NEW n \in 0 .. m.ahead, NEW x \in Minutes,
                   DayAhead(Later(t), n) \in s.days, n = 0 => Later(t).minute <= x,
                   n = m.ahead => x < m.minute
            PROVE  ~WithinBounds(s, x)
        <4>1. DayAhead(t, n) \in s.days  BY <2>2, <3>1 DEF DayAhead
        <4>2. n = 0 => t.minute <= x  BY <1>2, <1>3, <2>2, <3>1
        <4> QED  BY <2>4, <3>1, <4>1, <4>2 DEF NoneBefore
      <3> QED  BY <1>1, <2>1, <3>1 DEF NoneBefore
    <2> QED  BY <2>3, <2>4
  <1>5. CASE ~(t.minute < DayLength - 1)
    <2>1. t.minute = DayLength - 1  BY <1>2, <1>5, DayLengthOK DEF Instants, Minutes
    <2>2. Later(t) = [day |-> (t.day + 1) % 7, minute |-> 0]  BY <1>5 DEF Later
    <2>3. CASE m.ahead = 0
      <3>1. Approached(m, t) = [m EXCEPT !.minute = 0]  BY <1>1, <1>5, <2>3 DEF Approached
      <3>2. Approached(m, t).ahead = 0 /\ Approached(m, t).minute = 0  BY <1>1, <2>3, <3>1
      <3>3. HasCome(Approached(m, t), Later(t))  BY <2>2, <3>2 DEF HasCome
      <3> QED  BY <3>2, <3>3, DayLengthOK DEF NoneBefore, Minutes
    <2>4. CASE m.ahead # 0
      <3>1. Approached(m, t) = [m EXCEPT !.ahead = m.ahead - 1]  BY <1>1, <1>5, <2>4 DEF Approached
      <3>2. Approached(m, t).ahead = m.ahead - 1 /\ Approached(m, t).minute = m.minute
        BY <1>1, <3>1
      <3>3. ~HasCome(m, t)  BY <2>4 DEF HasCome
      <3>4. ASSUME NEW n \in 0 .. m.ahead - 1, NEW x \in Minutes,
                   DayAhead(Later(t), n) \in s.days, n = m.ahead - 1 => x < m.minute
            PROVE  ~WithinBounds(s, x)
        <4>1. DayAhead(Later(t), n) = DayAhead(t, n + 1)
          <5>1. Later(t).day = (t.day + 1) % 7  BY <2>2
          <5>2. n \in Nat  OBVIOUS
          <5>3. (((t.day + 1) % 7) + n) % 7 = (t.day + (n + 1)) % 7  BY <1>2, <5>2
          <5> QED  BY <5>1, <5>3 DEF DayAhead
        <4>2. n + 1 \in 0 .. m.ahead /\ n + 1 # 0 /\ (n + 1 = m.ahead => x < m.minute)
          BY <1>1, <3>4
        <4> QED  BY <3>3, <3>4, <4>1, <4>2 DEF NoneBefore
      <3>5. m.ahead - 1 \in 0 .. 7  BY <1>1, <2>4
      <3> QED  BY <1>1, <3>2, <3>4, <3>5 DEF NoneBefore
    <2> QED  BY <2>3, <2>4
  <1> QED  BY <1>4, <1>5

LEMMA NoneMissed ==
    ASSUME NEW s \in Schedules, NEW t \in Instants, NEW m, NoneBefore(s, m, t),
           IsWindowOpenAt(s, t)
    PROVE  HasCome(m, t)
  <1> SUFFICES ASSUME ~HasCome(m, t) PROVE FALSE  OBVIOUS
  <1>1. t.minute \in Minutes /\ DayAhead(t, 0) = t.day  BY DEF Instants, DayAhead, Weekdays
  <1>2. m.ahead \in 0 .. 7 /\ m.minute \in Nat /\ t.minute \in Nat
    BY <1>1, DayLengthOK DEF NoneBefore, Minutes
  <1>3. 0 \in 0 .. m.ahead /\ (0 = m.ahead => t.minute < m.minute)  BY <1>2 DEF HasCome
  <1> QED  BY <1>1, <1>2, <1>3 DEF NoneBefore, IsWindowOpenAt

\* Where the loop plans, the window of the schedule it has read is closed; from
\* then on until it wakes, its timer is set to the next opening.
Asleep ==
    /\ loop.pc = "plan" =>
          schedule = loop.seen /\ schedule.days # {} /\ ~IsWindowOpenAt(schedule, clock)
    /\ loop.pc \in {"to sleep", "sleep"} /\ Regular(loop.seen) =>
          NoneBefore(loop.seen, loop.timer, clock)

LEMMA PlanningKept ==
    ASSUME Typed, Asleep, Read \/ Plan \/ Block \/ WindowOpens \/ RestOver \/ LoopStops
    PROVE  Asleep'
  <1>1. loop \in LoopRecord /\ schedule \in Settings /\ clock \in Instants
    BY DEF Typed, TypeOK, LoopRecord
  <1>2. Settings \subseteq Schedules  BY ConstantsOK
  <1>3. UNCHANGED <<schedule, clock>>
    BY DEF Read, Plan, Block, WindowOpens, RestOver, LoopStops
  <1>4. CASE Read
    <2>1. loop'.seen = schedule /\ loop'.pc \in {"to off", "count", "plan"}
      BY <1>1, <1>4 DEF Read, LoopRecord
    <2>2. loop'.pc = "plan" => schedule.days # {} /\ ~IsWindowOpenAt(schedule, clock)
      <3>1. \A p : [loop EXCEPT !.seen = schedule, !.then = "rest", !.pc = p].pc = p
        BY <1>1 DEF LoopRecord
      <3> QED  BY <1>4, <3>1 DEF Read
    <2> QED  BY <1>3, <2>1, <2>2 DEF Asleep
  <1>5. CASE Plan
    <2>1. loop'.pc = "to sleep" /\ loop'.seen = loop.seen /\ loop'.timer = NextOpeningAt(schedule, clock)
      BY <1>1, <1>5 DEF Plan, LoopRecord
    <2>2. schedule = loop.seen /\ schedule.days # {} /\ ~IsWindowOpenAt(schedule, clock)
      BY <1>5 DEF Plan, Asleep
    <2>3. Regular(schedule) => NoneBefore(schedule, NextOpeningAt(schedule, clock), clock)
      BY <1>1, <1>2, <2>2, OpeningIsNext
    <2> QED  BY <1>3, <2>1, <2>2, <2>3 DEF Asleep
  <1>6. CASE Block
    <2>1. /\ (loop.pc = "to sleep" /\ loop'.pc = "sleep") \/ loop'.pc = "off"
          /\ loop'.seen = loop.seen /\ loop'.timer = loop.timer
      BY <1>1, <1>6 DEF Block, LoopRecord
    <2> QED  BY <1>3, <2>1 DEF Asleep
  <1>7. CASE WindowOpens \/ RestOver \/ LoopStops
    <2>1. loop'.pc \in {"count", "read", "done"}
      BY <1>1, <1>7 DEF WindowOpens, RestOver, LoopStops, LoopRecord
    <2> QED  BY <2>1 DEF Asleep
  <1> QED  BY <1>4, <1>5, <1>6, <1>7

LEMMA AsleepKept ==
    ASSUME Typed, Asleep, [MCNext]_MCVars
    PROVE  Asleep'
  <1>1. loop \in LoopRecord /\ schedule \in Settings /\ clock \in Instants
    BY DEF Typed, TypeOK, LoopRecord
  <1>2. Settings \subseteq Schedules  BY ConstantsOK
  <1>3. CASE Read \/ Plan \/ Block \/ WindowOpens \/ RestOver \/ LoopStops  BY <1>3, PlanningKept
  <1>4. CASE loop.pc # "plan" /\ Tick
    <2>1. /\ loop'.pc = loop.pc /\ loop'.seen = loop.seen /\ clock' = Later(clock)
          /\ loop'.timer = Approached(loop.timer, clock)
      BY <1>1, <1>4 DEF Tick, LoopRecord
    <2>2. loop.seen \in Schedules /\ loop.timer \in Moments  BY <1>1, <1>2 DEF LoopRecord
    <2> QED  BY <1>1, <1>4, <2>1, <2>2, TimeGoesOn DEF Asleep
  <1>5. CASE loop.pc \notin {"to off", "plan", "to sleep"} /\ \E s \in Settings : SetSchedule(s)
    BY <1>5 DEF SetSchedule, Asleep
  <1>6. CASE Notify
    <2>1. loop' = loop \/ loop'.pc = "read"  BY <1>1, <1>6 DEF Notify, Heard, LoopRecord
    <2> QED  BY <1>6, <2>1 DEF Notify, Asleep
  <1>7. CASE \/ Count \/ Check \/ Wake \/ Find \/ AnsweredWithTags \/ Insert \/ Fail
    <2> DEFINE Elsewhere(p) == p \notin {"plan", "to sleep", "sleep"}
    <2>1. Elsewhere(loop.then)  BY <1>1 DEF LoopRecord
    <2>2. Count \/ Wake \/ QueryFails => Elsewhere(loop'.pc)
      BY <1>1, <2>1 DEF Count, Wake, Resumed, QueryFails, LoopRecord
    <2>3. Find => Elsewhere(loop'.pc)
      <3>1. \A i : [loop EXCEPT !.pc = "call", !.image = i].pc = "call"  BY <1>1 DEF LoopRecord
      <3>2. [loop EXCEPT !.pc = loop.then].pc = loop.then  BY <1>1 DEF LoopRecord
      <3> QED  BY <2>1, <3>1, <3>2 DEF Find, NoMore
    <2>4. Check => Elsewhere(loop'.pc)
      <3>1. \A p : [loop EXCEPT !.pc = p].pc = p  BY <1>1 DEF LoopRecord
      <3>2. SUFFICES ASSUME Check PROVE Elsewhere(loop'.pc)  OBVIOUS
      <3>3. loop'.pc \in {loop.then, "paused", "find"}  BY <3>1, <3>2 DEF Check
      <3> QED  BY <2>1, <3>3
    <2>5. AnsweredWithTags \/ FailsForGood => Elsewhere(loop'.pc)
      BY <1>1 DEF AnsweredWithTags, FailsForGood, LoopRecord
    <2>6. AnsweredWithNone \/ Insert \/ Fails \/ Record => Elsewhere(loop'.pc)
      <3>1. Advance => Elsewhere(loop'.pc)  BY <1>1 DEF Advance, LoopRecord
      <3> HIDE DEF Elsewhere
      <3> QED  BY <3>1 DEF AnsweredWithNone, Insert, Fails, Record
    <2>7. Elsewhere(loop'.pc)
      <3> HIDE DEF Elsewhere
      <3> QED  BY <1>7, <2>2, <2>3, <2>4, <2>5, <2>6 DEF Fail
    <2> QED  BY <2>7 DEF Asleep
  <1>8. CASE UNCHANGED <<loop, schedule, clock>>  BY <1>8 DEF Asleep
  <1>9. ASSUME NEW t \in Tasks, TaskBegins(t) \/ TaskStep(t) PROVE UNCHANGED <<loop, schedule, clock>>
    BY <1>9 DEF TaskBegins, TaskStep, TaskEnds, TaskSaves, Signal
  <1>10. ASSUME NEW u \in Users, UserPauses(u) \/ UserResumes(u) \/ Signal(u)
         PROVE  UNCHANGED <<loop, schedule, clock>>
    BY <1>10 DEF UserPauses, UserResumes, Signal
  <1>11. StopScan \/ (\E i \in Images : FileChanges(i)) \/ UNCHANGED MCVars
            => UNCHANGED <<loop, schedule, clock>>
    BY DEF StopScan, FileChanges, MCVars, vars
  <1> QED
    BY <1>3, <1>4, <1>5, <1>6, <1>7, <1>8, <1>9, <1>10, <1>11 DEF MCNext, Scan

-------------------------------------------------------------------------------
(* Counts *)

Ahead(c) == {i \in Untagged : i > c}

\* The photos taken and those that a pass may still take are no more than it
\* counted.
Counting ==
    /\ CountIsKept
    /\ loop.pc \in {"check", "paused", "find"} =>
          progress.scanned + Cardinality(Ahead(loop.cursor)) <= progress.total
    /\ loop.pc \in AtImage =>
          progress.scanned + 1 + Cardinality(Ahead(loop.image)) <= progress.total

LEMMA AheadFinite ==
    ASSUME NEW c PROVE IsFiniteSet(Ahead(c)) /\ Cardinality(Ahead(c)) \in Nat
  BY UntaggedFinite, FS_Subset, FS_CardinalityType DEF Ahead

\* Nothing but a change of its file makes a photo untagged that the pass has
\* yet to come to.
LEMMA OnlyFewerUntagged ==
    ASSUME Typed, MCNext, "change" \notin scenario.may
    PROVE  \/ Untagged' \subseteq Untagged
           \/ loop.pc = "call" /\ Untagged' \subseteq Untagged \cup {loop.image}
  <1> USE DEF Untagged
  <1>1. CASE UNCHANGED gallery  BY <1>1
  <1>2. CASE AnsweredWithTags \/ AnsweredWithNone
    BY <1>2 DEF AnsweredWithTags, AnsweredWithNone
  <1>3. CASE Insert  BY <1>3 DEF Insert
  <1>4. CASE Record  BY <1>4 DEF Record
  <1>5. ASSUME NEW t \in Tasks, TaskBegins(t) \/ TaskStep(t) PROVE Untagged' \subseteq Untagged
    BY <1>5 DEF TaskBegins, TaskStep, TaskEnds, TaskSaves, Signal
  <1>6. ASSUME NEW u \in Users, UserPauses(u) \/ UserResumes(u) \/ Signal(u)
        PROVE  UNCHANGED gallery
    BY <1>6 DEF UserPauses, UserResumes, Signal
  <1>7. Tick \/ Read \/ Plan \/ Block \/ WindowOpens \/ RestOver \/ Count \/ Check \/ Wake
            \/ Find \/ QueryFails \/ Fails \/ FailsForGood \/ LoopStops \/ Notify \/ StopScan
            \/ (\E s \in Settings : SetSchedule(s)) => UNCHANGED gallery
    BY DEF Tick, Read, Plan, Block, WindowOpens, RestOver, Count, Check, Wake, Find, QueryFails,
        Fails, FailsForGood, LoopStops, SetSchedule, Notify, StopScan
  <1> QED  BY <1>1, <1>2, <1>3, <1>4, <1>5, <1>6, <1>7 DEF MCNext, Scan, Fail

\* The untagged photos ahead of c do not become more unless c is behind the
\* one at work.
LEMMA FewerAhead ==
    ASSUME NEW c, Untagged' \subseteq Untagged \/ Untagged' \subseteq Untagged \cup {c}, c \in Nat
    PROVE  /\ IsFiniteSet({i \in Untagged' : i > c})
           /\ Cardinality({i \in Untagged' : i > c}) <= Cardinality(Ahead(c))
           /\ Cardinality({i \in Untagged' : i > c}) \in Nat
  <1>1. {i \in Untagged' : i > c} \subseteq Ahead(c)  BY DEF Ahead
  <1> QED  BY <1>1, AheadFinite, FS_Subset, FS_CardinalityType

\* What a step does to the pass: a new count, an image taken, an image done
\* with, or none of these.
LEMMA PassStep ==
    ASSUME Typed, Next
    PROVE  \/ /\ Count /\ loop'.cursor = 0
              /\ progress' = [total |-> Cardinality(Untagged), scanned |-> 0]
           \/ Find /\ loop'.pc = "call"
           \/ /\ loop.pc \in AtImage /\ loop'.pc = "check" /\ loop'.cursor = loop.image
              /\ progress' = [progress EXCEPT !.scanned = @ + 1]
           \/ /\ loop'.cursor = loop.cursor /\ loop'.image = loop.image /\ UNCHANGED progress
              /\ \/ loop'.pc = loop.pc
                 \/ loop.pc \in {"check", "paused"} /\ loop'.pc \in {"check", "paused", "find"}
                 \/ loop.pc = "call" /\ loop'.pc \in AtImage
                 \/ loop'.pc \notin {"check", "paused", "find"} \cup AtImage
  <1>1. loop \in LoopRecord  BY DEF Typed, TypeOK, LoopRecord
  <1> DEFINE Outside(p) == p \notin {"check", "paused", "find"} \cup AtImage
             Still == loop'.cursor = loop.cursor /\ loop'.image = loop.image /\ UNCHANGED progress
             Done1 == /\ loop.pc \in AtImage /\ loop'.pc = "check" /\ loop'.cursor = loop.image
                      /\ progress' = [progress EXCEPT !.scanned = @ + 1]
  <1>2. Outside(loop.then)  BY <1>1 DEF LoopRecord, AtImage
  <1>3. CASE Tick \/ WindowOpens \/ RestOver \/ LoopStops \/ QueryFails \/ Plan
    BY <1>1, <1>2, <1>3 DEF Tick, WindowOpens, RestOver, LoopStops, QueryFails, Plan, LoopRecord, AtImage
  <1>4. CASE Read \/ Block
    <2>1. Still  BY <1>1, <1>4 DEF Read, Block, LoopRecord
    <2>2. loop'.pc \in {"to off", "count", "plan", "off", "sleep"}
      BY <1>1, <1>4 DEF Read, Block, LoopRecord
    <2> QED  BY <2>1, <2>2 DEF AtImage
  <1>5. CASE Count
    <2>1. CASE Untagged = {}  BY <1>1, <1>2, <1>5, <2>1 DEF Count, LoopRecord
    <2>2. CASE Untagged # {}  BY <1>1, <1>5, <2>2 DEF Count, LoopRecord
    <2> QED  BY <2>1, <2>2
  <1>6. CASE Check
    <2>1. \A p : /\ [loop EXCEPT !.pc = p].pc = p
                 /\ [loop EXCEPT !.pc = p].cursor = loop.cursor
                 /\ [loop EXCEPT !.pc = p].image = loop.image
      BY <1>1 DEF LoopRecord
    <2>2. Still /\ loop.pc = "check"  BY <1>6, <2>1 DEF Check
    <2>3. loop'.pc \in {loop.then, "paused", "find"}  BY <1>6, <2>1 DEF Check
    <2> QED  BY <1>2, <2>2, <2>3
  <1>7. CASE Wake  BY <1>1, <1>7 DEF Wake, Resumed, LoopRecord
  <1>8. CASE Find
    <2>1. \A i : [loop EXCEPT !.pc = "call", !.image = i].pc = "call"  BY <1>1 DEF LoopRecord
    <2>2. CASE AfterCursor # {}  BY <1>8, <2>1, <2>2 DEF Find
    <2>3. CASE AfterCursor = {}  BY <1>1, <1>2, <1>8, <2>3 DEF Find, NoMore, LoopRecord
    <2> QED  BY <2>2, <2>3
  <1>9. CASE AnsweredWithTags \/ FailsForGood
    BY <1>1, <1>9 DEF AnsweredWithTags, FailsForGood, LoopRecord, AtImage
  <1>10. CASE AnsweredWithNone \/ Insert \/ Fails \/ Record
    <2>1. Advance /\ loop.pc \in AtImage
      BY <1>10 DEF AnsweredWithNone, Insert, Fails, Record, AtImage
    <2> QED  BY <1>1, <2>1 DEF Advance, LoopRecord
  <1>11. CASE Notify  BY <1>1, <1>11 DEF Notify, Heard, LoopRecord, AtImage
  <1>12. CASE StopScan \/ (\E i \in Images : FileChanges(i)) \/ (\E s \in Settings : SetSchedule(s))
    BY <1>12 DEF StopScan, FileChanges, SetSchedule
  <1>13. ASSUME NEW t \in Tasks, TaskBegins(t) \/ TaskStep(t) PROVE UNCHANGED <<loop, progress>>
    BY <1>13 DEF TaskBegins, TaskStep, TaskEnds, TaskSaves, Signal
  <1>14. ASSUME NEW u \in Users, UserPauses(u) \/ UserResumes(u) \/ Signal(u)
         PROVE  UNCHANGED <<loop, progress>>
    BY <1>14 DEF UserPauses, UserResumes, Signal
  <1> QED
    BY <1>3, <1>4, <1>5, <1>6, <1>7, <1>8, <1>9, <1>10, <1>11, <1>12, <1>13, <1>14
    DEF Next, Scan, Fail

LEMMA CountingKept ==
    ASSUME Typed, Counting, [MCNext]_MCVars, "change" \notin scenario.may
    PROVE  Counting'
  <1>1. /\ loop.cursor \in Nat /\ loop.image \in Nat
        /\ progress.total \in Nat /\ progress.scanned \in Nat
        /\ progress \in [total : Nat, scanned : Nat]
    <2>1. Images \subseteq Nat  BY ConstantsOK
    <2>2. loop.cursor \in Images \cup {0} /\ loop.image \in Images \cup {0}  BY DEF Typed, TypeOK
    <2>3. progress \in [total : Nat, scanned : Nat]  BY DEF Typed, TypeOK
    <2>4. progress.total \in Nat /\ progress.scanned \in Nat  BY ONLY <2>3
    <2>5. \A c \in Images \cup {0} : c \in Nat  BY <2>1
    <2>6. loop.cursor \in Nat /\ loop.image \in Nat  BY ONLY <2>2, <2>5
    <2> QED  BY <2>3, <2>4, <2>6
  <1>2. CASE UNCHANGED MCVars
    BY <1>2 DEF MCVars, vars, Counting, CountIsKept, Ahead, Untagged
  <1>3. CASE MCNext
    <2> DEFINE More(c) == Cardinality({i \in Untagged' : i > c})
    <2>1. /\ loop.pc # "call" => Untagged' \subseteq Untagged
          /\ Untagged' \subseteq Untagged \/ Untagged' \subseteq Untagged \cup {loop.image}
      BY <1>3, OnlyFewerUntagged
    <2>2. /\ More(loop.image) \in Nat /\ Cardinality(Ahead(loop.image)) \in Nat
          /\ More(loop.image) <= Cardinality(Ahead(loop.image))
      BY <1>1, <2>1, FewerAhead, AheadFinite
    <2>3. loop.pc # "call" =>
              /\ More(loop.cursor) \in Nat /\ Cardinality(Ahead(loop.cursor)) \in Nat
              /\ More(loop.cursor) <= Cardinality(Ahead(loop.cursor))
      BY <1>1, <2>1, FewerAhead, AheadFinite
    <2>4. CASE Count /\ loop'.cursor = 0 /\ progress' = [total |-> Cardinality(Untagged), scanned |-> 0]
      <3>1. loop.pc = "count" /\ loop'.pc \notin AtImage
        <4>1. loop \in LoopRecord  BY DEF Typed, TypeOK, LoopRecord
        <4> QED  BY <2>4, <4>1 DEF Count, AtImage, LoopRecord
      <3>2. Untagged' = Untagged  BY <2>4 DEF Count, Untagged
      <3>3. Ahead(0) \subseteq Untagged  BY DEF Ahead
      <3>4. Cardinality(Ahead(0)) <= Cardinality(Untagged) /\ Cardinality(Untagged) \in Nat
            /\ Cardinality(Ahead(0)) \in Nat
        BY <3>3, UntaggedFinite, FS_Subset, FS_CardinalityType
      <3>5. Ahead(loop.cursor)' = Ahead(0)  BY <2>4, <3>2 DEF Ahead
      <3>6. progress'.total = Cardinality(Untagged) /\ progress'.scanned = 0  BY <2>4
      <3> QED  BY <3>1, <3>4, <3>5, <3>6 DEF Counting, CountIsKept
    <2>5. CASE Find /\ loop'.pc = "call"
      <3> DEFINE i == CHOOSE i \in AfterCursor : \A j \in AfterCursor : i <= j
      <3>1. AfterCursor # {} /\ loop'.image = i /\ loop.pc = "find"
        <4>1. loop \in LoopRecord  BY DEF Typed, TypeOK, LoopRecord
        <4>2. loop.then # "call"  BY <4>1 DEF LoopRecord
        <4>3. [loop EXCEPT !.pc = loop.then].pc = loop.then  BY <4>1 DEF LoopRecord
        <4>4. \A k : [loop EXCEPT !.pc = "call", !.image = k].image = k  BY <4>1 DEF LoopRecord
        <4> QED  BY <2>5, <4>2, <4>3, <4>4 DEF Find, NoMore
      <3>2. i \in AfterCursor  BY <3>1, FirstAfterCursor
      <3> HIDE DEF i
      <3>3. AfterCursor = Ahead(loop.cursor)  BY DEF AfterCursor, Ahead
      <3>4. i \in Nat /\ i > loop.cursor
        <4>1. Images \subseteq Nat  BY ConstantsOK
        <4>2. i \in Images /\ i > loop.cursor  BY <3>2 DEF AfterCursor, Untagged
        <4> QED  BY <4>1, <4>2
      <3>5. Untagged' = Untagged /\ UNCHANGED progress  BY <2>5 DEF Find, Untagged
      <3>6. Ahead(i) \subseteq Ahead(loop.cursor) \ {i}
        <4>1. Images \subseteq Nat /\ Untagged \subseteq Images  BY ConstantsOK DEF Untagged
        <4>2. ASSUME NEW j \in Untagged, j > i PROVE j > loop.cursor /\ j # i
          <5>1. j \in Nat /\ loop.cursor \in Nat  BY <1>1, <4>1
          <5> QED  BY ONLY <3>4, <4>2, <5>1
        <4> QED  BY <4>2 DEF Ahead
      <3>7. /\ Cardinality(Ahead(i)) <= Cardinality(Ahead(loop.cursor) \ {i})
            /\ Cardinality(Ahead(loop.cursor) \ {i}) = Cardinality(Ahead(loop.cursor)) - 1
            /\ Cardinality(Ahead(i)) \in Nat /\ Cardinality(Ahead(loop.cursor)) \in Nat
        <4>1. IsFiniteSet(Ahead(loop.cursor) \ {i})  BY AheadFinite, FS_Subset
        <4> QED  BY <3>2, <3>3, <3>6, <4>1, AheadFinite, FS_RemoveElement, FS_Subset
      <3>8. Ahead(loop.image)' = Ahead(i)  BY <3>1, <3>5 DEF Ahead
      <3>9. progress.scanned + Cardinality(Ahead(loop.cursor)) <= progress.total
        BY <3>1 DEF Counting
      <3>10. progress'.scanned + 1 + Cardinality(Ahead(loop.image)') <= progress'.total
        BY ONLY <1>1, <3>5, <3>7, <3>8, <3>9
      <3> QED  BY <2>5, <3>5, <3>10 DEF Counting, CountIsKept
    <2>6. CASE /\ loop.pc \in AtImage /\ loop'.pc = "check" /\ loop'.cursor = loop.image
               /\ progress' = [progress EXCEPT !.scanned = @ + 1]
      <3>1. progress'.scanned = progress.scanned + 1 /\ progress'.total = progress.total
        BY <1>1, <2>6
      <3>2. Ahead(loop.cursor)' = {i \in Untagged' : i > loop.image}  BY <2>6 DEF Ahead
      <3>3. progress.scanned + 1 + Cardinality(Ahead(loop.image)) <= progress.total
        BY <2>6 DEF Counting
      <3>4. /\ progress'.scanned + Cardinality(Ahead(loop.cursor)') <= progress'.total
            /\ progress'.scanned <= progress'.total
        BY ONLY <1>1, <2>2, <3>1, <3>2, <3>3
      <3> QED  BY <2>6, <3>4 DEF Counting, CountIsKept, AtImage
    <2>7. CASE /\ loop'.cursor = loop.cursor /\ loop'.image = loop.image /\ UNCHANGED progress
               /\ \/ loop'.pc = loop.pc
                  \/ loop.pc \in {"check", "paused"} /\ loop'.pc \in {"check", "paused", "find"}
                  \/ loop.pc = "call" /\ loop'.pc \in AtImage
                  \/ loop'.pc \notin {"check", "paused", "find"} \cup AtImage
      <3>1. CountIsKept'  BY <2>7 DEF Counting, CountIsKept
      <3>2. ASSUME loop'.pc \in {"check", "paused", "find"}
            PROVE  progress'.scanned + Cardinality(Ahead(loop.cursor)') <= progress'.total
        <4>1. loop.pc \in {"check", "paused", "find"}  BY <2>7, <3>2 DEF AtImage
        <4>2. progress.scanned + Cardinality(Ahead(loop.cursor)) <= progress.total
          BY <4>1 DEF Counting
        <4>3. Ahead(loop.cursor)' = {i \in Untagged' : i > loop.cursor}  BY <2>7 DEF Ahead
        <4>4. loop.pc # "call"  BY <4>1
        <4> QED  BY ONLY <1>1, <2>3, <2>7, <4>2, <4>3, <4>4
      <3>3. ASSUME loop'.pc \in AtImage
            PROVE  progress'.scanned + 1 + Cardinality(Ahead(loop.image)') <= progress'.total
        <4>1. loop.pc \in AtImage  BY <2>7, <3>3 DEF AtImage
        <4>2. progress.scanned + 1 + Cardinality(Ahead(loop.image)) <= progress.total
          BY <4>1 DEF Counting
        <4>3. Ahead(loop.image)' = {i \in Untagged' : i > loop.image}  BY <2>7 DEF Ahead
        <4> QED  BY ONLY <1>1, <2>2, <2>7, <4>2, <4>3
      <3> QED  BY <3>1, <3>2, <3>3 DEF Counting
    <2> QED  BY <1>3, <2>4, <2>5, <2>6, <2>7, PassStep, ScenarioStep
  <1> QED  BY <1>2, <1>3

\* No window is slept through of a schedule that opens at its start, and while
\* no file changes a pass takes no more images than it counted
\* (NextWindowOpenAt, scanWindow).
THEOREM WindowsAreKept == MCSpec => []WindowsAreUsed
  <1> DEFINE Inv == Typed /\ Asleep /\ ("change" \notin scenario.may => Counting)
  <1>1. MCInit => Inv
    <2> SUFFICES ASSUME MCInit PROVE Inv  OBVIOUS
    <2>1. Typed  BY InitTyped DEF MCInit
    <2>2. loop.pc = "read"  BY DEF MCInit, Init
    <2>3. CountIsKept  BY DEF MCInit, Init, CountIsKept
    <2> QED  BY <2>1, <2>2, <2>3 DEF Asleep, Counting, AtImage
  <1>2. Inv /\ [MCNext]_MCVars => Inv'
    <2> SUFFICES ASSUME Inv, [MCNext]_MCVars PROVE Inv'  OBVIOUS
    <2>1. [Next]_vars /\ scenario' = scenario  BY ScenarioStep DEF MCVars
    <2> QED  BY <2>1, StepTyped, AsleepKept, CountingKept
  <1>3. Inv => WindowsAreUsed
    <2> SUFFICES ASSUME Inv PROVE WindowsAreUsed  OBVIOUS
    <2>1. schedule \in Schedules /\ clock \in Instants  BY ConstantsOK DEF Typed, TypeOK
    <2>2. Regular(schedule) => NoWindowMissed
      BY <2>1, NoneMissed DEF Asleep, NoWindowMissed
    <2> QED  BY <2>2 DEF WindowsAreUsed, Regular, Counting, Typed
  <1> QED  BY <1>1, <1>2, <1>3, PTL DEF MCSpec
===============================================================================
