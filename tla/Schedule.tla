------------------------------- MODULE Schedule -------------------------------
(***************************************************************************)
(* The stored schedule of a recurring background job: when its window is   *)
(* open and when it opens next (backend/core/internal/domain/schedule.go). *)
(*                                                                         *)
(* An instant is a weekday and a time of day on the user's wall clock; a   *)
(* day has DayLength minutes.  A moment to come is a number of days ahead  *)
(* of the clock and a time of that day.                                    *)
(***************************************************************************)
EXTENDS Integers

CONSTANT DayLength  \* minutes of a day

ASSUME DayLengthOK == DayLength \in Nat \ {0}

Weekdays == 0 .. 6
Minutes == 0 .. DayLength - 1
Instants == [day : Weekdays, minute : Minutes]

Schedules == [enabled : BOOLEAN, days : SUBSET Weekdays, start : Minutes, end : Minutes]

\* The moment of a schedule without weekdays: a hundred years ahead
Never == [ahead |-> -1, minute |-> 0]
Moments == [ahead : 0 .. 7, minute : Minutes] \cup {Never}

DayAhead(t, n) == (t.day + n) % 7

\* Equal bounds are a whole day; a window that ends before it starts runs
\* over midnight.
WithinBounds(s, m) ==
    \/ s.start = s.end
    \/ s.start < s.end /\ s.start <= m /\ m <= s.end
    \/ s.start > s.end /\ (s.start <= m \/ m <= s.end)

IsWindowOpenAt(s, t) == t.day \in s.days /\ WithinBounds(s, t.minute)

\* mutant: today's opening is not considered
FromTomorrow(s, t, n) == n >= 1 /\ DayAhead(t, n) \in s.days

\* The start of the window n days ahead of t is an opening that t is before.
OpensAhead(s, t, n) ==
    /\ DayAhead(t, n) \in s.days
    /\ n = 0 => s.start > t.minute

NextOpeningAt(s, t) ==
    IF s.days = {} THEN Never
    ELSE [ahead |-> CHOOSE n \in 0 .. 7 :
                        /\ OpensAhead(s, t, n)
                        /\ \A m \in 0 .. n - 1 : ~OpensAhead(s, t, m),
          minute |-> s.start]

-------------------------------------------------------------------------------
(* The clock, and moments as it advances *)

Later(t) ==
    IF t.minute < DayLength - 1
    THEN [t EXCEPT !.minute = @ + 1]
    ELSE [day |-> (t.day + 1) % 7, minute |-> 0]

\* mutant: a moment that has come is a day overdue after midnight
Overdue(m, t) ==
    IF m = Never \/ t.minute < DayLength - 1 THEN m
    ELSE [m EXCEPT !.ahead = @ - 1]

\* A moment seen one minute later; one that has come stays so over midnight.
Approached(m, t) ==
    IF m = Never \/ t.minute < DayLength - 1 THEN m
    ELSE IF m.ahead = 0 THEN [m EXCEPT !.minute = 0]
    ELSE [m EXCEPT !.ahead = @ - 1]

HasCome(m, t) == m.ahead = 0 /\ m.minute <= t.minute
===============================================================================
