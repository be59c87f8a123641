---------------------------- MODULE Listings ----------------------------
(***************************************************************************)
(* What one page of a listing holds.  A row is a record of its id and of   *)
(* the time it is listed under: when the photo was taken (calendar), put   *)
(* into the trash (trash) or modified (gallery).  Times are ticks, of      *)
(* which SecondTicks make a second and DayTicks a day.  A cursor is a row  *)
(* too: the last one of the page before, its time cut to the second, for   *)
(* that is how EncodeCursor writes it.                                     *)
(***************************************************************************)
EXTENDS Integers, SequencesExt

CONSTANTS PageSize, SecondTicks, DayTicks

ASSUME ListingsAssumption ==
    /\ PageSize \in Nat \ {0}
    /\ SecondTicks \in Nat \ {0}
    /\ DayTicks \in Nat \ {0}

\* No cursor: a listing's first page is asked for, or its last one was given.
None == [id |-> 0, at |-> -1]

Day(t) == t \div DayTicks
SameDay(a, b) == Day(a.at) = Day(b.at)
Mark(row) == [row EXCEPT !.at = row.at - (row.at % SecondTicks)]

-----------------------------------------------------------------------------
(* Order *)

\* By time and then id, ascending or descending.
Precedes(order, a, b) ==
    IF order = "oldest" THEN a.at < b.at \/ (a.at = b.at /\ a.id < b.id)
                        ELSE a.at > b.at \/ (a.at = b.at /\ a.id > b.id)

InOrder(order, rows) == SetToSortSeq(rows, LAMBDA a, b : Precedes(order, a, b))

After(order, cursor, rows) ==
    IF cursor = None THEN rows ELSE {r \in rows : Precedes(order, cursor, r)}

FirstOf(n, s) == SubSeq(s, 1, IF n < Len(s) THEN n ELSE Len(s))

-----------------------------------------------------------------------------
(* Calendar and trash: pages that are not to split a day *)

\* One row more than a page tells whether there is another page and whether
\* the page ends inside a day.
Found(order, cursor, rows) == FirstOf(PageSize + 1, InOrder(order, After(order, cursor, rows)))

Overflows(found) == Len(found) > PageSize
SplitsDay(found) == Overflows(found) /\ SameDay(found[PageSize], found[PageSize + 1])
Kept(found) == FirstOf(PageSize, found)

\* The calendar completes the day with the photos whose id comes after the
\* last one's.  On every page but the first the query is the one that found
\* the page: its bound and its limit are still on it.
RestOfCalendarDay(order, cursor, last, rows) ==
    LET rest == {r \in After(order, cursor, rows) :
                    /\ SameDay(r, last)
                    /\ IF order = "oldest" THEN r.id > last.id ELSE r.id < last.id}
    IN  IF cursor = None THEN InOrder(order, rest)
                         ELSE FirstOf(PageSize + 1, InOrder(order, rest))

\* The trash completes it with the items that come after the last one.
RestOfTrashDay(last, rows) ==
    InOrder("newest", {r \in After("newest", last, rows) : SameDay(r, last)})

\* A page that overflowed is followed by one after its last row.
NextCursor(found, page) == IF Overflows(found) THEN Mark(Last(page)) ELSE None

-----------------------------------------------------------------------------
(* Jumping to a day in the calendar *)

\* The id before the day's least, at the day's beginning; with no photo on the
\* day the next one after it, or else the last one before it.
Seek(day, rows) ==
    LET that == {r \in rows : Day(r.at) = day}
        next == InOrder("oldest", {r \in rows : r.at > day * DayTicks})
        back == SetToSortSeq({r \in rows : r.at < day * DayTicks},
                             LAMBDA a, b : a.at > b.at \/ (a.at = b.at /\ a.id < b.id))
    IN  CASE that # {} -> [at |-> day * DayTicks,
                           id |-> (CHOOSE r \in that : \A q \in that : r.id <= q.id).id - 1]
          [] that = {} /\ next # <<>> -> Mark(Head(next))
          [] that = {} /\ next = <<>> /\ back # <<>> -> Mark(Head(back))
          [] OTHER -> None

-----------------------------------------------------------------------------
(* Numbered pages *)

TotalPages(total) == IF total = 0 THEN 1 ELSE (total + PageSize - 1) \div PageSize
HasNextPage(page, total) == page < TotalPages(total)

PageOf(s, page) ==
    LET offset == (page - 1) * PageSize
    IN  FirstOf(PageSize, SubSeq(s, offset + 1, Len(s)))

\* Rows in the order of their times only: equal times come in any order.
ByTime(order, rows) ==
    {s \in SetToSeqs(rows) :
        \A i, j \in 1 .. Len(s) :
            i < j => IF order = "oldest" THEN s[i].at <= s[j].at ELSE s[i].at >= s[j].at}

\* A cluster's photos are cut into pages as they were stored, the last page
\* standing for those after it.
ClusterPage(photos, page) ==
    PageOf(photos, IF page > TotalPages(Len(photos)) THEN TotalPages(Len(photos)) ELSE page)

\* The answer has as many places as the page has photos that still exist, and
\* each goes to its place in the page: a later one may have none.
Misses(slice, live) ==
    LET there == {i \in 1 .. Len(slice) : slice[i] \in live}
    IN  \E i \in there : i > Cardinality(there)
=============================================================================
