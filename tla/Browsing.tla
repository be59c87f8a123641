---------------------------- MODULE Browsing ----------------------------
(***************************************************************************)
(* A reader of the web application scrolls through a listing page by page  *)
(* while the library changes: the calendar and the trash by cursor, the    *)
(* gallery, the photos lacking EXIF data and the photos of a map cluster   *)
(* by page number, and the EXIF service's calendar by its own cursor.      *)
(* Pages are those of Listings; requests and answers travel one by one,    *)
(* and a change of the view leaves the requests of the former one under    *)
(* way.                                                                    *)
(***************************************************************************)
EXTENDS Listings

CONSTANTS Views,      \* what can be looked at: kind, order, first and last day, cluster
          Times,      \* the times photos are listed under
          Days,       \* the days a reader jumps to
          Clusters,   \* the clusters of the map
          MaxId,      \* bound on photos ever listed
          MaxChanges, \* bound on changes of the library
          MaxViews    \* bound on the views a reader opens

Undated == -1

VARIABLES rows,       \* the listed rows: id -> time, Undated without a date
          lastId,     \* the last id given
          changes,    \* changes of the library so far
          stored,     \* ClusterStorage: cluster -> its photos' ids, the map of whoever asked last
          view,       \* what the reader looks at
          generation, \* generationRef: the view's number
          loading,    \* loadingRef
          cursor,     \* nextCursorRef (or the cursor of a jump)
          page,       \* pageRef
          more,       \* hasMore
          shown,      \* the rows shown, in order
          broken,     \* the view has failed to merge a page
          requests,   \* page requests under way, one per generation at most
          seeking     \* the jump under way

libraryVars == <<rows, lastId, changes, stored>>
readerVars == <<view, generation, loading, cursor, page, more, shown, broken>>
browsingVars == <<libraryVars, readerVars, requests, seeking>>

ByCursor == {"calendar", "trash", "service"}

NoSeek == [stage |-> "idle", day |-> 0, cursor |-> None]

Request(v, g, c, n) ==
    [view |-> v, gen |-> g, cursor |-> c, page |-> n, stage |-> "sent",
     total |-> 0, found |-> <<>>, items |-> <<>>, next |-> None, hasNext |-> FALSE]

-----------------------------------------------------------------------------
(* The rows of a view *)

Row(p) == [id |-> p, at |-> rows[p]]
Listed == {Row(p) : p \in DOMAIN rows}
Dated == {r \in Listed : r.at # Undated}

\* Core's calendar goes to the last second of its last day, the service's to
\* the beginning of its own.
CalendarRows(v) ==
    {r \in Dated : r.at >= v.from * DayTicks /\ r.at <= (v.to + 1) * DayTicks - SecondTicks}
ServiceRows(v) == {r \in Dated : r.at >= v.from * DayTicks /\ r.at < v.to * DayTicks}
MissingRows == Listed \ Dated

RowsOf(v) ==
    CASE v.kind = "calendar" -> CalendarRows(v)
      [] v.kind = "service" -> ServiceRows(v)
      [] v.kind = "missing" -> MissingRows
      [] OTHER -> Dated

-----------------------------------------------------------------------------
(* The library changes while it is read *)

Changing == changes < MaxChanges /\ changes' = changes + 1 /\ UNCHANGED <<stored, readerVars, requests, seeking>>

Add(t) ==
    /\ Changing
    /\ lastId < MaxId
    /\ lastId' = lastId + 1
    /\ rows' = [p \in DOMAIN rows \cup {lastId'} |-> IF p = lastId' THEN t ELSE rows[p]]

Vanish(p) ==
    /\ Changing
    /\ rows' = [q \in DOMAIN rows \ {p} |-> rows[q]]
    /\ UNCHANGED lastId

\* A photo's date is found, or another one.
Redate(p, t) ==
    /\ Changing
    /\ view.kind # "trash" /\ rows[p] # t
    /\ rows' = [rows EXCEPT ![p] = t]
    /\ UNCHANGED lastId

\* Somebody looks at the map: the clusters of that map replace all others.
StoreClusters(map) ==
    /\ changes < MaxChanges /\ changes' = changes + 1
    /\ stored' = map
    /\ UNCHANGED <<rows, lastId, readerVars, requests, seeking>>

\* The maps of the photos there are: no photo in two clusters, in any order.
Maps ==
    UNION {[C -> {s \in UNION {SetToSeqs(S) : S \in SUBSET DOMAIN rows} : s # <<>>}] : C \in SUBSET Clusters}

-----------------------------------------------------------------------------
(* The reader asks *)

Send(q) == requests' = requests \cup {q}

LoadMore ==
    /\ ~loading /\ more /\ ~broken
    /\ loading' = TRUE
    /\ Send(Request(view, generation, cursor, page))
    /\ UNCHANGED <<libraryVars, view, generation, cursor, page, more, shown, broken, seeking>>

\* reset() and the first load of what is then looked at.
Restart(v, c) ==
    /\ view' = v
    /\ generation' = generation + 1
    /\ loading' = TRUE
    /\ cursor' = c
    /\ page' = 1
    /\ more' = TRUE
    /\ shown' = <<>>
    /\ broken' = FALSE
    /\ Send(Request(v, generation', c, 1))
    /\ UNCHANGED libraryVars

\* Another order, another range of days, another cluster.
OpenView(v) ==
    /\ generation < MaxViews /\ v # view /\ v.kind = view.kind
    /\ Restart(v, None)
    /\ UNCHANGED seeking

\* A day that is shown is scrolled to; for any other a cursor is asked for.
JumpToDate(d) ==
    /\ view.kind = "calendar" /\ seeking = NoSeek /\ generation < MaxViews
    /\ \A i \in 1 .. Len(shown) : Day(shown[i].at) # d
    /\ seeking' = [stage |-> "asked", day |-> d, cursor |-> None]
    /\ UNCHANGED <<libraryVars, readerVars, requests>>

AnswerSeek ==
    /\ seeking.stage = "asked"
    /\ seeking' = [seeking EXCEPT !.stage = "answered", !.cursor = Seek(seeking.day, Dated)]
    /\ UNCHANGED <<libraryVars, readerVars, requests>>

\* No dated photo at all is an error, and the view stays as it is.
Jump ==
    /\ seeking.stage = "answered"
    /\ seeking' = NoSeek
    /\ IF view.kind = "calendar" /\ seeking.cursor # None
       THEN Restart(view, seeking.cursor)
       ELSE UNCHANGED <<libraryVars, readerVars, requests>>

-----------------------------------------------------------------------------
(* The server answers *)

Becomes(q, r) ==
    /\ requests' = (requests \ {q}) \cup {r}
    /\ UNCHANGED <<libraryVars, readerVars, seeking>>

Answered(q, items, next, hasNext) ==
    Becomes(q, [q EXCEPT !.stage = "answered", !.items = items, !.next = next, !.hasNext = hasNext])

\* A page that ends at the end of a day, or of the listing.
FindPage(q) ==
    LET found == Found(q.view.order, q.cursor, RowsOf(q.view))
    IN  /\ q.stage = "sent" /\ q.view.kind \in {"calendar", "trash"}
        /\ IF SplitsDay(found)
           THEN Becomes(q, [q EXCEPT !.stage = "found", !.found = found])
           ELSE Answered(q, Kept(found), NextCursor(found, Kept(found)), FALSE)

\* One that does not is completed by a query of its own.
CompleteDay(q) ==
    LET last == q.found[PageSize]
        rest == IF q.view.kind = "trash"
                THEN RestOfTrashDay(last, RowsOf(q.view))
                ELSE RestOfCalendarDay(q.view.order, q.cursor, last, RowsOf(q.view))
        items == Kept(q.found) \o rest
    IN  /\ q.stage = "found"
        /\ Answered(q, items, NextCursor(q.found, items), FALSE)

\* The EXIF service's calendar does not mind days.
ServicePage(q) ==
    LET found == Found("oldest", q.cursor, RowsOf(q.view))
    IN  /\ q.stage = "sent" /\ q.view.kind = "service"
        /\ Answered(q, Kept(found), NextCursor(found, Kept(found)), FALSE)

\* Numbered pages: the rows are counted, then a page of them is read.
Count(q) ==
    /\ q.stage = "sent" /\ q.view.kind \in {"gallery", "missing"}
    /\ Becomes(q, [q EXCEPT !.stage = "counted", !.total = Cardinality(RowsOf(q.view))])

GalleryPage(q) ==
    /\ q.stage = "counted" /\ q.view.kind = "gallery"
    /\ \E s \in ByTime(q.view.order, RowsOf(q.view)) :
          Answered(q, PageOf(s, q.page), None, HasNextPage(q.page, q.total))

MissingPage(q) ==
    /\ q.stage = "counted" /\ q.view.kind = "missing"
    /\ Answered(q, PageOf(SetToSortSeq(RowsOf(q.view), LAMBDA a, b : a.id > b.id), q.page),
                None, HasNextPage(q.page, q.total))

\* The photos of a cluster are those of the map that was last looked at, by
\* anyone, less those that are gone.
ClusterImages(q) ==
    /\ q.stage = "sent" /\ q.view.kind = "cluster" /\ q.view.cluster \in DOMAIN stored
    /\ LET photos == stored[q.view.cluster]
           slice == ClusterPage(photos, q.page)
           there == SelectSeq(slice, LAMBDA p : p \in DOMAIN rows)
       IN  /\ ~Misses(slice, DOMAIN rows)
           /\ Answered(q, [i \in 1 .. Len(there) |-> Row(there[i])], None,
                       HasNextPage(q.page, Len(photos)))

\* Not found, or the handler has missed a place and panicked.
ClusterFails(q) ==
    /\ q.stage = "sent" /\ q.view.kind = "cluster"
    /\ \/ q.view.cluster \notin DOMAIN stored
       \/ /\ q.view.cluster \in DOMAIN stored
          /\ Misses(ClusterPage(stored[q.view.cluster], q.page), DOMAIN rows)
    /\ Becomes(q, [q EXCEPT !.stage = "failed"])

-----------------------------------------------------------------------------
(* The reader takes the answer *)

Taken(q) == requests' = requests \ {q} /\ UNCHANGED <<libraryVars, view, generation, seeking>>

\* The answer to a view that has been left.
Discard(q) ==
    /\ q.stage \in {"answered", "failed"} /\ q.gen # generation
    /\ Taken(q)
    /\ UNCHANGED <<loading, cursor, page, more, shown, broken>>

\* A plausible error: the answer to any view is taken.
TakeAnyGroups(q) ==
    /\ q.stage = "answered" /\ q.view.kind \in ByCursor
    /\ broken' = (q.view.kind # "service" /\ shown # <<>> /\ q.items = <<>>)
    /\ shown' = shown \o q.items
    /\ cursor' = q.next
    /\ more' = (q.next # None)
    /\ loading' = FALSE
    /\ Taken(q)
    /\ UNCHANGED page

\* mergeFn looks at the first group of what comes, if anything is shown yet.
TakeGroups(q) ==
    /\ q.stage = "answered" /\ q.gen = generation /\ q.view.kind \in ByCursor
    /\ broken' = (q.view.kind # "service" /\ shown # <<>> /\ q.items = <<>>)
    /\ shown' = shown \o q.items
    /\ cursor' = q.next
    /\ more' = (q.next # None)
    /\ loading' = FALSE
    /\ Taken(q)
    /\ UNCHANGED page

\* A plausible error: a row that has moved to this page is shown again.
TakeWholePage(q) ==
    /\ q.stage = "answered" /\ q.gen = generation /\ q.view.kind \notin ByCursor
    /\ shown' = shown \o q.items
    /\ page' = page + 1
    /\ more' = q.hasNext
    /\ loading' = FALSE
    /\ Taken(q)
    /\ UNCHANGED <<cursor, broken>>

\* Of a numbered page only what is not shown yet is added.
TakePage(q) ==
    /\ q.stage = "answered" /\ q.gen = generation /\ q.view.kind \notin ByCursor
    /\ shown' = shown \o SelectSeq(q.items, LAMBDA r : \A i \in 1 .. Len(shown) : shown[i].id # r.id)
    /\ page' = page + 1
    /\ more' = q.hasNext
    /\ loading' = FALSE
    /\ Taken(q)
    /\ UNCHANGED <<cursor, broken>>

TakeError(q) ==
    /\ q.stage = "failed" /\ q.gen = generation
    /\ loading' = FALSE
    /\ Taken(q)
    /\ UNCHANGED <<cursor, page, more, shown, broken>>

-----------------------------------------------------------------------------
BrowsingInit ==
    /\ \E n \in 0 .. MaxId : rows \in [1 .. n -> Times \cup {Undated}] /\ lastId = n
    /\ changes = 0
    /\ stored \in Maps
    /\ view \in Views
    /\ generation = 0
    /\ loading = FALSE
    /\ cursor = None
    /\ page = 1
    /\ more = TRUE
    /\ shown = <<>>
    /\ broken = FALSE
    /\ requests = {}
    /\ seeking = NoSeek

LibraryNext ==
    \/ \E t \in Times \cup {Undated} : Add(t)
    \/ \E p \in DOMAIN rows : Vanish(p) \/ \E t \in Times \cup {Undated} : Redate(p, t)
    \/ \E map \in Maps : StoreClusters(map)

ReaderNext ==
    \/ LoadMore \/ AnswerSeek \/ Jump
    \/ \E v \in Views : OpenView(v)
    \/ \E d \in Days : JumpToDate(d)

Serve(q) ==
    \/ FindPage(q) \/ CompleteDay(q) \/ ServicePage(q)
    \/ Count(q) \/ GalleryPage(q) \/ MissingPage(q)
    \/ ClusterImages(q) \/ ClusterFails(q)

Take(q) == Discard(q) \/ TakeGroups(q) \/ TakePage(q) \/ TakeError(q)

BrowsingNext == LibraryNext \/ ReaderNext \/ \E q \in requests : Serve(q) \/ Take(q)
=============================================================================
