----------------------------- MODULE EventPages -----------------------------
(***************************************************************************)
(* A session's events, loaded page by page from the newest on while others *)
(* are appended (ListSessionEvents in internal/session/repository.go, and  *)
(* useSessionEvents in web/src/control/api/hooks.ts).  A request counts    *)
(* the events and then reads a page of them; the two queries are no        *)
(* transaction, and events may be appended between them.                   *)
(***************************************************************************)
EXTENDS Paging, Sequences

CONSTANTS
    EventSize,  \* events per page
    MaxEvents   \* bound on events

ASSUME PagesAssumption == EventSize \in Nat \ {0} /\ MaxEvents \in Nat

VARIABLES
    events,     \* the number of events of a session; each is its number
    counted,    \* the page and the total of a request between its two queries
    loaded      \* the pages loaded so far, with the events there were at each

pageVars == <<events, counted, loaded>>

Counts == [page : Nat, total : 0..MaxEvents]
NoRequest == [page |-> 0, total |-> 0]

PageRecords == [page : Nat, total : 0..MaxEvents, ids : SUBSET (1..MaxEvents),
                listed : 0..MaxEvents]

PagesTypeOK ==
    /\ events \in 0..MaxEvents
    /\ counted \in Counts
    /\ loaded \in Seq(PageRecords)

PagesInit ==
    /\ events \in 0..MaxEvents
    /\ counted = NoRequest
    /\ loaded = <<>>

\* Mutant: the offset skips one page too many.
PageFromNext(page) ==
    {id \in 1..events :
        id > events - (page + 1) * EventSize /\ id <= events - page * EventSize}

\* listEvents, newest first: the ids on a page of the events there are now.
EventPage(page) ==
    {id \in 1..events :
        id > events - page * EventSize /\ id <= events - (page - 1) * EventSize}

LastPage == loaded[Len(loaded)]

\* getNextPageParam
HasNextPage == LastPage.page < Pages(LastPage.total, EventSize)

\* The first query of a request: the total, which the page asked for is clamped to.
CountEvents(page) ==
    /\ counted = NoRequest
    /\ counted' = [page |-> ClampListSessionsPage(page, EventSize, events),
                   total |-> events]
    /\ UNCHANGED <<events, loaded>>

\* useSessionEvents: the first page, and "Load more events".
OpenEvents == loaded = <<>> /\ CountEvents(1)

LoadMore == loaded # <<>> /\ HasNextPage /\ CountEvents(LastPage.page + 1)

\* The second: the rows, at the offset of that page.
ListEvents ==
    /\ counted # NoRequest
    /\ loaded' = Append(loaded, [page |-> counted.page, total |-> counted.total,
                                 ids |-> EventPage(counted.page), listed |-> events])
    /\ counted' = NoRequest
    /\ UNCHANGED events

\* The request fails, and may be made again.
LoadFails ==
    /\ counted # NoRequest
    /\ counted' = NoRequest
    /\ UNCHANGED <<events, loaded>>

AppendEvent ==
    /\ events < MaxEvents
    /\ events' = events + 1
    /\ UNCHANGED <<counted, loaded>>

PagesNext == OpenEvents \/ LoadMore \/ ListEvents \/ LoadFails \/ AppendEvent

PagesSpec == PagesInit /\ [][PagesNext]_pageVars

-----------------------------------------------------------------------------
LoadedIds == UNION {loaded[i].ids : i \in DOMAIN loaded}

\* Whatever is appended while a client loads page after page, of the events there
\* were when it began it misses none between the newest and the oldest it has.
\* When there is no next page it has them all, but for as many of the oldest as
\* were appended between the two queries of its last request: the rows have moved
\* back by so many, and the total of the first query says that none are left.
EventsComplete ==
    loaded # <<>> =>
        /\ \A id \in LoadedIds : id..loaded[1].total \subseteq LoadedIds
        /\ ~HasNextPage =>
              (LastPage.listed - LastPage.total + 1)..loaded[1].total \subseteq LoadedIds
=============================================================================
